----------------------------- MODULE RoomClient -----------------------------
(***************************************************************************)
(* The browser of a participant in a conversation.  It shows what its last *)
(* completed refresh read: the conversation, the messages and the guidance *)
(* come from three requests of their own, and replace what is shown only   *)
(* together.  A poll, a send, a retry and an end all ask for a refresh,    *)
(* and whoever asks while one is under way joins it.                       *)
(*                                                                         *)
(* The server is the log of Timeline: a send opens and commits its entry   *)
(* in two steps, since the ACTIVE check takes no lock, and the mediation   *)
(* settles entries at any time, as MessageContract allows.                 *)
(***************************************************************************)
EXTENDS Timeline

CONSTANTS
    Clients,      \* participants whose browser is modelled
    Peers,        \* participants who act on the server only
    PageLimit,    \* how many messages a refresh asks for
    Outcomes,     \* the settlements that the mediation chooses from
    MaxTexts,     \* bound on the texts a participant writes
    MaxLog,       \* bound on the number of messages
    MaxRetries,   \* bound on the retries of a message
    MaxFaults     \* bound on failed and lost requests

ASSUME ParticipantsAssumption == Clients \cap Peers = {}
ASSUME ClientBoundsAssumption ==
    /\ Outcomes \subseteq Settlements
    /\ PageLimit \in Nat \ {0}
    /\ MaxTexts \in Nat /\ MaxLog \in Nat
    /\ MaxRetries \in Nat /\ MaxFaults \in Nat

VARIABLES
    conv,       \* conversations.status
    log,
    room,       \* the status a browser shows; "left" once it is sent away
    shown,      \* the items in its timeline
    guidance,   \* the messages it shows guidance on
    refreshes,  \* refreshes under way, oldest first
    acting,     \* has it an end or a retry unanswered?
    text,       \* the text in the composer, 0 if it is empty
    written,    \* how many texts have been written
    sending,    \* where a send stands
    message,    \* the text that is being sent
    posted,     \* the entry it made
    lost,       \* history: sends whose answer was lost
    faults

server == <<conv, log>>
view == <<room, shown, guidance>>
send == <<sending, message, posted>>
composer == <<text, written, send, lost>>
vars == <<conv, log, room, shown, guidance, refreshes, acting, text, written,
          sending, message, posted, lost, faults>>

Parts == {"room", "own", "incoming", "guidance"}

\* the answers a refresh has so far
NoAnswers == [have |-> {}, room |-> "loading", own |-> {}, incoming |-> {},
              guidance |-> {}]

Init ==
    /\ conv = "active"
    /\ log = << >>
    /\ room = [c \in Clients |-> "loading"]
    /\ shown = [c \in Clients |-> {}]
    /\ guidance = [c \in Clients |-> {}]
    /\ refreshes = [c \in Clients |-> << >>]
    /\ acting = [c \in Clients |-> FALSE]
    /\ text = [c \in Clients |-> 0]
    /\ written = [c \in Clients |-> 0]
    /\ sending = [c \in Clients |-> "idle"]
    /\ message = [c \in Clients |-> 0]
    /\ posted = [c \in Clients |-> 0]
    /\ lost = [c \in Clients |-> 0]
    /\ faults = 0

Fail ==
    /\ faults < MaxFaults
    /\ faults' = faults + 1

----------------------------------------------------------------------------
(* The server, without the browsers *)

OpenEntry(p, t) ==
    /\ conv = "active"
    /\ Len(log) < MaxLog
    /\ log' = Append(log, Entry(p, t))
    /\ UNCHANGED conv

RetryEntry(i) ==
    /\ conv = "active"
    /\ log[i].status = "failed"
    /\ log[i].tries < MaxRetries
    /\ log' = Retry(log, i)
    /\ UNCHANGED conv

EndConversation == conv' = "ended" /\ UNCHANGED log

PeerActs ==
    /\ \/ \E p \in Peers : OpenEntry(p, 0)
       \/ \E i \in DOMAIN log : log[i].from \in Peers /\ RetryEntry(i)
       \/ Peers # {} /\ EndConversation
    /\ UNCHANGED <<view, refreshes, acting, composer, faults>>

CommitSend(i) ==
    /\ log[i].status = "open"
    /\ log' = Commit(log, i)
    /\ UNCHANGED <<conv, view, refreshes, acting, composer, faults>>

Mediate(i, s) ==
    /\ log[i].status = "processing"
    /\ log' = Settle(log, i, s)
    /\ UNCHANGED <<conv, view, refreshes, acting, composer, faults>>

----------------------------------------------------------------------------
(* Refresh *)

\* fault: a refresh is started although one is under way
MayOverlap(c) == Len(refreshes[c]) < 2

\* activeRefresh is empty
MayStart(c) == refreshes[c] = << >>

\* refresh() starts one or joins the one under way
Refresh(c) ==
    refreshes' = [refreshes EXCEPT ![c] =
                     IF MayStart(c) THEN Append(@, NoAnswers) ELSE @]

\* fault: polling goes on only while the conversation is known
PollsWhenLoaded(c) == room[c] = "active"

\* usePolling: a room that is shown as ended sets no timer
Polls(c) == room[c] \in {"loading", "active"}

Poll(c) ==
    /\ Polls(c)
    /\ MayStart(c)
    /\ Refresh(c)
    /\ UNCHANGED <<server, view, acting, composer, faults>>

Lacks(c, n, part) == part \notin refreshes[c][n].have

\* one query of one of the three requests; own messages are queried first
Answer(c, n, part) ==
    LET r == refreshes[c][n] IN
    /\ Lacks(c, n, part)
    /\ part = "incoming" => ~Lacks(c, n, "own")
    /\ refreshes' = [refreshes EXCEPT ![c][n] =
          [r EXCEPT !.have = @ \cup {part},
                    !.room = IF part = "room" THEN conv ELSE @,
                    !.own = IF part = "own" THEN Outgoing(log, c) ELSE @,
                    !.incoming = IF part = "incoming" THEN Incoming(log, c) ELSE @,
                    !.guidance = IF part = "guidance" THEN Guided(log, c) ELSE @]]
    /\ UNCHANGED <<server, view, acting, composer, faults>>

\* fault: activeRefresh is not emptied when a request fails
Stuck(seq, n) == seq

Without(seq, n) == SubSeq(seq, 1, n - 1) \o SubSeq(seq, n + 1, Len(seq))

Done(c, n) == refreshes' = [refreshes EXCEPT ![c] = Without(@, n)]

\* what was being sent matters no more
Forget(c, over) ==
    /\ message' = [message EXCEPT ![c] = IF over THEN 0 ELSE @]
    /\ posted' = [posted EXCEPT ![c] = IF over THEN 0 ELSE @]

\* fault: the composer is emptied although nothing was being sent
EmptyAlways(c) ==
    /\ text' = [text EXCEPT ![c] = 0]
    /\ sending' = [sending EXCEPT ![c] = IF @ = "refresh" THEN "idle" ELSE @]
    /\ Forget(c, sending[c] = "refresh")

\* a send that was accepted has waited for the refresh, whatever became of
\* it: the composer is emptied, with what was written there since
Resume(c) ==
    /\ text' = [text EXCEPT ![c] = IF sending[c] = "refresh" THEN 0 ELSE @]
    /\ sending' = [sending EXCEPT ![c] = IF @ = "refresh" THEN "idle" ELSE @]
    /\ Forget(c, sending[c] = "refresh")

ShownPage(r) == Page(r.own \cup r.incoming, NoCursor, PageLimit)

Show(c, n) ==
    LET r == refreshes[c][n] IN
    /\ r.have = Parts
    /\ room' = [room EXCEPT ![c] = r.room]
    /\ shown' = [shown EXCEPT ![c] = ShownPage(r)]
    /\ guidance' = [guidance EXCEPT ![c] = r.guidance]
    /\ Done(c, n)
    /\ Resume(c)
    /\ UNCHANGED <<server, acting, written, lost, faults>>

\* one of the three requests fails: an error is shown, the view stays
FailRefresh(c, n) ==
    /\ Fail
    /\ Done(c, n)
    /\ Resume(c)
    /\ UNCHANGED <<server, view, acting, written, lost>>

\* a request is answered with 401: the session is cleared, the room left
SendAway(c) ==
    /\ refreshes[c] # << >>
    /\ Fail
    /\ room' = [room EXCEPT ![c] = "left"]
    /\ shown' = [shown EXCEPT ![c] = {}]
    /\ guidance' = [guidance EXCEPT ![c] = {}]
    /\ refreshes' = [refreshes EXCEPT ![c] = << >>]
    /\ acting' = [acting EXCEPT ![c] = FALSE]
    /\ text' = [text EXCEPT ![c] = 0]
    /\ sending' = [sending EXCEPT ![c] = "idle"]
    /\ Forget(c, TRUE)
    /\ UNCHANGED <<server, written, lost>>

----------------------------------------------------------------------------
(* The composer *)

\* the field stays enabled while a send is under way
Write(c) ==
    /\ room[c] = "active"
    /\ text[c] = 0 \/ sending[c] # "idle"
    /\ written[c] < MaxTexts
    /\ written' = [written EXCEPT ![c] = @ + 1]
    /\ text' = [text EXCEPT ![c] = written[c] + 1]
    /\ UNCHANGED <<server, view, refreshes, acting, send, lost, faults>>

\* fault: the button works while a send is under way
MaySendTwice(c) ==
    room[c] = "active" /\ text[c] # 0 /\ sending[c] \in {"idle", "wait"}

MaySend(c) == room[c] = "active" /\ text[c] # 0 /\ sending[c] = "idle"

PressSend(c) ==
    /\ MaySend(c)
    /\ sending' = [sending EXCEPT ![c] = "post"]
    /\ message' = [message EXCEPT ![c] = text[c]]
    /\ UNCHANGED <<server, view, refreshes, acting, text, written, posted,
                   lost, faults>>

\* a message of its own for every try: the client message id is new
OpenSend(c) ==
    /\ sending[c] = "post"
    /\ OpenEntry(c, message[c])
    /\ posted' = [posted EXCEPT ![c] = Len(log) + 1]
    /\ sending' = [sending EXCEPT ![c] = "wait"]
    /\ UNCHANGED <<view, refreshes, acting, text, written, message, lost, faults>>

\* the conversation has ended, or the request is lost: the text stays
RefuseSend(c) ==
    /\ sending[c] = "post"
    /\ \/ conv = "ended" /\ UNCHANGED faults
       \/ Fail
    /\ sending' = [sending EXCEPT ![c] = "idle"]
    /\ Forget(c, TRUE)
    /\ UNCHANGED <<server, view, refreshes, acting, text, written, lost>>

AcceptSend(c) ==
    /\ sending[c] = "wait"
    /\ log[posted[c]].status # "open"
    /\ sending' = [sending EXCEPT ![c] = "refresh"]
    /\ Refresh(c)
    /\ UNCHANGED <<server, view, acting, text, written, message, posted, lost,
                   faults>>

\* the server has the message, the browser shows an error
LoseAnswer(c) ==
    /\ sending[c] = "wait"
    /\ Fail
    /\ lost' = [lost EXCEPT ![c] = @ + 1]
    /\ sending' = [sending EXCEPT ![c] = "idle"]
    /\ Forget(c, TRUE)
    /\ UNCHANGED <<server, view, refreshes, acting, text, written>>

----------------------------------------------------------------------------
(* The buttons End and Retry; at most one of their requests at a time *)

RetryOffered(c, i) ==
    /\ room[c] = "active"
    /\ i \in DOMAIN log
    /\ log[i].from = c
    /\ \E item \in shown[c] : item.id = i /\ item.status = "failed"

\* the request and the server's transaction; a refusal changes nothing
Press(c) ==
    /\ ~acting[c]
    /\ \/ room[c] # "left" /\ room[c] # "ended" /\ EndConversation
       \/ \E i \in DOMAIN log : RetryOffered(c, i) /\ RetryEntry(i)
    /\ acting' = [acting EXCEPT ![c] = TRUE]
    /\ UNCHANGED <<view, refreshes, composer, faults>>

\* an answer is followed by a refresh, an error or a lost answer is not
Pressed(c) ==
    /\ acting[c]
    /\ acting' = [acting EXCEPT ![c] = FALSE]
    /\ \/ Refresh(c) /\ UNCHANGED faults
       \/ Fail /\ UNCHANGED refreshes
    /\ UNCHANGED <<server, view, composer>>

----------------------------------------------------------------------------

Server ==
    \/ PeerActs
    \/ \E i \in DOMAIN log : CommitSend(i)
    \/ \E i \in DOMAIN log, s \in Outcomes : Mediate(i, s)

Refreshing(c) ==
    \E n \in DOMAIN refreshes[c] :
        (\E part \in Parts : Answer(c, n, part)) \/ Show(c, n)

Faulty(c) ==
    \/ \E n \in DOMAIN refreshes[c] : FailRefresh(c, n)
    \/ SendAway(c)

Compose(c) ==
    \/ Write(c)
    \/ PressSend(c)
    \/ OpenSend(c)
    \/ RefuseSend(c)
    \/ AcceptSend(c)
    \/ LoseAnswer(c)

Browser(c) ==
    \/ Poll(c)
    \/ Refreshing(c)
    \/ Faulty(c)
    \/ Compose(c)
    \/ Press(c)
    \/ Pressed(c)

Next == Server \/ \E c \in Clients : Browser(c)

Spec == Init /\ [][Next]_vars

(***************************************************************************)
(* Timers fire, requests are answered or fail, answers are handled, and a  *)
(* transaction that has begun commits.  Nobody has to write, press or      *)
(* mediate anything.                                                       *)
(***************************************************************************)
Fairness ==
    /\ \A c \in Clients :
          WF_vars(Poll(c)) /\ WF_vars(Refreshing(c)) /\ WF_vars(AcceptSend(c))
    /\ WF_vars(\E i \in DOMAIN log : CommitSend(i))

FairSpec == Spec /\ Fairness

=============================================================================
