-------------------------- MODULE ClientProperties --------------------------
(***************************************************************************)
(* What a participant sees of a conversation, and what becomes of what     *)
(* they write.                                                             *)
(***************************************************************************)
EXTENDS RoomClient

\* how far a message has come
Progress(item) == 2 * item.tries + (IF item.status \in Settled THEN 1 ELSE 0)

\* Nothing is shown that did not happen: an item was the state of its
\* message at some time, and the other side's messages are only shown
\* delivered, with what the database holds for good.
ShownIsTrue ==
    \A c \in Clients : \A item \in shown[c] :
        /\ item.id \in DOMAIN log
        /\ Progress(item) <= Progress(log[item.id])
        /\ Progress(item) = Progress(log[item.id]) => item.status = log[item.id].status
        /\ log[item.id].from # c => log[item.id].status = "delivered"

\* A timeline never goes back: while the room is open, no message and no
\* guidance vanishes from it and no message returns to an earlier state, in
\* whatever order the answers of its requests arrive.
ViewNeverGoesBack ==
    [][\A c \in Clients : room'[c] # "left" =>
          /\ guidance[c] \subseteq guidance'[c]
          /\ \A old \in shown[c] : \E new \in shown'[c] :
                 new.id = old.id /\ Progress(new) >= Progress(old)]_vars

\* The composer is only emptied once the server has what was sent.
EmptiedOnceAccepted ==
    [][\A c \in Clients :
          text[c] # 0 /\ text'[c] = 0 /\ room'[c] # "left" =>
              \E i \in DOMAIN log :
                  /\ log[i].from = c
                  /\ log[i].text = message[c]
                  /\ log[i].status # "open"]_vars

Copies(c, t) == {i \in DOMAIN log : log[i].from = c /\ log[i].text = t}

\* A text becomes more than one message only by pressing Send again after
\* an answer was lost.
CopiesAreExplained ==
    \A c \in Clients : \A t \in 1..written[c] :
        Cardinality(Copies(c, t)) <= 1 + lost[c]

Reads(c, i) ==
    /\ i \in DOMAIN log
    /\ \/ log[i].from = c /\ log[i].status # "open"
       \/ log[i].from # c /\ log[i].status = "delivered"

\* AT-34: what a participant may read appears by itself while the room is
\* open.
VisibleIsShown ==
    \A c \in Clients, i \in 1..MaxLog :
        Reads(c, i) ~> \/ i \in Ids(shown[c])
                       \/ room[c] \in {"ended", "left"}

=============================================================================
