------------------------------ MODULE Timeline ------------------------------
(***************************************************************************)
(* What each participant may read of a conversation's messages.            *)
(*                                                                         *)
(* A log is the sequence of messages in the order (created_at, id), which  *)
(* is the order of every query.  created_at is the start of the inserting  *)
(* transaction, so an entry takes its place before anybody can see it:     *)
(* it is "open" until that transaction commits.                            *)
(*                                                                         *)
(* An item is what a read returns of an entry.  "tries" counts retries and *)
(* lets properties tell an older reading from a newer one; the participant *)
(* is only shown the status.                                               *)
(***************************************************************************)
EXTENDS Naturals, Sequences, FiniteSets

NoCursor == 0

Entry(from, text) ==
    [from |-> from, text |-> text, status |-> "open", tries |-> 0,
     advised |-> {}]

Item(log, i) == [id |-> i, status |-> log[i].status, tries |-> log[i].tries]

Own(log, p) == {i \in DOMAIN log : log[i].from = p /\ log[i].status # "open"}

\* fault: a failed message is hidden from its sender
OutgoingUnlessFailed(log, p) ==
    {Item(log, i) : i \in {j \in Own(log, p) : log[j].status # "failed"}}

\* list_for_sender: every message of one's own, whatever became of it
Outgoing(log, p) == {Item(log, i) : i \in Own(log, p)}

\* fault: the status of a message is not looked at
FromOthers(log, p) ==
    {Item(log, i) : i \in {j \in DOMAIN log :
                              log[j].from # p /\ log[j].status # "open"}}

\* list_incoming_for_recipient: of the other's messages, the delivered ones
Incoming(log, p) ==
    {Item(log, i) : i \in {j \in DOMAIN log :
                              log[j].from # p /\ log[j].status = "delivered"}}

\* list_for_participant: the messages one has guidance on
Guided(log, p) ==
    {i \in DOMAIN log :
        (IF log[i].from = p THEN "sender" ELSE "recipient") \in log[i].advised}

----------------------------------------------------------------------------
(* _paginate, on items or on message ids: "after" is the cursor *)

Ids(items) == {item.id : item \in items}

KnownCursor(ids, after) == after = NoCursor \/ after \in ids

\* fault: a page begins with the cursor's own item
RestFromCursor(ids, after) == {i \in ids : i >= after}

Rest(ids, after) == {i \in ids : i > after}

Selected(ids, after, limit) ==
    {i \in Rest(ids, after) :
        Cardinality({j \in Rest(ids, after) : j <= i}) <= limit}

\* fault: the last page is taken for full
HasMoreIfFull(ids, after, limit) ==
    Cardinality(Rest(ids, after)) > limit + 1

HasMore(ids, after, limit) ==
    Selected(ids, after, limit) # Rest(ids, after)

NextCursor(ids, after, limit) ==
    IF HasMore(ids, after, limit)
    THEN CHOOSE i \in Selected(ids, after, limit) :
            \A j \in Selected(ids, after, limit) : j <= i
    ELSE NoCursor

Page(items, after, limit) ==
    {item \in items : item.id \in Selected(Ids(items), after, limit)}

----------------------------------------------------------------------------
(* The services and the mediation, as far as the log shows them *)

Settled == {"delivered", "blocked", "failed"}

\* how a message may be settled: its status, and who is advised
Settlements ==
    [status : {"delivered"}, advised : SUBSET {"sender", "recipient"}]
    \cup [status : {"blocked"}, advised : SUBSET {"sender"}]
    \cup [status : {"failed"}, advised : {{}}]

Commit(log, i) == [log EXCEPT ![i].status = "processing"]

Settle(log, i, s) ==
    [log EXCEPT ![i].status = s.status, ![i].advised = @ \cup s.advised]

Retry(log, i) == [log EXCEPT ![i].status = "processing", ![i].tries = @ + 1]

=============================================================================
