----------------------------- MODULE CursorWalk -----------------------------
(***************************************************************************)
(* A reader follows next_cursor through GET .../messages while messages    *)
(* are sent, settled and retried.  A page is read by two queries of one    *)
(* READ COMMITTED transaction, own messages first, so it may mix two       *)
(* moments of the log.                                                     *)
(***************************************************************************)
EXTENDS Timeline

CONSTANTS
    Reader, Other,   \* the two participants
    PageLimit,       \* the limit parameter of the request
    MaxLog,          \* bound on the number of messages
    MaxRetries       \* bound on the retries of a message

ASSUME ReaderAssumption == Reader # Other
ASSUME WalkBoundsAssumption ==
    PageLimit \in Nat \ {0} /\ MaxLog \in Nat /\ MaxRetries \in Nat

VARIABLES
    log,
    phase,      \* where the reader stands
    cursor,     \* the "after" of its next request
    own,        \* what the first query of a page returned
    there,      \* history: what could be read when the page was begun
    got,        \* the ids returned so far
    returned,   \* how many items those pages had
    due         \* history: what the pages had to return

walk == <<phase, cursor, own, there, got, returned, due>>
vars == <<log, phase, cursor, own, there, got, returned, due>>

Readable == Outgoing(log, Reader) \cup Incoming(log, Reader)

\* the first request may come with any message id as its cursor, or with none
Init ==
    /\ log = << >>
    /\ phase = "ready"
    /\ cursor \in NoCursor .. MaxLog
    /\ own = {}
    /\ there = {}
    /\ got = {}
    /\ returned = 0
    /\ due = {}

----------------------------------------------------------------------------
(* The conversation goes on *)

Begin(p) ==
    /\ Len(log) < MaxLog
    /\ log' = Append(log, Entry(p, 0))
    /\ UNCHANGED walk

Proceed(i) ==
    /\ \/ log[i].status = "open" /\ log' = Commit(log, i)
       \/ /\ log[i].status = "processing"
          /\ \E s \in Settled :
                log' = Settle(log, i, [status |-> s, advised |-> {}])
       \/ /\ log[i].status = "failed"
          /\ log[i].tries < MaxRetries
          /\ log' = Retry(log, i)
    /\ UNCHANGED walk

----------------------------------------------------------------------------
(* The walk *)

StartPage ==
    /\ phase = "ready"
    /\ own' = Outgoing(log, Reader)
    /\ there' = Ids(Readable)
    /\ phase' = "reading"
    /\ UNCHANGED <<log, cursor, got, returned, due>>

FinishPage ==
    LET items == own \cup Incoming(log, Reader)
        page == Page(items, cursor, PageLimit)
        next == NextCursor(Ids(items), cursor, PageLimit)
    IN  /\ phase = "reading"
        /\ KnownCursor(Ids(items), cursor)
        /\ got' = got \cup Ids(page)
        /\ returned' = returned + Cardinality(page)
        /\ due' = due \cup
                    {i \in there : i > cursor /\ (i <= next \/ next = NoCursor)}
        /\ cursor' = next
        /\ phase' = IF next = NoCursor THEN "done" ELSE "ready"
        /\ own' = {}
        /\ there' = {}
        /\ UNCHANGED log

\* InvalidCursorError
RefusePage ==
    /\ phase = "reading"
    /\ ~KnownCursor(Ids(own \cup Incoming(log, Reader)), cursor)
    /\ phase' = "refused"
    /\ own' = {}
    /\ there' = {}
    /\ UNCHANGED <<log, cursor, got, returned, due>>

Next ==
    \/ \E p \in {Reader, Other} : Begin(p)
    \/ \E i \in DOMAIN log : Proceed(i)
    \/ StartPage
    \/ FinishPage
    \/ RefusePage

Spec == Init /\ [][Next]_vars

=============================================================================
