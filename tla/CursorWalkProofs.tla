-------------------------- MODULE CursorWalkProofs --------------------------
(***************************************************************************)
(* Theorems about CursorWalk, for any page limit, number of messages and   *)
(* number of retries.                                                      *)
(***************************************************************************)
EXTENDS CursorWalkProperties, SequenceTheorems, FiniteSetTheorems, TLAPS

----------------------------------------------------------------------------
(* Pages of a bounded set of message ids                                   *)

LEMMA LeastNatural ==
    ASSUME NEW S \in SUBSET Nat, S # {}
    PROVE  \E x \in S : \A y \in S : x <= y
<1>1. PICK x \in S : \A y \in S : ~(<<y, x>> \in OpToRel(<, Nat))
  BY NatLessThanWellFounded, WFMin
<1>2. \A y \in S : ~(y < x)
  BY <1>1 DEF OpToRel
<1> QED
  BY <1>2

LEMMA GreatestNatural ==
    ASSUME NEW n \in Nat, NEW S \in SUBSET (1 .. n), S # {}
    PROVE  \E x \in S : \A y \in S : y <= x
<1> DEFINE gaps == {n - x : x \in S}
<1>1. \A x \in S : x \in Nat /\ x <= n /\ n - x \in gaps
  OBVIOUS
<1>2. \A g \in gaps : g \in Nat
  BY <1>1
<1>3. gaps # {}
  BY <1>1
<1>4. PICK g \in gaps : \A h \in gaps : g <= h
  BY <1>2, <1>3, LeastNatural
<1>5. PICK x \in S : g = n - x
  OBVIOUS
<1>6. \A y \in S : n - x <= n - y
  BY <1>1, <1>4, <1>5
<1> HIDE DEF gaps
<1> QED
  BY <1>1, <1>6

\* What is selected lies behind the cursor, and is an initial piece of what
\* lies there, an empty one only if nothing does.
LEMMA SelectedIsFirst ==
    ASSUME NEW n \in Nat, NEW ids \in SUBSET (1 .. n), NEW after \in Nat,
           NEW limit \in Nat \ {0}
    PROVE  /\ Rest(ids, after) \subseteq ids
           /\ Selected(ids, after, limit) \subseteq Rest(ids, after)
           /\ \A i \in Rest(ids, after) : i > after
           /\ \A i \in ids : i > after => i \in Rest(ids, after)
           /\ \A i \in Rest(ids, after), k \in Selected(ids, after, limit) :
                 i <= k => i \in Selected(ids, after, limit)
           /\ Rest(ids, after) # {} => Selected(ids, after, limit) # {}
<1> DEFINE rest == Rest(ids, after)
           selected == Selected(ids, after, limit)
           upto(i) == {j \in rest : j <= i}
<1>1. /\ rest \subseteq ids /\ rest \in SUBSET Nat
      /\ \A i \in rest : i > after
      /\ \A i \in ids : i > after => i \in rest
      /\ \A i \in rest : i \in Nat
  <2>1. ids \in SUBSET Nat
    OBVIOUS
  <2>2. \A i : i \in rest <=> i \in ids /\ i > after
    BY DEF Rest
  <2> QED
    BY <2>1, <2>2
<1>2. IsFiniteSet(rest)
  <2>1. IsFiniteSet(1 .. n)
    BY FS_Interval
  <2> QED
    BY <1>1, <2>1, FS_Subset
<1>3. \A i : IsFiniteSet(upto(i)) /\ Cardinality(upto(i)) \in Nat
  BY <1>2, FS_Subset, FS_CardinalityType
<1>4. /\ selected \subseteq rest
      /\ \A i \in rest : Cardinality(upto(i)) <= limit => i \in selected
      /\ \A i \in selected : Cardinality(upto(i)) <= limit
  BY DEF Selected
<1> HIDE DEF rest, selected
<1>5. ASSUME NEW i \in rest, NEW k \in selected, i <= k
      PROVE  i \in selected
  <2>1. upto(i) \subseteq upto(k)
    <3> SUFFICES ASSUME NEW j \in rest, j <= i PROVE j <= k
      OBVIOUS
    <3>1. i \in Nat /\ k \in Nat /\ j \in Nat
      BY <1>1, <1>4
    <3> QED
      BY <1>5, <3>1
  <2>2. Cardinality(upto(i)) <= Cardinality(upto(k))
    BY <1>3, <2>1, FS_Subset
  <2>3. Cardinality(upto(i)) <= limit
    <3>1. Cardinality(upto(k)) <= limit
      BY <1>4
    <3>2. Cardinality(upto(i)) \in Nat /\ Cardinality(upto(k)) \in Nat
      BY <1>3
    <3> HIDE DEF upto
    <3> QED
      BY <2>2, <3>1, <3>2
  <2> QED
    BY <1>4, <2>3
<1>6. ASSUME rest # {} PROVE selected # {}
  <2>1. PICK i \in rest : \A j \in rest : i <= j
    BY <1>1, <1>6, LeastNatural
  <2>2. upto(i) = {i}
    <3>1. \A j \in rest : j \in Nat
      BY <1>1
    <3> QED
      BY <2>1, <3>1
  <2>3. Cardinality(upto(i)) = 1
    BY <2>2, FS_Singleton
  <2>4. Cardinality(upto(i)) <= limit
    BY <2>3
  <2> QED
    BY <1>4, <2>4
<1> QED
  BY <1>1, <1>4, <1>5, <1>6 DEF rest, selected

\* What _paginate selects, and the cursor it hands out: nothing up to that
\* cursor is left out, and nothing at all when there is no cursor.
LEMMA Paginate ==
    ASSUME NEW n \in Nat, NEW ids \in SUBSET (1 .. n), NEW after \in Nat,
           NEW limit \in Nat \ {0}
    PROVE  /\ Selected(ids, after, limit) \subseteq ids
           /\ \A i \in Selected(ids, after, limit) : i > after
           /\ \/ NextCursor(ids, after, limit) = NoCursor
              \/ /\ NextCursor(ids, after, limit) \in Selected(ids, after, limit)
                 /\ \A i \in Selected(ids, after, limit) :
                       i <= NextCursor(ids, after, limit)
           /\ \A i \in ids :
                 /\ i > after
                 /\ i <= NextCursor(ids, after, limit)
                    \/ NextCursor(ids, after, limit) = NoCursor
                 => i \in Selected(ids, after, limit)
<1> DEFINE rest == Rest(ids, after)
           selected == Selected(ids, after, limit)
           next == NextCursor(ids, after, limit)
<1>1. /\ rest \subseteq ids /\ selected \subseteq rest
      /\ \A i \in rest : i > after
      /\ \A i \in ids : i > after => i \in rest
      /\ \A i \in rest, k \in selected : i <= k => i \in selected
      /\ rest # {} => selected # {}
  BY SelectedIsFirst
<1> SUFFICES /\ selected \subseteq ids
             /\ \A i \in selected : i > after
             /\ \/ next = NoCursor
                \/ next \in selected /\ \A i \in selected : i <= next
             /\ \A i \in ids :
                   i > after /\ (i <= next \/ next = NoCursor) => i \in selected
  OBVIOUS
<1>4. selected = Selected(ids, after, limit) /\ rest = Rest(ids, after)
      /\ next = NextCursor(ids, after, limit)
  OBVIOUS
<1> HIDE DEF selected, rest, next
<1>2. CASE HasMore(ids, after, limit)
  <2>1. selected # rest
    BY <1>2, <1>4 DEF HasMore
  <2>2. selected # {} /\ selected \in SUBSET (1 .. n)
    BY <1>1, <2>1
  <2>3. PICK k \in selected : \A j \in selected : j <= k
    BY <2>2, GreatestNatural
  <2>4. next = CHOOSE i \in selected : \A j \in selected : j <= i
    BY <1>2, <1>4 DEF NextCursor
  <2>5. next \in selected /\ \A i \in selected : i <= next
    BY <2>3, <2>4
  <2>6. next # NoCursor
    BY <2>2, <2>5 DEF NoCursor
  <2> QED
    BY <1>1, <2>5, <2>6
<1>3. CASE ~HasMore(ids, after, limit)
  <2>1. next = NoCursor /\ selected = rest
    BY <1>3, <1>4 DEF NextCursor, HasMore
  <2> QED
    BY <1>1, <2>1
<1> QED
  BY <1>2, <1>3

----------------------------------------------------------------------------
(* The inductive invariant                                                 *)

Entries ==
    [from : {Reader, Other}, text : {0}, tries : Nat, advised : {{}},
     status : {"open", "processing"} \cup Settled]

\* message i can be read by the reader
CanRead(i) ==
    /\ i \in DOMAIN log
    /\ IF log[i].from = Reader THEN log[i].status # "open"
                               ELSE log[i].status = "delivered"

WalkTypes ==
    /\ log \in Seq(Entries)
    /\ phase \in {"ready", "reading", "done", "refused"}
    /\ cursor \in Nat
    /\ returned \in Nat
    /\ got \subseteq DOMAIN log

\* What the first query returned is still the reader's own and readable, and
\* what was readable when the page was begun will be on it.
PageIsTrue ==
    /\ \A item \in own :
          item.id \in DOMAIN log /\ log[item.id].from = Reader
          /\ CanRead(item.id)
    /\ \A item, other \in own : item.id = other.id => item = other
    /\ \A i \in there :
          CanRead(i) /\ (log[i].from = Reader => i \in Ids(own))

\* The cursor follows what was returned, and is a message that was returned.
CursorFollows ==
    /\ phase \in {"ready", "reading"} => \A i \in got : i <= cursor
    /\ phase = "ready" /\ returned > 0 => CanRead(cursor)
    /\ phase = "reading" /\ returned > 0 => cursor \in there
    /\ CursorStaysValid

WalkInv ==
    /\ WalkTypes
    /\ PageIsTrue
    /\ CursorFollows
    /\ WalkMissesOnlyLateOnes
    /\ NothingTwice

LEMMA InvAtStart == Init => WalkInv
<1> SUFFICES ASSUME Init PROVE WalkInv
  OBVIOUS
<1>1. log = << >> /\ phase = "ready" /\ cursor \in 0 .. MaxLog
      /\ own = {} /\ there = {} /\ got = {} /\ returned = 0 /\ due = {}
  BY DEF Init, NoCursor
<1>2. WalkTypes
  BY <1>1, WalkBoundsAssumption DEF WalkTypes
<1>3. PageIsTrue
  BY <1>1 DEF PageIsTrue
<1>4. CursorFollows
  BY <1>1 DEF CursorFollows, CursorStaysValid
<1>5. WalkMissesOnlyLateOnes
  BY <1>1 DEF WalkMissesOnlyLateOnes
<1>6. NothingTwice
  BY <1>1, FS_EmptySet DEF NothingTwice
<1> QED
  BY <1>2, <1>3, <1>4, <1>5, <1>6 DEF WalkInv

\* The conversation goes on: no message is taken back, and one that could be
\* read still can.
ConversationGrows ==
    /\ log' \in Seq(Entries)
    /\ \A i \in DOMAIN log :
          /\ i \in DOMAIN log' /\ log'[i].from = log[i].from
          /\ log[i].status # "open" => log'[i].status # "open"
          /\ log[i].status = "delivered" => log'[i].status = "delivered"

LEMMA BeginGrows ==
    ASSUME WalkTypes, NEW p \in {Reader, Other}, Begin(p)
    PROVE  ConversationGrows
<1>1. Entry(p, 0) \in Entries
  BY DEF Entry, Entries
<1>2. log \in Seq(Entries) /\ log' = Append(log, Entry(p, 0))
  BY DEF WalkTypes, Begin
<1>3. log' \in Seq(Entries) /\ Len(log') = Len(log) + 1
      /\ \A i \in 1 .. Len(log) : log'[i] = log[i]
  BY <1>1, <1>2, AppendProperties
<1>4. DOMAIN log = 1 .. Len(log) /\ DOMAIN log' = 1 .. Len(log')
      /\ Len(log) \in Nat
  BY <1>2, <1>3, LenProperties
<1> QED
  BY <1>3, <1>4 DEF ConversationGrows

LEMMA ProceedGrows ==
    ASSUME WalkTypes, NEW i \in DOMAIN log, Proceed(i)
    PROVE  ConversationGrows
<1>1. log \in Seq(Entries) /\ log[i] \in Entries
  BY ElementOfSeq DEF WalkTypes
<1>2. PICK e \in Entries :
         /\ log' = [log EXCEPT ![i] = e]
         /\ e.from = log[i].from /\ e.status # "open"
         /\ log[i].status = "delivered" => e.status = "delivered"
  <2>1. CASE log[i].status = "open" /\ log' = Commit(log, i)
    <3> DEFINE e == [log[i] EXCEPT !.status = "processing"]
    <3>1. e \in Entries /\ e.from = log[i].from /\ e.status = "processing"
      BY <1>1 DEF Entries
    <3>2. log' = [log EXCEPT ![i] = e]
      BY <2>1 DEF Commit
    <3> HIDE DEF e
    <3> QED
      BY <2>1, <3>1, <3>2
  <2>2. ASSUME NEW s \in Settled, log[i].status = "processing",
               log' = Settle(log, i, [status |-> s, advised |-> {}])
        PROVE  \E e \in Entries :
                  /\ log' = [log EXCEPT ![i] = e]
                  /\ e.from = log[i].from /\ e.status # "open"
                  /\ log[i].status = "delivered" => e.status = "delivered"
    <3> DEFINE e == [log[i] EXCEPT !.status = s, !.advised = @ \cup {}]
    <3>1. e \in Entries /\ e.from = log[i].from /\ e.status = s
      BY <1>1 DEF Entries
    <3>2. log' = [log EXCEPT ![i] = e]
      BY <1>1, <2>2 DEF Settle, Entries
    <3>3. s # "open"
      BY DEF Settled
    <3> HIDE DEF e
    <3> QED
      BY <2>2, <3>1, <3>2, <3>3
  <2>3. CASE log[i].status = "failed" /\ log' = Retry(log, i)
    <3> DEFINE e == [log[i] EXCEPT !.status = "processing", !.tries = @ + 1]
    <3>0. log[i].tries + 1 \in Nat
      BY <1>1 DEF Entries
    <3>1. e \in Entries /\ e.from = log[i].from /\ e.status = "processing"
      BY <1>1, <3>0 DEF Entries
    <3>2. log' = [log EXCEPT ![i] = e]
      BY <1>1, <2>3 DEF Retry, Entries
    <3> HIDE DEF e
    <3> QED
      BY <2>3, <3>1, <3>2
  <2> QED
    BY <2>1, <2>2, <2>3 DEF Proceed
<1>3. log' \in Seq(Entries)
  BY <1>1, <1>2, ExceptSeq
<1>4. DOMAIN log' = DOMAIN log
      /\ \A j \in DOMAIN log : log'[j] = IF j = i THEN e ELSE log[j]
  BY <1>1, <1>2
<1> QED
  BY <1>1, <1>2, <1>3, <1>4 DEF ConversationGrows

LEMMA InvWhileItGrows ==
    ASSUME WalkInv, ConversationGrows, UNCHANGED walk
    PROVE  WalkInv'
<1> USE DEF WalkInv
<1>1. \A i : CanRead(i) => CanRead(i)'
  BY DEF CanRead, ConversationGrows
<1>2. WalkTypes'
  BY DEF WalkTypes, ConversationGrows, walk
<1>3. PageIsTrue'
  <2>1. own' = own /\ there' = there
    BY DEF walk
  <2>2. \A i \in DOMAIN log : i \in DOMAIN log' /\ log'[i].from = log[i].from
    BY DEF ConversationGrows
  <2>3. \A item \in own :
           item.id \in DOMAIN log' /\ log'[item.id].from = Reader
           /\ CanRead(item.id)'
    BY <1>1, <2>2 DEF PageIsTrue
  <2>4. \A i \in there :
           CanRead(i)' /\ (log'[i].from = Reader => i \in Ids(own))
    BY <1>1, <2>2 DEF PageIsTrue, CanRead
  <2> QED
    BY <2>1, <2>3, <2>4 DEF PageIsTrue, Ids
<1>4. CursorFollows'
  <2>1. phase' = phase /\ cursor' = cursor /\ returned' = returned
        /\ got' = got /\ there' = there
    BY DEF walk
  <2>2. PICK c : c = cursor
    OBVIOUS
  <2>3. CanRead(c) => CanRead(c)'
    BY <1>1
  <2> QED
    BY <2>1, <2>2, <2>3 DEF CursorFollows, CursorStaysValid, CanRead
<1>5. WalkMissesOnlyLateOnes'
  BY DEF WalkMissesOnlyLateOnes, walk
<1>6. NothingTwice'
  BY DEF NothingTwice, walk
<1> QED
  BY <1>2, <1>3, <1>4, <1>5, <1>6

----------------------------------------------------------------------------
(* The two queries of a page, and what they return together                *)

LEMMA IdsOfQueries ==
    /\ Ids(Outgoing(log, Reader)) = Own(log, Reader)
    /\ Ids(Incoming(log, Reader)) =
          {i \in DOMAIN log : log[i].from # Reader /\ log[i].status = "delivered"}
    /\ \A item \in Outgoing(log, Reader) : item = Item(log, item.id)
    /\ \A item \in Incoming(log, Reader) : item = Item(log, item.id)
<1>1. \A i : Item(log, i).id = i
  BY DEF Item
<1>2. \A item \in Outgoing(log, Reader) :
         item.id \in Own(log, Reader) /\ item = Item(log, item.id)
  BY <1>1 DEF Outgoing
<1>3. \A item \in Incoming(log, Reader) :
         /\ item = Item(log, item.id) /\ item.id \in DOMAIN log
         /\ log[item.id].from # Reader /\ log[item.id].status = "delivered"
  BY <1>1 DEF Incoming
<1>4. \A i \in Own(log, Reader) : Item(log, i) \in Outgoing(log, Reader)
  BY DEF Outgoing
<1>5. \A i \in DOMAIN log :
         log[i].from # Reader /\ log[i].status = "delivered"
         => Item(log, i) \in Incoming(log, Reader)
  BY DEF Incoming
<1> HIDE DEF Item
<1> QED
  BY <1>1, <1>2, <1>3, <1>4, <1>5 DEF Ids

LEMMA ReadableIds ==
    Ids(Readable) = {i \in DOMAIN log : CanRead(i)}
<1>1. Ids(Readable) = Ids(Outgoing(log, Reader)) \cup Ids(Incoming(log, Reader))
  BY DEF Ids, Readable
<1> QED
  BY <1>1, IdsOfQueries DEF Own, CanRead

\* The items of a page are readable, differ in their ids, and include all
\* that was readable when the page was begun.
LEMMA ItemsOfPage ==
    ASSUME WalkTypes, PageIsTrue,
           NEW items, items = own \cup Incoming(log, Reader)
    PROVE  /\ \A i \in Ids(items) : CanRead(i)
           /\ \A item, other \in items : item.id = other.id => item = other
           /\ there \subseteq Ids(items)
<1>1. Ids(items) = Ids(own) \cup Ids(Incoming(log, Reader))
  BY DEF Ids
<1>2. \A i \in Ids(own) : CanRead(i) /\ log[i].from = Reader
  BY DEF Ids, PageIsTrue
<1>3. \A i : i \in Ids(Incoming(log, Reader))
              <=> CanRead(i) /\ log[i].from # Reader
  BY IdsOfQueries DEF CanRead
<1>4. ASSUME NEW item \in items, NEW other \in items, item.id = other.id
      PROVE  item = other
  <2>1. CASE item \in own /\ other \in own
    BY <1>4, <2>1 DEF PageIsTrue
  <2>2. CASE item \notin own /\ other \notin own
    BY <1>4, <2>2, IdsOfQueries
  <2>3. \A x \in own, y \in Incoming(log, Reader) : x.id # y.id
    BY <1>2, <1>3 DEF Ids
  <2> QED
    BY <1>4, <2>1, <2>2, <2>3
<1>5. there \subseteq Ids(items)
  BY <1>1, <1>3 DEF PageIsTrue
<1> QED
  BY <1>1, <1>2, <1>3, <1>4, <1>5

LEMMA CountPage ==
    ASSUME NEW items,
           \A item, other \in items : item.id = other.id => item = other,
           NEW selected, selected \subseteq Ids(items), IsFiniteSet(selected)
    PROVE  Cardinality({item \in items : item.id \in selected})
           = Cardinality(selected)
<1> DEFINE page == {item \in items : item.id \in selected}
           f == [i \in selected |-> CHOOSE item \in page : item.id = i]
<1>1. \A i \in selected : f[i] \in page /\ f[i].id = i
  BY DEF Ids
<1>2. \A item \in page : item.id \in selected /\ f[item.id] = item
  BY <1>1
<1>3. f \in [selected -> page]
  BY <1>1
<1> HIDE DEF f, page
<1>4. f \in Bijection(selected, page)
  <2>1. f \in Injection(selected, page)
    BY <1>1, <1>3 DEF Injection, IsInjective
  <2>2. f \in Surjection(selected, page)
    BY <1>2, <1>3 DEF Surjection
  <2> QED
    BY <2>1, <2>2 DEF Bijection
<1>5. ExistsBijection(selected, page)
  BY <1>4 DEF ExistsBijection
<1>6. Cardinality(page) = Cardinality(selected)
  BY <1>5, FS_Bijection
<1> QED
  BY <1>6 DEF page

LEMMA InvWhenPageStarts ==
    ASSUME WalkInv, StartPage
    PROVE  WalkInv'
<1> USE DEF WalkInv
<1>1. /\ phase = "ready" /\ phase' = "reading"
      /\ own' = Outgoing(log, Reader) /\ there' = Ids(Readable)
      /\ log' = log /\ cursor' = cursor /\ got' = got
      /\ returned' = returned /\ due' = due
  BY DEF StartPage
<1>2. \A i : CanRead(i)' <=> CanRead(i)
  BY <1>1 DEF CanRead
<1>3. WalkTypes'
  BY <1>1 DEF WalkTypes
<1>4. PageIsTrue'
  <2>1. \A item \in own' : item.id \in Own(log, Reader)
    BY <1>1, IdsOfQueries DEF Ids
  <2>2. \A item \in own' :
           /\ item.id \in DOMAIN log' /\ log'[item.id].from = Reader
           /\ CanRead(item.id)'
    BY <1>1, <1>2, <2>1 DEF Own, CanRead
  <2>3. \A item, other \in own' : item.id = other.id => item = other
    BY <1>1, IdsOfQueries
  <2>4. Ids(own)' = Own(log, Reader)
    BY <1>1, IdsOfQueries DEF Ids
  <2>5. \A i \in there' :
           CanRead(i)' /\ (log'[i].from = Reader => i \in Ids(own)')
    BY <1>1, <1>2, <2>4, ReadableIds DEF CanRead, Own
  <2> QED
    BY <2>2, <2>3, <2>5 DEF PageIsTrue
<1>5. CursorFollows'
  BY <1>1, ReadableIds DEF CursorFollows, CursorStaysValid, CanRead
<1>6. WalkMissesOnlyLateOnes' /\ NothingTwice'
  BY <1>1 DEF WalkMissesOnlyLateOnes, NothingTwice
<1> QED
  BY <1>3, <1>4, <1>5, <1>6

LEMMA InvWhenPageEnds ==
    ASSUME WalkInv, FinishPage
    PROVE  WalkInv'
<1> USE DEF WalkInv
<1> DEFINE items == own \cup Incoming(log, Reader)
           selected == Selected(Ids(items), cursor, PageLimit)
           next == NextCursor(Ids(items), cursor, PageLimit)
<1>1. /\ phase = "reading" /\ log' = log /\ own' = {} /\ there' = {}
      /\ cursor' = next
      /\ phase' = IF next = NoCursor THEN "done" ELSE "ready"
      /\ got' = got \cup Ids(Page(items, cursor, PageLimit))
      /\ returned' = returned + Cardinality(Page(items, cursor, PageLimit))
      /\ due' = due \cup
            {i \in there : i > cursor /\ (i <= next \/ next = NoCursor)}
  BY DEF FinishPage
<1>2. /\ \A i \in Ids(items) : CanRead(i)
      /\ \A item, other \in items : item.id = other.id => item = other
      /\ there \subseteq Ids(items)
  BY ItemsOfPage
<1>3. Len(log) \in Nat /\ DOMAIN log = 1 .. Len(log)
  BY LenProperties DEF WalkTypes
<1>4. Ids(items) \in SUBSET (1 .. Len(log))
  BY <1>2, <1>3 DEF CanRead
<1>5. cursor \in Nat /\ returned \in Nat /\ got \subseteq DOMAIN log
  BY DEF WalkTypes
<1> HIDE DEF items
<1>0. PageLimit \in Nat \ {0}
  BY WalkBoundsAssumption
<1>6. /\ selected \subseteq Ids(items)
      /\ \A i \in selected : i > cursor
      /\ \/ next = NoCursor
         \/ next \in selected /\ \A i \in selected : i <= next
      /\ \A i \in Ids(items) :
            i > cursor /\ (i <= next \/ next = NoCursor) => i \in selected
  BY <1>0, <1>3, <1>4, <1>5, Paginate
<1> HIDE DEF next, selected
<1>7. IsFiniteSet(selected) /\ IsFiniteSet(got)
  <2>1. IsFiniteSet(DOMAIN log)
    BY <1>3, FS_Interval
  <2> QED
    BY <1>3, <1>4, <1>5, <1>6, <2>1, FS_Subset
<1>8. Page(items, cursor, PageLimit) = {item \in items : item.id \in selected}
  BY DEF Page, selected
<1>9. Ids(Page(items, cursor, PageLimit)) = selected
  BY <1>6, <1>8 DEF Ids
<1>10. Cardinality(Page(items, cursor, PageLimit)) = Cardinality(selected)
       /\ Cardinality(selected) \in Nat
  BY <1>2, <1>6, <1>7, <1>8, CountPage, FS_CardinalityType
<1>11. WalkTypes'
  <2>1. next \in Nat
    BY <1>3, <1>4, <1>6 DEF NoCursor
  <2>2. selected \subseteq DOMAIN log
    BY <1>3, <1>4, <1>6
  <2> QED
    BY <1>1, <1>5, <1>9, <1>10, <2>1, <2>2 DEF WalkTypes
<1>12. PageIsTrue'
  BY <1>1 DEF PageIsTrue
<1>13. CursorFollows'
  <2>1. next # NoCursor => \A i \in got' : i <= next
    <3> SUFFICES ASSUME next # NoCursor, NEW i \in got PROVE i <= next
      BY <1>1, <1>6, <1>9
    <3>1. i <= cursor /\ i \in Nat
      BY <1>1, <1>3, <1>5 DEF CursorFollows
    <3>2. next > cursor /\ next \in Nat
      BY <1>3, <1>4, <1>6
    <3> QED
      BY <1>5, <3>1, <3>2
  <2>2. PICK n : n = next
    OBVIOUS
  <2>3. next # NoCursor => CanRead(n)'
    BY <1>1, <1>2, <1>6, <2>2 DEF CanRead
  <2> QED
    BY <1>1, <2>1, <2>2, <2>3 DEF CursorFollows, CursorStaysValid, CanRead
<1>14. WalkMissesOnlyLateOnes'
  BY <1>1, <1>2, <1>6, <1>9 DEF WalkMissesOnlyLateOnes
<1>15. NothingTwice'
  <2>1. got \cap selected = {}
    <3> SUFFICES ASSUME NEW i \in got, i \in selected PROVE FALSE
      OBVIOUS
    <3>1. i <= cursor /\ i > cursor /\ i \in Nat
      BY <1>1, <1>3, <1>5, <1>6 DEF CursorFollows
    <3> QED
      BY <1>5, <3>1
  <2>2. Cardinality(got \cup selected)
        = Cardinality(got) + Cardinality(selected) - Cardinality({})
    BY <1>7, <2>1, FS_Union
  <2>3. Cardinality(got \cup selected) = Cardinality(got) + Cardinality(selected)
    <3>1. Cardinality({}) = 0 /\ Cardinality(got) \in Nat
      BY <1>7, FS_EmptySet, FS_CardinalityType
    <3> QED
      BY <1>10, <2>2, <3>1
  <2> QED
    BY <1>1, <1>9, <1>10, <2>3 DEF NothingTwice
<1> QED
  BY <1>11, <1>12, <1>13, <1>14, <1>15

LEMMA InvWhenRefused ==
    ASSUME WalkInv, RefusePage
    PROVE  WalkInv'
<1> USE DEF WalkInv
<1>1. /\ phase = "reading" /\ phase' = "refused"
      /\ own' = {} /\ there' = {}
      /\ log' = log /\ cursor' = cursor /\ got' = got
      /\ returned' = returned /\ due' = due
      /\ cursor \notin Ids(own \cup Incoming(log, Reader))
  BY DEF RefusePage, KnownCursor
<1>2. there \subseteq Ids(own \cup Incoming(log, Reader))
  BY ItemsOfPage
<1>3. returned = 0
  <2>1. returned \in Nat /\ ~(returned > 0)
    BY <1>1, <1>2 DEF CursorFollows, WalkTypes
  <2> QED
    BY <2>1
<1>4. WalkTypes'
  BY <1>1 DEF WalkTypes
<1>5. PageIsTrue' /\ CursorFollows'
  BY <1>1, <1>3 DEF PageIsTrue, CursorFollows, CursorStaysValid
<1>6. WalkMissesOnlyLateOnes' /\ NothingTwice'
  BY <1>1 DEF WalkMissesOnlyLateOnes, NothingTwice
<1> QED
  BY <1>4, <1>5, <1>6

----------------------------------------------------------------------------
(* The theorems                                                            *)

LEMMA InvAlways == Spec => []WalkInv
<1>1. ASSUME WalkInv, [Next]_vars PROVE WalkInv'
  <2>1. ASSUME NEW p \in {Reader, Other}, Begin(p) PROVE WalkInv'
    <3>1. ConversationGrows
      BY <1>1, <2>1, BeginGrows DEF WalkInv
    <3> QED
      BY <1>1, <2>1, <3>1, InvWhileItGrows DEF Begin
  <2>2. ASSUME NEW i \in DOMAIN log, Proceed(i) PROVE WalkInv'
    <3>1. ConversationGrows
      BY <1>1, <2>2, ProceedGrows DEF WalkInv
    <3> QED
      BY <1>1, <2>2, <3>1, InvWhileItGrows DEF Proceed
  <2>3. CASE StartPage
    BY <1>1, <2>3, InvWhenPageStarts
  <2>4. CASE FinishPage
    BY <1>1, <2>4, InvWhenPageEnds
  <2>5. CASE RefusePage
    BY <1>1, <2>5, InvWhenRefused
  <2>6. CASE UNCHANGED vars
    <3>1. ConversationGrows /\ UNCHANGED walk
      BY <1>1, <2>6 DEF WalkInv, WalkTypes, ConversationGrows, vars, walk
    <3> QED
      BY <1>1, <3>1, InvWhileItGrows
  <2> QED
    BY <1>1, <2>1, <2>2, <2>3, <2>4, <2>5, <2>6 DEF Next
<1> QED
  BY <1>1, InvAtStart, PTL DEF Spec

\* A walk along next_cursor misses no message that could be read when the
\* page that covers its place was begun, whatever is sent, settled or retried
\* between the two queries of a page and between two pages.
THEOREM WalkIsComplete == Spec => []WalkMissesOnlyLateOnes
<1>1. WalkInv => WalkMissesOnlyLateOnes
  BY DEF WalkInv
<1> QED
  BY <1>1, InvAlways, PTL

\* ... and returns no message on two of its pages.
THEOREM WalkRepeatsNothing == Spec => []NothingTwice
<1>1. WalkInv => NothingTwice
  BY DEF WalkInv
<1> QED
  BY <1>1, InvAlways, PTL

\* A cursor that the service handed out is never refused, neither after a
\* retry of its message nor when that message is blocked or fails.
THEOREM HandedOutCursorIsAccepted == Spec => []CursorStaysValid
<1>1. WalkInv => CursorStaysValid
  BY DEF WalkInv, CursorFollows
<1> QED
  BY <1>1, InvAlways, PTL

=============================================================================
