---------------------------- MODULE ClientProofs ----------------------------
(***************************************************************************)
(* Theorems about RoomClient, for any sets of browsers and peers, any page *)
(* limit and any outcomes of mediation, and any number of texts, messages, *)
(* retries and faults.                                                     *)
(***************************************************************************)
EXTENDS ClientProperties, SequenceTheorems, FiniteSetTheorems, TLAPS

----------------------------------------------------------------------------
(* The inductive invariant                                                 *)

Entries ==
    [from : Clients \cup Peers, text : Nat, tries : Nat,
     advised : SUBSET {"sender", "recipient"},
     status : {"open", "processing"} \cup Settled]

Items == [id : Nat, status : {"processing"} \cup Settled, tries : Nat]

Answers ==
    [have : SUBSET Parts, room : {"loading", "active", "ended"},
     own : SUBSET Items, incoming : SUBSET Items, guidance : SUBSET Nat]

LogTypes ==
    /\ conv \in {"active", "ended"}
    /\ log \in Seq(Entries)
    /\ Len(log) <= MaxLog

ViewTypes ==
    /\ room \in [Clients -> {"loading", "active", "ended", "left"}]
    /\ shown \in [Clients -> SUBSET Items]
    /\ guidance \in [Clients -> SUBSET Nat]
    /\ refreshes \in [Clients -> Seq(Answers)]

SendTypes ==
    /\ text \in [Clients -> Nat]
    /\ written \in [Clients -> Nat]
    /\ sending \in [Clients -> {"idle", "post", "wait", "refresh"}]
    /\ message \in [Clients -> Nat]
    /\ posted \in [Clients -> Nat]
    /\ lost \in [Clients -> Nat]

\* whoever asks for a refresh while one is under way joins it
OneRefresh(c) == Len(refreshes[c]) <= 1

\* An item is the state of its message now or earlier; the other side's
\* message is delivered, which is final.
IsPast(c, item) ==
    /\ item.id \in DOMAIN log
    /\ log[item.id].status # "open"
    /\ Progress(item) <= Progress(log[item.id])
    /\ Progress(item) = Progress(log[item.id])
          => item.status = log[item.id].status
    /\ log[item.id].from # c => log[item.id].status = "delivered"

\* what is shown, and what a refresh has read so far
ItemsArePast(c) ==
    /\ \A item \in shown[c] : IsPast(c, item)
    /\ guidance[c] \subseteq Guided(log, c)
    /\ \A n \in DOMAIN refreshes[c] :
          /\ \A item \in refreshes[c][n].own \cup refreshes[c][n].incoming :
                IsPast(c, item)
          /\ refreshes[c][n].guidance \subseteq Guided(log, c)

\* an item of the same message that is not behind this one
KeptIn(items, old) ==
    \E new \in items : new.id = old.id /\ Progress(new) >= Progress(old)

\* What a refresh has read is not behind what is shown.
AnswersAreLater(c) ==
    \A n \in DOMAIN refreshes[c] :
        /\ "own" \in refreshes[c][n].have =>
              \A old \in shown[c] :
                  log[old.id].from = c => KeptIn(refreshes[c][n].own, old)
        /\ "incoming" \in refreshes[c][n].have =>
              \A old \in shown[c] :
                  log[old.id].from # c => KeptIn(refreshes[c][n].incoming, old)
        /\ "guidance" \in refreshes[c][n].have =>
              guidance[c] \subseteq refreshes[c][n].guidance

ViewInv(c) == OneRefresh(c) /\ ItemsArePast(c) /\ AnswersAreLater(c)

\* The entry that a send has made, until the composer is emptied.
PostedIsSent(c) ==
    /\ sending[c] = "post" => message[c] # 0
    /\ sending[c] \in {"wait", "refresh"} =>
          /\ posted[c] \in DOMAIN log
          /\ log[posted[c]].from = c
          /\ log[posted[c]].text = message[c]
    /\ sending[c] = "refresh" => log[posted[c]].status # "open"

TextsAreWritten(c) ==
    /\ text[c] <= written[c]
    /\ message[c] <= written[c]
    /\ \A i \in DOMAIN log : log[i].from = c => log[i].text <= written[c]

\* a text that may be sent without a further loss of an answer
MayBeSent(c, t) ==
    \/ sending[c] \in {"idle", "post"} /\ text[c] = t
    \/ sending[c] = "post" /\ message[c] = t

CopiesCounted(c) ==
    \A t \in 1 .. written[c] :
        /\ Cardinality(Copies(c, t)) <= 1 + lost[c]
        /\ MayBeSent(c, t) => Cardinality(Copies(c, t)) <= lost[c]

SendInv(c) == PostedIsSent(c) /\ TextsAreWritten(c) /\ CopiesCounted(c)

ClientInv ==
    /\ LogTypes
    /\ ViewTypes
    /\ SendTypes
    /\ \A c \in Clients : ViewInv(c) /\ SendInv(c)

----------------------------------------------------------------------------
(* How the log moves                                                       *)

\* entry e becomes f: it gets further, or stays as it is or just commits
Advance(e, f) ==
    /\ f.from = e.from /\ f.text = e.text /\ e.advised \subseteq f.advised
    /\ e.status # "open" =>
          /\ f.status # "open"
          /\ \/ f.status = e.status /\ Progress(f) = Progress(e)
             \/ Progress(f) > Progress(e)
    /\ e.status = "delivered" => f.status = "delivered"

LogMoves ==
    /\ LogTypes'
    /\ \A i \in DOMAIN log : i \in DOMAIN log' /\ Advance(log[i], log'[i])

NoNewOf(c) == \A i \in DOMAIN log' : log'[i].from = c => i \in DOMAIN log

LEMMA EntryProgress ==
    /\ \A e \in Entries \cup Items : Progress(e) \in Nat
    /\ \A c \in Clients \cup Peers, t \in Nat : Entry(c, t) \in Entries
BY DEF Entries, Items, Progress, Entry, Settled

LEMMA LogStays ==
    ASSUME LogTypes, log' = log, conv' \in {"active", "ended"}
    PROVE  LogMoves /\ \A c : NoNewOf(c)
<1>1. \A i \in DOMAIN log : Advance(log[i], log[i])
  BY DEF Advance
<1> QED
  BY <1>1 DEF LogMoves, LogTypes, NoNewOf

LEMMA EntryMoves ==
    ASSUME LogTypes, NEW i \in DOMAIN log, NEW e \in Entries,
           Advance(log[i], e), log' = [log EXCEPT ![i] = e], conv' = conv
    PROVE  LogMoves /\ \A c : NoNewOf(c)
<1>1. log \in Seq(Entries)
  BY DEF LogTypes
<1>2. log' \in Seq(Entries) /\ Len(log') = Len(log)
  BY <1>1, ExceptSeq
<1>3. DOMAIN log' = DOMAIN log
      /\ \A j \in DOMAIN log : log'[j] = IF j = i THEN e ELSE log[j]
  BY <1>1
<1>4. \A j \in DOMAIN log : Advance(log[j], log'[j])
  BY <1>3 DEF Advance
<1>5. LogTypes'
  BY <1>2 DEF LogTypes
<1> QED
  BY <1>3, <1>4, <1>5 DEF LogMoves, NoNewOf

LEMMA CommitMoves ==
    ASSUME LogTypes, NEW i \in DOMAIN log, log[i].status = "open",
           log' = Commit(log, i), conv' = conv
    PROVE  LogMoves /\ \A c : NoNewOf(c)
<1> DEFINE e == [log[i] EXCEPT !.status = "processing"]
<1>1. log[i] \in Entries
  BY ElementOfSeq DEF LogTypes
<1>2. e \in Entries /\ Advance(log[i], e)
  BY <1>1 DEF Entries, Advance
<1>3. log' = [log EXCEPT ![i] = e]
  BY DEF Commit
<1> QED
  BY <1>2, <1>3, EntryMoves

LEMMA SettleMoves ==
    ASSUME LogTypes, NEW i \in DOMAIN log, log[i].status = "processing",
           NEW s \in Outcomes, log' = Settle(log, i, s), conv' = conv
    PROVE  LogMoves /\ \A c : NoNewOf(c)
<1> DEFINE e == [log[i] EXCEPT !.status = s.status, !.advised = @ \cup s.advised]
<1>1. log[i] \in Entries
  BY ElementOfSeq DEF LogTypes
<1>2. s.status \in Settled /\ s.advised \in SUBSET {"sender", "recipient"}
  BY ClientBoundsAssumption DEF Settlements, Settled
<1>3. e \in Entries
  BY <1>1, <1>2 DEF Entries
<1>4. e.from = log[i].from /\ e.text = log[i].text /\ e.status = s.status
      /\ e.tries = log[i].tries /\ log[i].advised \subseteq e.advised
      /\ log[i].tries \in Nat
  BY <1>1 DEF Entries
<1>5. log' = [log EXCEPT ![i] = e]
  BY <1>1 DEF Settle, Entries
<1> HIDE DEF e
<1>6. Advance(log[i], e)
  BY <1>2, <1>4 DEF Advance, Progress, Settled
<1> QED
  BY <1>3, <1>5, <1>6, EntryMoves

LEMMA RetryMoves ==
    ASSUME LogTypes, NEW i \in DOMAIN log, RetryEntry(i)
    PROVE  LogMoves /\ \A c : NoNewOf(c)
<1> DEFINE e == [log[i] EXCEPT !.status = "processing", !.tries = @ + 1]
<1>1. log[i] \in Entries
  BY ElementOfSeq DEF LogTypes
<1>2. log[i].tries \in Nat /\ log[i].tries + 1 \in Nat
  BY <1>1 DEF Entries
<1>3. e \in Entries
  BY <1>1, <1>2 DEF Entries
<1>4. e.from = log[i].from /\ e.text = log[i].text /\ e.status = "processing"
      /\ e.tries = log[i].tries + 1 /\ log[i].advised \subseteq e.advised
  BY <1>1 DEF Entries
<1>5. log' = [log EXCEPT ![i] = e] /\ log[i].status = "failed" /\ conv' = conv
  BY <1>1 DEF RetryEntry, Retry, Entries
<1> HIDE DEF e
<1>6. Advance(log[i], e)
  BY <1>2, <1>4, <1>5 DEF Advance, Progress, Settled
<1> QED
  BY <1>3, <1>5, <1>6, EntryMoves

LEMMA OpenMoves ==
    ASSUME LogTypes, NEW p \in Clients \cup Peers, NEW t \in Nat,
           OpenEntry(p, t)
    PROVE  /\ LogMoves
           /\ \A c : c # p => NoNewOf(c)
           /\ Len(log) \in Nat
           /\ DOMAIN log = 1 .. Len(log)
           /\ DOMAIN log' = 1 .. (Len(log) + 1)
           /\ log'[Len(log) + 1] = Entry(p, t)
           /\ \A i \in DOMAIN log : log'[i] = log[i]
<1>1. log \in Seq(Entries) /\ Entry(p, t) \in Entries
  BY EntryProgress DEF LogTypes
<1>2. log' = Append(log, Entry(p, t)) /\ conv' = conv /\ Len(log) < MaxLog
  BY DEF OpenEntry
<1>3. /\ log' \in Seq(Entries) /\ Len(log') = Len(log) + 1
      /\ \A i \in 1 .. Len(log) : log'[i] = log[i]
      /\ log'[Len(log) + 1] = Entry(p, t)
  BY <1>1, <1>2, AppendProperties
<1>4. DOMAIN log = 1 .. Len(log) /\ DOMAIN log' = 1 .. Len(log')
      /\ Len(log) \in Nat
  BY <1>1, <1>3, LenProperties
<1>5. LogTypes'
  <2>1. Len(log') <= MaxLog
    BY <1>2, <1>3, <1>4, ClientBoundsAssumption
  <2> QED
    BY <1>2, <1>3, <2>1 DEF LogTypes
<1>6. \A i \in DOMAIN log : Advance(log[i], log'[i])
  BY <1>3, <1>4 DEF Advance
<1>7. LogMoves
  BY <1>3, <1>4, <1>5, <1>6 DEF LogMoves
<1>8. \A i \in DOMAIN log' : i = Len(log) + 1 \/ i \in DOMAIN log
  BY <1>3, <1>4
<1>9. \A c : c # p => NoNewOf(c)
  <2> SUFFICES ASSUME NEW c, c # p, NEW i \in DOMAIN log', log'[i].from = c
               PROVE  i \in DOMAIN log
    BY DEF NoNewOf
  <2>1. log'[Len(log) + 1].from = p
    BY <1>3 DEF Entry
  <2> QED
    BY <1>8, <2>1
<1>10. DOMAIN log' = 1 .. (Len(log) + 1)
  BY <1>3, <1>4
<1> QED
  BY <1>3, <1>4, <1>7, <1>9, <1>10

----------------------------------------------------------------------------
(* The view                                                                *)

LEMMA EntriesOfLog ==
    ASSUME LogTypes
    PROVE  /\ Len(log) \in Nat
           /\ DOMAIN log = 1 .. Len(log)
           /\ \A i \in DOMAIN log : log[i] \in Entries
BY LenProperties, ElementOfSeq DEF LogTypes

LEMMA PastStays ==
    ASSUME LogTypes, LogMoves, NEW c \in Clients, NEW item \in Items,
           IsPast(c, item)
    PROVE  IsPast(c, item)'
<1> DEFINE i == item.id
<1>1. /\ i \in DOMAIN log /\ i \in DOMAIN log'
      /\ Advance(log[i], log'[i])
  BY DEF IsPast, LogMoves
<1>2. log[i] \in Entries /\ log'[i] \in Entries
  <2>1. log \in Seq(Entries) /\ log' \in Seq(Entries)
    BY DEF LogTypes, LogMoves
  <2> QED
    BY <1>1, <2>1, ElementOfSeq
<1>3. Progress(item) \in Nat /\ Progress(log[i]) \in Nat
      /\ Progress(log'[i]) \in Nat
  BY <1>2, EntryProgress
<1>4. log'[i].status # "open" /\ Progress(item) <= Progress(log'[i])
  BY <1>1, <1>3 DEF IsPast, Advance
<1>5. Progress(item) = Progress(log'[i]) => item.status = log'[i].status
  BY <1>1, <1>3 DEF IsPast, Advance
<1>6. log'[i].from # c => log'[i].status = "delivered"
  BY <1>1 DEF IsPast, Advance
<1> QED
  BY <1>1, <1>4, <1>5, <1>6 DEF IsPast, Progress

LEMMA GuidanceStays ==
    ASSUME LogMoves, NEW c \in Clients
    PROVE  Guided(log, c) \subseteq Guided(log, c)'
BY DEF Guided, LogMoves, Advance

LEMMA AnswersOfRefresh ==
    ASSUME ViewTypes, NEW c \in Clients, NEW n \in DOMAIN refreshes[c]
    PROVE  refreshes[c][n] \in Answers
<1>1. refreshes[c] \in Seq(Answers)
  BY DEF ViewTypes
<1> QED
  BY <1>1, ElementOfSeq

\* What is shown stays or is cleared; the refresh under way stays, is over or
\* begins.
ViewKept(c) ==
    /\ \/ shown'[c] = shown[c] /\ guidance'[c] = guidance[c]
       \/ shown'[c] = {} /\ guidance'[c] = {}
    /\ refreshes'[c] \in {refreshes[c], << >>, <<NoAnswers>>}

LEMMA InvWhenViewKept ==
    ASSUME LogTypes, ViewTypes, LogMoves, NEW c \in Clients, ViewInv(c),
           ViewKept(c)
    PROVE  ViewInv(c)'
<1> USE DEF ViewInv
<1>1. shown'[c] \subseteq shown[c] /\ guidance'[c] \subseteq guidance[c]
  BY DEF ViewKept
<1>2. shown[c] \subseteq Items
  BY DEF ViewTypes
<1>3. \A item \in Items : IsPast(c, item) => IsPast(c, item)'
  BY PastStays
<1>4. Guided(log, c) \subseteq Guided(log, c)'
  BY GuidanceStays
<1>5. \A n \in DOMAIN refreshes'[c] :
         \/ refreshes'[c][n] = NoAnswers
         \/ n \in DOMAIN refreshes[c] /\ refreshes'[c][n] = refreshes[c][n]
  BY DEF ViewKept
<1>6. OneRefresh(c)'
  <2>1. Len(<< >>) = 0 /\ Len(<<NoAnswers>>) = 1
    OBVIOUS
  <2>2. CASE refreshes'[c] = refreshes[c]
    BY <2>2 DEF OneRefresh
  <2>3. CASE refreshes'[c] \in {<< >>, <<NoAnswers>>}
    <3>1. Len(refreshes'[c]) \in {0, 1}
      BY <2>1, <2>3
    <3>2. \A k \in {0, 1} : k <= 1
      OBVIOUS
    <3> QED
      BY <3>1, <3>2 DEF OneRefresh
  <2> QED
    BY <2>2, <2>3 DEF ViewKept
<1>7. ItemsArePast(c)'
  <2>1. \A item \in shown'[c] : IsPast(c, item)'
    BY <1>1, <1>2, <1>3 DEF ItemsArePast
  <2>2. guidance'[c] \subseteq Guided(log, c)'
    BY <1>1, <1>4 DEF ItemsArePast
  <2>3. ASSUME NEW n \in DOMAIN refreshes'[c]
        PROVE  /\ \A item \in refreshes'[c][n].own \cup refreshes'[c][n].incoming :
                     IsPast(c, item)'
               /\ refreshes'[c][n].guidance \subseteq Guided(log, c)'
    <3>1. CASE refreshes'[c][n] = NoAnswers
      BY <3>1 DEF NoAnswers
    <3>2. CASE n \in DOMAIN refreshes[c] /\ refreshes'[c][n] = refreshes[c][n]
      <4>1. refreshes[c][n] \in Answers
        BY <3>2, AnswersOfRefresh
      <4>2. refreshes[c][n].own \cup refreshes[c][n].incoming \subseteq Items
        BY <4>1 DEF Answers
      <4> QED
        BY <1>3, <1>4, <3>2, <4>2 DEF ItemsArePast
    <3> QED
      BY <1>5, <3>1, <3>2
  <2> QED
    BY <2>1, <2>2, <2>3 DEF ItemsArePast
<1>8. AnswersAreLater(c)'
  <2>1. \A old \in shown'[c] :
           old \in shown[c] /\ log'[old.id].from = log[old.id].from
    BY <1>1 DEF ItemsArePast, IsPast, LogMoves, Advance
  <2> SUFFICES ASSUME NEW n \in DOMAIN refreshes'[c]
               PROVE
        /\ "own" \in refreshes'[c][n].have =>
              \A old \in shown'[c] :
                  log'[old.id].from = c => KeptIn(refreshes'[c][n].own, old)
        /\ "incoming" \in refreshes'[c][n].have =>
              \A old \in shown'[c] :
                  log'[old.id].from # c => KeptIn(refreshes'[c][n].incoming, old)
        /\ "guidance" \in refreshes'[c][n].have =>
              guidance'[c] \subseteq refreshes'[c][n].guidance
    BY DEF AnswersAreLater, KeptIn, Progress
  <2>2. CASE refreshes'[c][n] = NoAnswers
    BY <2>2 DEF NoAnswers
  <2>3. CASE n \in DOMAIN refreshes[c] /\ refreshes'[c][n] = refreshes[c][n]
    BY <1>1, <2>1, <2>3 DEF AnswersAreLater
  <2> QED
    BY <1>5, <2>2, <2>3
<1> QED
  BY <1>6, <1>7, <1>8

\* The only refresh under way.
LEMMA TheRefresh ==
    ASSUME ViewTypes, NEW c \in Clients, OneRefresh(c),
           NEW n \in DOMAIN refreshes[c]
    PROVE  /\ n = 1 /\ DOMAIN refreshes[c] = {1}
           /\ Without(refreshes[c], n) = << >>
<1>1. refreshes[c] \in Seq(Answers)
  BY DEF ViewTypes
<1>2. PICK k \in Nat : /\ Len(refreshes[c]) = k /\ k <= 1
                       /\ DOMAIN refreshes[c] = 1 .. k
  BY <1>1, LenProperties DEF OneRefresh
<1>3. n = 1 /\ k = 1
  <2>1. n \in 1 .. k
    BY <1>2
  <2> QED
    BY <1>2, <2>1
<1>4. Without(refreshes[c], n) = SubSeq(refreshes[c], 1, 0) \o SubSeq(refreshes[c], 2, 1)
  BY <1>2, <1>3 DEF Without
<1>5. SubSeq(refreshes[c], 1, 0) = << >> /\ SubSeq(refreshes[c], 2, 1) = << >>
  BY SubSeqEmpty
<1>6. << >> \o << >> = << >>
  <2>1. << >> \in Seq(Answers)
    OBVIOUS
  <2> QED
    BY <2>1, ConcatEmptySeq
<1> QED
  BY <1>2, <1>3, <1>4, <1>5, <1>6

LEMMA RefreshKeepsView ==
    ASSUME ViewTypes, NEW c \in Clients, Refresh(c), UNCHANGED view
    PROVE  ViewTypes' /\ ViewKept(c)
           /\ \A d \in Clients : refreshes'[d] = refreshes[d] \/ d = c
<1>1. NoAnswers \in Answers
  BY DEF NoAnswers, Answers
<1>2. refreshes \in [Clients -> Seq(Answers)] /\ refreshes[c] \in Seq(Answers)
  BY DEF ViewTypes
<1>3. Append(<< >>, NoAnswers) = <<NoAnswers>> /\ <<NoAnswers>> \in Seq(Answers)
  BY <1>1
<1>4. PICK s \in Seq(Answers) :
         /\ s \in {refreshes[c], <<NoAnswers>>}
         /\ refreshes' = [refreshes EXCEPT ![c] = s]
  BY <1>2, <1>3 DEF Refresh, MayStart
<1>5. refreshes' \in [Clients -> Seq(Answers)] /\ refreshes'[c] = s
      /\ \A d \in Clients : refreshes'[d] = refreshes[d] \/ d = c
  BY <1>2, <1>4
<1> QED
  BY <1>4, <1>5 DEF ViewTypes, ViewKept, view

LEMMA DoneKeepsView ==
    ASSUME ViewTypes, NEW c \in Clients, OneRefresh(c),
           NEW n \in DOMAIN refreshes[c], Done(c, n)
    PROVE  /\ refreshes' \in [Clients -> Seq(Answers)] /\ refreshes'[c] = << >>
           /\ \A d \in Clients : refreshes'[d] = refreshes[d] \/ d = c
<1>1. refreshes' = [refreshes EXCEPT ![c] = << >>]
  BY TheRefresh DEF Done
<1>2. << >> \in Seq(Answers)
  OBVIOUS
<1> QED
  BY <1>1, <1>2 DEF ViewTypes

\* The queries return items of the present, which are behind none of the past.
LEMMA QueriesAreLatest ==
    ASSUME LogTypes, NEW c \in Clients
    PROVE  /\ Outgoing(log, c) \subseteq Items /\ Incoming(log, c) \subseteq Items
           /\ \A item \in Outgoing(log, c) \cup Incoming(log, c) : IsPast(c, item)
           /\ \A old \in Items : IsPast(c, old) =>
                 /\ log[old.id].from = c => KeptIn(Outgoing(log, c), old)
                 /\ log[old.id].from # c => KeptIn(Incoming(log, c), old)
<1>1. \A i \in DOMAIN log : i \in Nat /\ log[i] \in Entries
  BY EntriesOfLog
<1>2. \A i \in DOMAIN log : log[i].status # "open" =>
         /\ Item(log, i) \in Items /\ Item(log, i).id = i
         /\ Item(log, i).status = log[i].status
         /\ Progress(Item(log, i)) = Progress(log[i])
  BY <1>1 DEF Entries, Items, Item, Progress
<1>3. \A i \in DOMAIN log : Progress(log[i]) \in Nat
  BY <1>1, EntryProgress
<1>4. \A item \in Outgoing(log, c) : \E i \in DOMAIN log :
         item = Item(log, i) /\ log[i].from = c /\ log[i].status # "open"
  BY DEF Outgoing, Own
<1>5. \A item \in Incoming(log, c) : \E i \in DOMAIN log :
         /\ item = Item(log, i) /\ log[i].from # c
         /\ log[i].status = "delivered" /\ log[i].status # "open"
  BY DEF Incoming
<1>6. \A i \in DOMAIN log :
         /\ log[i].from = c /\ log[i].status # "open"
               => Item(log, i) \in Outgoing(log, c)
         /\ log[i].from # c /\ log[i].status = "delivered"
               => Item(log, i) \in Incoming(log, c)
  BY DEF Outgoing, Own, Incoming
<1>7. \A item \in Outgoing(log, c) \cup Incoming(log, c) :
         item \in Items /\ IsPast(c, item)
  <2>1. ASSUME NEW i \in DOMAIN log, log[i].status # "open",
               log[i].from # c => log[i].status = "delivered"
        PROVE  Item(log, i) \in Items /\ IsPast(c, Item(log, i))
    BY <1>2, <1>3, <2>1 DEF IsPast
  <2> QED
    BY <1>4, <1>5, <2>1
<1>8. ASSUME NEW old \in Items, IsPast(c, old)
      PROVE  /\ log[old.id].from = c => KeptIn(Outgoing(log, c), old)
             /\ log[old.id].from # c => KeptIn(Incoming(log, c), old)
  <2> DEFINE new == Item(log, old.id)
  <2>1. old.id \in DOMAIN log /\ log[old.id].status # "open"
        /\ Progress(old) <= Progress(log[old.id])
    BY <1>8 DEF IsPast
  <2>2. new.id = old.id /\ Progress(new) >= Progress(old)
    <3>1. Progress(old) \in Nat /\ Progress(log[old.id]) \in Nat
      BY <1>3, <2>1, EntryProgress
    <3> QED
      BY <1>2, <2>1, <3>1
  <2> HIDE DEF new
  <2>3. log[old.id].from = c => new \in Outgoing(log, c)
    BY <1>6, <2>1 DEF new
  <2>4. log[old.id].from # c => new \in Incoming(log, c)
    BY <1>6, <1>8, <2>1 DEF new, IsPast
  <2> QED
    BY <2>2, <2>3, <2>4 DEF KeptIn
<1> QED
  BY <1>7, <1>8

LEMMA AnswerKeepsInv ==
    ASSUME LogTypes, ViewTypes, NEW c \in Clients, ViewInv(c),
           NEW n \in DOMAIN refreshes[c], NEW part \in Parts, Answer(c, n, part)
    PROVE  /\ ViewTypes' /\ ViewInv(c)'
           /\ \A d \in Clients : refreshes'[d] = refreshes[d] \/ d = c
<1> USE DEF ViewInv
<1> DEFINE r == refreshes[c][n]
           s == [r EXCEPT
                    !.have = @ \cup {part},
                    !.room = IF part = "room" THEN conv ELSE @,
                    !.own = IF part = "own" THEN Outgoing(log, c) ELSE @,
                    !.incoming = IF part = "incoming" THEN Incoming(log, c) ELSE @,
                    !.guidance = IF part = "guidance" THEN Guided(log, c) ELSE @]
<1>1. r \in Answers
  BY AnswersOfRefresh
<1>2. /\ s.have = r.have \cup {part}
      /\ s.own = IF part = "own" THEN Outgoing(log, c) ELSE r.own
      /\ s.incoming = IF part = "incoming" THEN Incoming(log, c) ELSE r.incoming
      /\ s.guidance = IF part = "guidance" THEN Guided(log, c) ELSE r.guidance
  BY <1>1 DEF Answers
<1>3. s \in Answers
  <2>1. Guided(log, c) \subseteq Nat
    BY EntriesOfLog DEF Guided
  <2>2. conv \in {"loading", "active", "ended"}
    BY DEF LogTypes
  <2> QED
    BY <1>1, <2>1, <2>2, QueriesAreLatest DEF Answers
<1>4. /\ log' = log /\ shown' = shown /\ guidance' = guidance /\ room' = room
      /\ refreshes' = [refreshes EXCEPT ![c][n] = s]
  BY DEF Answer, server, view
<1> HIDE DEF r, s
<1>5. refreshes \in [Clients -> Seq(Answers)] /\ refreshes[c] \in Seq(Answers)
  BY DEF ViewTypes
<1>6. /\ refreshes'[c] = [refreshes[c] EXCEPT ![n] = s]
      /\ \A d \in Clients : d # c => refreshes'[d] = refreshes[d]
  BY <1>4, <1>5
<1>7. refreshes'[c] \in Seq(Answers) /\ Len(refreshes'[c]) = Len(refreshes[c])
  BY <1>3, <1>5, <1>6, ExceptSeq
<1>8. n = 1 /\ DOMAIN refreshes'[c] = {1} /\ refreshes'[c][n] = s
  BY <1>5, <1>6, TheRefresh
<1>9. ViewTypes'
  <2>1. refreshes' \in [Clients -> Seq(Answers)]
    <3>1. refreshes' = [d \in Clients |-> refreshes'[d]]
      BY <1>4, <1>5
    <3>2. \A d \in Clients : refreshes'[d] \in Seq(Answers)
      BY <1>5, <1>6, <1>7
    <3> QED
      BY <3>1, <3>2
  <2> QED
    BY <1>4, <2>1 DEF ViewTypes
<1>10. OneRefresh(c)'
  BY <1>7 DEF OneRefresh
<1>11. \A item : IsPast(c, item)' <=> IsPast(c, item)
  BY <1>4 DEF IsPast, Progress
<1>12. ItemsArePast(c)'
  <2>1. \A item \in s.own \cup s.incoming : IsPast(c, item)
    BY <1>2, QueriesAreLatest DEF ItemsArePast, r
  <2>2. s.guidance \subseteq Guided(log, c)
    BY <1>2 DEF ItemsArePast, r
  <2>3. Guided(log, c)' = Guided(log, c)
    BY <1>4 DEF Guided
  <2> QED
    BY <1>4, <1>8, <1>11, <2>1, <2>2, <2>3 DEF ItemsArePast
<1>13. AnswersAreLater(c)'
  <2>1. \A old \in shown[c] : old \in Items /\ IsPast(c, old)
    BY DEF ViewTypes, ItemsArePast
  <2>2. "own" \in s.have => \A old \in shown[c] :
           log[old.id].from = c => KeptIn(s.own, old)
    BY <1>2, <2>1, QueriesAreLatest DEF AnswersAreLater, r
  <2>3. "incoming" \in s.have => \A old \in shown[c] :
           log[old.id].from # c => KeptIn(s.incoming, old)
    BY <1>2, <2>1, QueriesAreLatest DEF AnswersAreLater, r
  <2>4. "guidance" \in s.have => guidance[c] \subseteq s.guidance
    BY <1>2 DEF AnswersAreLater, ItemsArePast, r
  <2> QED
    BY <1>4, <1>8, <2>2, <2>3, <2>4 DEF AnswersAreLater, KeptIn, Progress
<1> QED
  BY <1>6, <1>9, <1>10, <1>12, <1>13

LEMMA ShowKeepsInv ==
    ASSUME LogTypes, ViewTypes, NEW c \in Clients, ViewInv(c),
           NEW n \in DOMAIN refreshes[c], Show(c, n)
    PROVE  /\ ViewTypes' /\ ViewInv(c)'
           /\ \A d \in Clients : d # c =>
                 /\ shown'[d] = shown[d] /\ guidance'[d] = guidance[d]
                 /\ refreshes'[d] = refreshes[d]
<1> USE DEF ViewInv
<1> DEFINE r == refreshes[c][n]
<1>1. r \in Answers
  BY AnswersOfRefresh
<1>2. /\ log' = log /\ room' = [room EXCEPT ![c] = r.room]
      /\ shown' = [shown EXCEPT ![c] = ShownPage(r)]
      /\ guidance' = [guidance EXCEPT ![c] = r.guidance]
      /\ Done(c, n)
  BY DEF Show, server
<1>3. ShownPage(r) \subseteq r.own \cup r.incoming
  BY DEF ShownPage, Page
<1>4. /\ refreshes' \in [Clients -> Seq(Answers)] /\ refreshes'[c] = << >>
      /\ \A d \in Clients : refreshes'[d] = refreshes[d] \/ d = c
  BY <1>2, DoneKeepsView
<1>5. ShownPage(r) \subseteq Items /\ r.guidance \subseteq Nat
      /\ r.room \in {"loading", "active", "ended"}
  BY <1>1, <1>3 DEF Answers
<1>6. /\ \A item \in ShownPage(r) : IsPast(c, item)
      /\ r.guidance \subseteq Guided(log, c)
  BY <1>3 DEF ItemsArePast
<1> HIDE DEF r
<1>7. ViewTypes'
  BY <1>2, <1>4, <1>5 DEF ViewTypes
<1>8. shown'[c] = ShownPage(r) /\ guidance'[c] = r.guidance
      /\ \A d \in Clients : d # c =>
            shown'[d] = shown[d] /\ guidance'[d] = guidance[d]
  BY <1>2 DEF ViewTypes
<1>9. OneRefresh(c)'
  <2>1. Len(<< >>) = 0
    OBVIOUS
  <2> QED
    BY <1>4, <2>1 DEF OneRefresh
<1>10. ItemsArePast(c)'
  <2>1. \A item : IsPast(c, item)' <=> IsPast(c, item)
    BY <1>2 DEF IsPast, Progress
  <2>2. Guided(log, c)' = Guided(log, c)
    BY <1>2 DEF Guided
  <2> QED
    BY <1>4, <1>6, <1>8, <2>1, <2>2 DEF ItemsArePast
<1>11. AnswersAreLater(c)'
  BY <1>4 DEF AnswersAreLater
<1> QED
  BY <1>4, <1>7, <1>8, <1>9, <1>10, <1>11

\* A page that has room for every message leaves none out.
LEMMA WholePage ==
    ASSUME MaxLog <= PageLimit, NEW items,
           \A item \in items : item.id \in 1 .. MaxLog
    PROVE  Page(items, NoCursor, PageLimit) = items
<1> DEFINE ids == Ids(items)
<1>1. ids \subseteq 1 .. MaxLog /\ \A item \in items : item.id \in ids
  BY DEF Ids
<1>2. MaxLog \in Nat /\ PageLimit \in Nat
  BY ClientBoundsAssumption
<1> HIDE DEF ids
<1>3. Rest(ids, NoCursor) = ids
  <2>1. \A i \in ids : i > 0
    BY <1>1, <1>2
  <2> QED
    BY <2>1 DEF Rest, NoCursor
<1>4. ASSUME NEW i \in ids
      PROVE  Cardinality({j \in ids : j <= i}) <= PageLimit
  <2> DEFINE upto == {j \in ids : j <= i}
  <2>1. IsFiniteSet(1 .. MaxLog) /\ Cardinality(1 .. MaxLog) = MaxLog
    BY <1>2, FS_Interval
  <2>2. upto \in SUBSET (1 .. MaxLog)
    BY <1>1
  <2>3. IsFiniteSet(upto) /\ Cardinality(upto) <= MaxLog
    BY <2>1, <2>2, FS_Subset
  <2>4. Cardinality(upto) \in Nat
    BY <2>3, FS_CardinalityType
  <2> HIDE DEF upto
  <2>5. Cardinality(upto) <= PageLimit
    BY <1>2, <2>3, <2>4
  <2> QED
    BY <2>5 DEF upto
<1>5. Selected(ids, NoCursor, PageLimit) = ids
  BY <1>3, <1>4 DEF Selected
<1> QED
  BY <1>1, <1>5 DEF Page, ids

\* What a completed refresh shows is not behind what was shown.
LEMMA ShowGoesForward ==
    ASSUME MaxLog <= PageLimit, LogTypes, ViewTypes, NEW c \in Clients,
           ViewInv(c), NEW n \in DOMAIN refreshes[c], Show(c, n)
    PROVE  /\ guidance[c] \subseteq guidance'[c]
           /\ \A old \in shown[c] : KeptIn(shown'[c], old)
<1> USE DEF ViewInv
<1> DEFINE r == refreshes[c][n]
<1>1. r \in Answers
  BY AnswersOfRefresh
<1>2. r.have = Parts /\ shown'[c] = ShownPage(r) /\ guidance'[c] = r.guidance
  BY DEF Show, ViewTypes
<1>3. \A item \in r.own \cup r.incoming : item.id \in 1 .. MaxLog
  <2>1. \A item \in r.own \cup r.incoming : item.id \in DOMAIN log
    BY DEF ItemsArePast, IsPast
  <2>2. DOMAIN log = 1 .. Len(log) /\ Len(log) \in Nat /\ Len(log) <= MaxLog
        /\ MaxLog \in Nat
    BY EntriesOfLog, ClientBoundsAssumption DEF LogTypes
  <2> QED
    BY <2>1, <2>2
<1>4. shown'[c] = r.own \cup r.incoming
  BY <1>2, <1>3, WholePage DEF ShownPage
<1>5. \A old \in shown[c] :
         /\ log[old.id].from = c => KeptIn(r.own, old)
         /\ log[old.id].from # c => KeptIn(r.incoming, old)
  BY <1>2 DEF AnswersAreLater, Parts
<1>6. guidance[c] \subseteq r.guidance
  BY <1>2 DEF AnswersAreLater, Parts
<1> HIDE DEF r
<1> QED
  BY <1>2, <1>4, <1>5, <1>6 DEF KeptIn

----------------------------------------------------------------------------
(* The composer                                                            *)

LEMMA CopiesAreFinite ==
    ASSUME LogTypes, NEW c, NEW t
    PROVE  IsFiniteSet(Copies(c, t)) /\ Cardinality(Copies(c, t)) \in Nat
<1>1. IsFiniteSet(DOMAIN log)
  BY EntriesOfLog, FS_Interval
<1>2. Copies(c, t) \in SUBSET DOMAIN log
  BY DEF Copies
<1> QED
  BY <1>1, <1>2, FS_Subset, FS_CardinalityType

\* No text of the participant enters the log, and none leaves it.
LEMMA CopiesStay ==
    ASSUME LogMoves, NEW c \in Clients, NoNewOf(c)
    PROVE  \A t : Copies(c, t)' = Copies(c, t)
<1> SUFFICES ASSUME NEW t
             PROVE  \A i : i \in Copies(c, t)' <=> i \in Copies(c, t)
  <2>1. \A t : Copies(c, t)' = {i \in DOMAIN log' :
                                  log'[i].from = c /\ log'[i].text = t}
    BY DEF Copies
  <2> QED
    BY <2>1 DEF Copies
<1>1. \A i \in DOMAIN log : /\ i \in DOMAIN log'
                            /\ log'[i].from = log[i].from
                            /\ log'[i].text = log[i].text
  BY DEF LogMoves, Advance
<1> QED
  BY <1>1 DEF Copies, NoNewOf

KeepsSend(c) ==
    /\ text'[c] = text[c] /\ written'[c] = written[c]
    /\ sending'[c] = sending[c] /\ message'[c] = message[c]
    /\ posted'[c] = posted[c] /\ lost'[c] = lost[c]

\* What a send rests on stays true while the log moves without it.
LEMMA PostedStays ==
    ASSUME LogMoves, NEW c \in Clients, NEW i \in DOMAIN log
    PROVE  /\ i \in DOMAIN log' /\ log'[i].from = log[i].from
           /\ log'[i].text = log[i].text
           /\ log[i].status # "open" => log'[i].status # "open"
BY DEF LogMoves, Advance

LEMMA InvWhenSendKept ==
    ASSUME LogMoves, NEW c \in Clients, NoNewOf(c), SendInv(c), KeepsSend(c)
    PROVE  SendInv(c)'
<1> USE DEF SendInv, KeepsSend
<1>1. PostedIsSent(c)'
  <2>1. PICK i : i = posted[c]
    OBVIOUS
  <2>2. sending[c] \in {"wait", "refresh"} =>
           i \in DOMAIN log /\ log[i].from = c /\ log[i].text = message[c]
           /\ (sending[c] = "refresh" => log[i].status # "open")
    BY <2>1 DEF PostedIsSent
  <2>3. sending[c] \in {"wait", "refresh"} =>
           i \in DOMAIN log' /\ log'[i].from = c /\ log'[i].text = message[c]
           /\ (sending[c] = "refresh" => log'[i].status # "open")
    BY <2>2, PostedStays
  <2> QED
    BY <2>1, <2>3 DEF PostedIsSent
<1>2. TextsAreWritten(c)'
  <2>1. \A i \in DOMAIN log' : log'[i].from = c =>
           i \in DOMAIN log /\ log[i].from = c /\ log'[i].text = log[i].text
    BY PostedStays DEF NoNewOf
  <2> QED
    BY <2>1 DEF TextsAreWritten
<1>3. CopiesCounted(c)'
  <2>1. \A t : MayBeSent(c, t)' <=> MayBeSent(c, t)
    BY DEF MayBeSent
  <2>2. \A t : Copies(c, t)' = Copies(c, t)
    BY CopiesStay
  <2> SUFFICES ASSUME NEW t \in 1 .. written[c]
               PROVE  /\ Cardinality(Copies(c, t)') <= 1 + lost[c]
                      /\ MayBeSent(c, t)' => Cardinality(Copies(c, t)') <= lost[c]
    BY DEF CopiesCounted
  <2> QED
    BY <2>1, <2>2 DEF CopiesCounted
<1> QED
  BY <1>1, <1>2, <1>3

LEMMA WriteKeepsInv ==
    ASSUME LogTypes, SendTypes, NEW c \in Clients, SendInv(c), Write(c)
    PROVE  SendTypes' /\ SendInv(c)' /\ \A d \in Clients : d # c => KeepsSend(d)
<1> USE DEF SendInv
<1>1. /\ written[c] \in Nat /\ text[c] \in Nat /\ message[c] \in Nat
      /\ lost[c] \in Nat
  BY DEF SendTypes
<1>2. /\ text' = [text EXCEPT ![c] = written[c] + 1]
      /\ written' = [written EXCEPT ![c] = written[c] + 1]
      /\ sending' = sending /\ message' = message /\ posted' = posted
      /\ lost' = lost /\ log' = log
  BY DEF Write, send, server
<1>3. SendTypes' /\ \A d \in Clients : d # c => KeepsSend(d)
  BY <1>1, <1>2 DEF SendTypes, KeepsSend
<1>4. text'[c] = written[c] + 1 /\ written'[c] = written[c] + 1
  BY <1>2 DEF SendTypes
<1>5. PostedIsSent(c)'
  BY <1>2 DEF PostedIsSent
<1>6. \A i \in DOMAIN log : log[i] \in Entries /\ log[i].text \in Nat
  BY EntriesOfLog DEF Entries
<1>7. TextsAreWritten(c)'
  BY <1>1, <1>2, <1>4, <1>6 DEF TextsAreWritten
<1>8. CopiesCounted(c)'
  <2>1. \A t : Copies(c, t)' = Copies(c, t)
    BY <1>2 DEF Copies
  <2> SUFFICES ASSUME NEW t \in 1 .. (written[c] + 1)
               PROVE  /\ Cardinality(Copies(c, t)) <= 1 + lost[c]
                      /\ MayBeSent(c, t)' => Cardinality(Copies(c, t)) <= lost[c]
    BY <1>2, <1>4, <2>1 DEF CopiesCounted
  <2>2. CASE t = written[c] + 1
    <3>1. Copies(c, t) = {}
      BY <1>1, <1>6, <2>2 DEF Copies, TextsAreWritten
    <3>2. Cardinality(Copies(c, t)) = 0
      BY <3>1, FS_EmptySet
    <3> QED
      BY <1>1, <3>2
  <2>3. CASE t # written[c] + 1
    <3>1. t \in 1 .. written[c]
      BY <1>1, <2>3
    <3>2. MayBeSent(c, t)' => MayBeSent(c, t)
      BY <1>2, <1>4, <2>3 DEF MayBeSent
    <3> QED
      BY <3>1, <3>2 DEF CopiesCounted
  <2> QED
    BY <2>2, <2>3
<1> QED
  BY <1>3, <1>5, <1>7, <1>8

\* A step that adds no text: what may be sent after it could be sent before,
\* unless an answer is lost.
LEMMA InvWithoutNewText ==
    ASSUME LogTypes, SendTypes, NEW c \in Clients, SendInv(c),
           log' = log, written' = written, lost'[c] \in Nat,
           text'[c] \in {0, text[c]}, message'[c] \in {0, text[c], message[c]},
           \/ lost'[c] = lost[c]
              /\ \A t \in 1 .. written[c] : MayBeSent(c, t)' => MayBeSent(c, t)
           \/ lost'[c] = lost[c] + 1
    PROVE  TextsAreWritten(c)' /\ CopiesCounted(c)'
<1> USE DEF SendInv
<1>1. /\ written[c] \in Nat /\ lost[c] \in Nat
  BY DEF SendTypes
<1>2. TextsAreWritten(c)'
  BY <1>1 DEF TextsAreWritten
<1>3. CopiesCounted(c)'
  <2>1. \A t : Copies(c, t)' = Copies(c, t) /\ Cardinality(Copies(c, t)) \in Nat
    BY CopiesAreFinite DEF Copies
  <2> SUFFICES ASSUME NEW t \in 1 .. written[c]
               PROVE  /\ Cardinality(Copies(c, t)) <= 1 + lost'[c]
                      /\ MayBeSent(c, t)' => Cardinality(Copies(c, t)) <= lost'[c]
    BY <2>1 DEF CopiesCounted
  <2>2. /\ Cardinality(Copies(c, t)) <= 1 + lost[c]
        /\ MayBeSent(c, t) => Cardinality(Copies(c, t)) <= lost[c]
    BY DEF CopiesCounted
  <2>3. Cardinality(Copies(c, t)) \in Nat
    BY <2>1
  <2> QED
    BY <1>1, <2>2, <2>3
<1> QED
  BY <1>2, <1>3

LEMMA PressSendKeepsInv ==
    ASSUME LogTypes, SendTypes, NEW c \in Clients, SendInv(c), PressSend(c)
    PROVE  SendTypes' /\ SendInv(c)' /\ \A d \in Clients : d # c => KeepsSend(d)
<1>1. /\ sending[c] = "idle" /\ text[c] # 0
      /\ sending' = [sending EXCEPT ![c] = "post"]
      /\ message' = [message EXCEPT ![c] = text[c]]
      /\ text' = text /\ written' = written /\ posted' = posted /\ lost' = lost
      /\ log' = log
  BY DEF PressSend, MaySend, server
<1>2. SendTypes' /\ \A d \in Clients : d # c => KeepsSend(d)
  BY <1>1 DEF SendTypes, KeepsSend
<1>3. sending'[c] = "post" /\ message'[c] = text[c] /\ lost'[c] \in Nat
  BY <1>1 DEF SendTypes
<1>4. PostedIsSent(c)'
  BY <1>1, <1>3 DEF PostedIsSent
<1>5. \A t : MayBeSent(c, t)' => MayBeSent(c, t)
  BY <1>1, <1>3 DEF MayBeSent
<1>6. TextsAreWritten(c)' /\ CopiesCounted(c)'
  BY <1>1, <1>3, <1>5, InvWithoutNewText
<1> QED
  BY <1>2, <1>4, <1>6 DEF SendInv

LEMMA RefuseSendKeepsInv ==
    ASSUME LogTypes, SendTypes, NEW c \in Clients, SendInv(c), RefuseSend(c)
    PROVE  SendTypes' /\ SendInv(c)' /\ \A d \in Clients : d # c => KeepsSend(d)
<1>1. /\ sending[c] = "post"
      /\ sending' = [sending EXCEPT ![c] = "idle"]
      /\ message' = [message EXCEPT ![c] = 0]
      /\ posted' = [posted EXCEPT ![c] = 0]
      /\ text' = text /\ written' = written /\ lost' = lost /\ log' = log
  BY DEF RefuseSend, Forget, server
<1>2. SendTypes' /\ \A d \in Clients : d # c => KeepsSend(d)
  BY <1>1 DEF SendTypes, KeepsSend
<1>3. sending'[c] = "idle" /\ message'[c] = 0 /\ lost'[c] \in Nat
  BY <1>1 DEF SendTypes
<1>4. PostedIsSent(c)'
  BY <1>3 DEF PostedIsSent
<1>5. \A t : MayBeSent(c, t)' => MayBeSent(c, t)
  BY <1>1, <1>3 DEF MayBeSent
<1>6. TextsAreWritten(c)' /\ CopiesCounted(c)'
  BY <1>1, <1>3, <1>5, InvWithoutNewText
<1> QED
  BY <1>2, <1>4, <1>6 DEF SendInv

LEMMA AcceptSendKeepsInv ==
    ASSUME LogTypes, SendTypes, NEW c \in Clients, SendInv(c), AcceptSend(c)
    PROVE  SendTypes' /\ SendInv(c)' /\ \A d \in Clients : d # c => KeepsSend(d)
<1>1. /\ sending[c] = "wait" /\ log[posted[c]].status # "open"
      /\ sending' = [sending EXCEPT ![c] = "refresh"]
      /\ text' = text /\ written' = written /\ lost' = lost /\ log' = log
      /\ message' = message /\ posted' = posted
  BY DEF AcceptSend, server
<1>2. SendTypes' /\ \A d \in Clients : d # c => KeepsSend(d)
  BY <1>1 DEF SendTypes, KeepsSend
<1>3. sending'[c] = "refresh" /\ lost'[c] \in Nat
  BY <1>1 DEF SendTypes
<1>4. PostedIsSent(c)'
  BY <1>1, <1>3 DEF PostedIsSent, SendInv
<1>5. \A t : MayBeSent(c, t)' => MayBeSent(c, t)
  BY <1>3 DEF MayBeSent
<1>6. TextsAreWritten(c)' /\ CopiesCounted(c)'
  BY <1>1, <1>3, <1>5, InvWithoutNewText
<1> QED
  BY <1>2, <1>4, <1>6 DEF SendInv

LEMMA LoseAnswerKeepsInv ==
    ASSUME LogTypes, SendTypes, NEW c \in Clients, SendInv(c), LoseAnswer(c)
    PROVE  SendTypes' /\ SendInv(c)' /\ \A d \in Clients : d # c => KeepsSend(d)
<1>1. /\ lost' = [lost EXCEPT ![c] = @ + 1]
      /\ sending' = [sending EXCEPT ![c] = "idle"]
      /\ message' = [message EXCEPT ![c] = 0]
      /\ posted' = [posted EXCEPT ![c] = 0]
      /\ text' = text /\ written' = written /\ log' = log
  BY DEF LoseAnswer, Forget, server
<1>2. SendTypes' /\ \A d \in Clients : d # c => KeepsSend(d)
  BY <1>1 DEF SendTypes, KeepsSend
<1>3. /\ sending'[c] = "idle" /\ message'[c] = 0
      /\ lost'[c] = lost[c] + 1 /\ lost'[c] \in Nat
  BY <1>1 DEF SendTypes
<1>4. PostedIsSent(c)'
  BY <1>3 DEF PostedIsSent
<1>5. TextsAreWritten(c)' /\ CopiesCounted(c)'
  BY <1>1, <1>3, InvWithoutNewText
<1> QED
  BY <1>2, <1>4, <1>5 DEF SendInv

\* The composer is emptied: after a refresh, or when the room is left.
LEMMA EmptyKeepsInv ==
    ASSUME LogTypes, SendTypes, NEW c \in Clients, SendInv(c),
           text' = [text EXCEPT ![c] = 0],
           sending' = [sending EXCEPT ![c] = "idle"], Forget(c, TRUE),
           UNCHANGED <<log, written, lost>>
    PROVE  SendTypes' /\ SendInv(c)' /\ \A d \in Clients : d # c => KeepsSend(d)
<1>1. SendTypes' /\ \A d \in Clients : d # c => KeepsSend(d)
  BY DEF SendTypes, KeepsSend, Forget
<1>2. /\ sending'[c] = "idle" /\ message'[c] = 0 /\ text'[c] = 0
      /\ lost'[c] = lost[c] /\ lost'[c] \in Nat
  BY DEF SendTypes, Forget
<1>3. PostedIsSent(c)'
  BY <1>2 DEF PostedIsSent
<1>4. \A t \in 1 .. written[c] : ~MayBeSent(c, t)'
  <2>1. \A t \in 1 .. written[c] : t # 0
    BY DEF SendTypes
  <2> QED
    BY <1>2, <2>1 DEF MayBeSent
<1>5. TextsAreWritten(c)' /\ CopiesCounted(c)'
  BY <1>2, <1>4, InvWithoutNewText
<1> QED
  BY <1>1, <1>3, <1>5 DEF SendInv

LEMMA ResumeKeepsInv ==
    ASSUME LogTypes, SendTypes, NEW c \in Clients, SendInv(c), Resume(c),
           UNCHANGED <<log, written, lost>>
    PROVE  SendTypes' /\ SendInv(c)' /\ \A d \in Clients : d # c => KeepsSend(d)
<1>1. CASE sending[c] = "refresh"
  <2>1. /\ text' = [text EXCEPT ![c] = 0]
        /\ sending' = [sending EXCEPT ![c] = "idle"] /\ Forget(c, TRUE)
    BY <1>1 DEF Resume, Forget
  <2> QED
    BY <2>1, EmptyKeepsInv
<1>2. CASE sending[c] # "refresh"
  <2>1. text' = text /\ sending' = sending /\ message' = message
        /\ posted' = posted
    BY <1>2 DEF Resume, Forget, SendTypes
  <2>2. SendTypes' /\ \A d \in Clients : KeepsSend(d)
    BY <2>1 DEF SendTypes, KeepsSend
  <2>3. SendInv(c)'
    BY <2>1 DEF SendInv, PostedIsSent, TextsAreWritten, CopiesCounted, Copies,
                MayBeSent
  <2> QED
    BY <2>2, <2>3
<1> QED
  BY <1>1, <1>2

LEMMA OpenSendKeepsInv ==
    ASSUME LogTypes, SendTypes, NEW c \in Clients, SendInv(c), OpenSend(c)
    PROVE  SendTypes' /\ SendInv(c)' /\ \A d \in Clients : d # c => KeepsSend(d)
<1> USE DEF SendInv
<1> DEFINE m == message[c]
           new == Len(log) + 1
<1>1. m \in Nat /\ lost[c] \in Nat /\ written[c] \in Nat
  BY DEF SendTypes
<1>2. /\ sending[c] = "post" /\ OpenEntry(c, m)
      /\ posted' = [posted EXCEPT ![c] = new]
      /\ sending' = [sending EXCEPT ![c] = "wait"]
      /\ text' = text /\ written' = written /\ message' = message
      /\ lost' = lost
  BY DEF OpenSend
<1>3. /\ LogMoves /\ Len(log) \in Nat
      /\ DOMAIN log = 1 .. Len(log) /\ DOMAIN log' = 1 .. (Len(log) + 1)
      /\ log'[Len(log) + 1] = Entry(c, m)
      /\ \A i \in DOMAIN log : log'[i] = log[i]
  BY <1>1, <1>2, OpenMoves
<1>4. /\ new \in Nat /\ new \in DOMAIN log' /\ new \notin DOMAIN log
      /\ \A i \in DOMAIN log' : i = new \/ i \in DOMAIN log
      /\ \A i \in DOMAIN log : i \in DOMAIN log'
      /\ log'[new].from = c /\ log'[new].text = m
  BY <1>3 DEF Entry
<1> HIDE DEF new
<1>5. SendTypes' /\ \A d \in Clients : d # c => KeepsSend(d)
  BY <1>2, <1>4 DEF SendTypes, KeepsSend
<1>6. sending'[c] = "wait" /\ posted'[c] = new
  BY <1>2 DEF SendTypes
<1>7. PostedIsSent(c)'
  BY <1>2, <1>4, <1>6 DEF PostedIsSent
<1>8. TextsAreWritten(c)'
  BY <1>2, <1>3, <1>4 DEF TextsAreWritten
<1>9. CopiesCounted(c)'
  <2> SUFFICES ASSUME NEW t \in 1 .. written[c]
               PROVE  Cardinality(Copies(c, t)') <= 1 + lost[c]
    BY <1>2, <1>6 DEF CopiesCounted, MayBeSent
  <2>1. Copies(c, t)' = IF t = m THEN Copies(c, t) \cup {new} ELSE Copies(c, t)
    <3>1. Copies(c, t)' = {i \in DOMAIN log' : log'[i].from = c /\ log'[i].text = t}
      BY DEF Copies
    <3> QED
      BY <1>3, <1>4, <3>1 DEF Copies
  <2>2. IsFiniteSet(Copies(c, t)) /\ Cardinality(Copies(c, t)) \in Nat
    BY CopiesAreFinite
  <2>3. CASE t = m
    <3>1. Cardinality(Copies(c, t)) <= lost[c]
      BY <1>2, <2>3 DEF CopiesCounted, MayBeSent
    <3>2. new \notin Copies(c, t)
      BY <1>4 DEF Copies
    <3>3. Cardinality(Copies(c, t)') = Cardinality(Copies(c, t)) + 1
      BY <2>1, <2>2, <2>3, <3>2, FS_AddElement
    <3> QED
      BY <1>1, <2>2, <3>1, <3>3
  <2>4. CASE t # m
    BY <2>1, <2>4 DEF CopiesCounted
  <2> QED
    BY <2>3, <2>4
<1> QED
  BY <1>5, <1>7, <1>8, <1>9

----------------------------------------------------------------------------
(* Every step                                                              *)

\* a step of the browser of c, as the others see it
StepOf(c) ==
    /\ LogMoves /\ ViewTypes' /\ SendTypes' /\ ViewInv(c)' /\ SendInv(c)'
    /\ \A d \in Clients : d # c => NoNewOf(d) /\ ViewKept(d) /\ KeepsSend(d)

\* a step of the server
StepOfServer ==
    /\ LogMoves /\ ViewTypes' /\ SendTypes'
    /\ \A d \in Clients : NoNewOf(d) /\ ViewKept(d) /\ KeepsSend(d)

LEMMA OthersKeepInv ==
    ASSUME ClientInv, LogMoves, NEW d \in Clients,
           NoNewOf(d), ViewKept(d), KeepsSend(d)
    PROVE  ViewInv(d)' /\ SendInv(d)'
BY InvWhenViewKept, InvWhenSendKept DEF ClientInv

LEMMA StepKeepsInv ==
    ASSUME ClientInv, NEW c \in Clients, StepOf(c)
    PROVE  ClientInv'
<1>1. \A d \in Clients : ViewInv(d)' /\ SendInv(d)'
  BY OthersKeepInv DEF StepOf
<1> QED
  BY <1>1 DEF ClientInv, StepOf, LogMoves

LEMMA ServerStepKeepsInv ==
    ASSUME ClientInv, StepOfServer
    PROVE  ClientInv'
<1>1. \A d \in Clients : ViewInv(d)' /\ SendInv(d)'
  BY OthersKeepInv DEF StepOfServer
<1> QED
  BY <1>1 DEF ClientInv, StepOfServer, LogMoves

LEMMA ViewUntouched ==
    ASSUME ViewTypes, UNCHANGED <<view, refreshes>>
    PROVE  ViewTypes' /\ \A d : ViewKept(d)
BY DEF ViewTypes, ViewKept, view

LEMMA SendUntouched ==
    ASSUME SendTypes, UNCHANGED composer
    PROVE  SendTypes' /\ \A d : KeepsSend(d)
BY DEF SendTypes, KeepsSend, composer, send

LEMMA ServerSteps ==
    ASSUME ClientInv, Server
    PROVE  StepOfServer
<1> USE DEF ClientInv
<1>1. UNCHANGED <<view, refreshes>> /\ UNCHANGED composer
  BY DEF Server, PeerActs, CommitSend, Mediate
<1>2. /\ ViewTypes' /\ SendTypes'
      /\ \A d \in Clients : ViewKept(d) /\ KeepsSend(d)
  BY <1>1, ViewUntouched, SendUntouched
<1>3. LogMoves /\ \A d \in Clients : NoNewOf(d)
  <2>1. ASSUME NEW p \in Peers, OpenEntry(p, 0)
        PROVE  LogMoves /\ \A d \in Clients : NoNewOf(d)
    <3>1. \A d \in Clients : d # p
      BY ParticipantsAssumption
    <3>2. p \in Clients \cup Peers /\ 0 \in Nat
      OBVIOUS
    <3>3. LogMoves /\ \A d : d # p => NoNewOf(d)
      BY <2>1, <3>2, OpenMoves
    <3> QED
      BY <3>1, <3>3
  <2>2. ASSUME NEW i \in DOMAIN log, RetryEntry(i)
        PROVE  LogMoves /\ \A d \in Clients : NoNewOf(d)
    BY <2>2, RetryMoves
  <2>3. ASSUME EndConversation
        PROVE  LogMoves /\ \A d \in Clients : NoNewOf(d)
    BY <2>3, LogStays DEF EndConversation
  <2>4. ASSUME NEW i \in DOMAIN log, CommitSend(i)
        PROVE  LogMoves /\ \A d \in Clients : NoNewOf(d)
    BY <2>4, CommitMoves DEF CommitSend
  <2>5. ASSUME NEW i \in DOMAIN log, NEW s \in Outcomes, Mediate(i, s)
        PROVE  LogMoves /\ \A d \in Clients : NoNewOf(d)
    BY <2>5, SettleMoves DEF Mediate
  <2> QED
    BY <2>1, <2>2, <2>3, <2>4, <2>5 DEF Server, PeerActs
<1> QED
  BY <1>2, <1>3 DEF StepOfServer

\* The steps of a browser that leave the server alone.
LEMMA LogUntouched ==
    ASSUME LogTypes, UNCHANGED server
    PROVE  LogMoves /\ \A d : NoNewOf(d)
BY LogStays DEF server, LogTypes

LEMMA RefreshSteps ==
    ASSUME ClientInv, NEW c \in Clients, Poll(c) \/ Refreshing(c) \/ Faulty(c)
    PROVE  StepOf(c)
<1> USE DEF ClientInv
<1>1. UNCHANGED server
  BY DEF Poll, Refreshing, Faulty, Answer, Show, FailRefresh, SendAway, server
<1>2. LogMoves /\ \A d : NoNewOf(d)
  BY <1>1, LogUntouched
<1>3. log' = log
  BY <1>1 DEF server
<1> SUFFICES /\ ViewTypes' /\ SendTypes' /\ ViewInv(c)' /\ SendInv(c)'
             /\ \A d \in Clients : d # c => ViewKept(d) /\ KeepsSend(d)
  BY <1>2 DEF StepOf
<1>4. CASE Poll(c)
  <2>1. /\ ViewTypes' /\ ViewKept(c)
        /\ \A d \in Clients : refreshes'[d] = refreshes[d] \/ d = c
    BY <1>4, RefreshKeepsView DEF Poll
  <2>2. \A d \in Clients : d # c => ViewKept(d)
    BY <1>4, <2>1 DEF Poll, ViewKept, view
  <2>3. SendTypes' /\ \A d : KeepsSend(d)
    BY <1>4, SendUntouched DEF Poll
  <2> QED
    BY <1>2, <2>1, <2>2, <2>3, InvWhenViewKept, InvWhenSendKept
<1>5. ASSUME NEW n \in DOMAIN refreshes[c], NEW part \in Parts,
             Answer(c, n, part)
      PROVE  /\ ViewTypes' /\ SendTypes' /\ ViewInv(c)' /\ SendInv(c)'
             /\ \A d \in Clients : d # c => ViewKept(d) /\ KeepsSend(d)
  <2>1. /\ ViewTypes' /\ ViewInv(c)'
        /\ \A d \in Clients : refreshes'[d] = refreshes[d] \/ d = c
    BY <1>5, AnswerKeepsInv
  <2>2. \A d \in Clients : d # c => ViewKept(d)
    BY <1>5, <2>1 DEF Answer, ViewKept, view
  <2>3. SendTypes' /\ \A d : KeepsSend(d)
    BY <1>5, SendUntouched DEF Answer
  <2> QED
    BY <1>2, <2>1, <2>2, <2>3, InvWhenSendKept
<1>6. ASSUME NEW n \in DOMAIN refreshes[c], Show(c, n)
      PROVE  /\ ViewTypes' /\ SendTypes' /\ ViewInv(c)' /\ SendInv(c)'
             /\ \A d \in Clients : d # c => ViewKept(d) /\ KeepsSend(d)
  <2>1. /\ ViewTypes' /\ ViewInv(c)'
        /\ \A d \in Clients : d # c =>
              /\ shown'[d] = shown[d] /\ guidance'[d] = guidance[d]
              /\ refreshes'[d] = refreshes[d]
    BY <1>6, ShowKeepsInv
  <2>2. \A d \in Clients : d # c => ViewKept(d)
    BY <2>1 DEF ViewKept
  <2>3. SendTypes' /\ SendInv(c)' /\ \A d \in Clients : d # c => KeepsSend(d)
    BY <1>3, <1>6, ResumeKeepsInv DEF Show
  <2> QED
    BY <2>1, <2>2, <2>3
<1>7. ASSUME NEW n \in DOMAIN refreshes[c], FailRefresh(c, n)
      PROVE  /\ ViewTypes' /\ SendTypes' /\ ViewInv(c)' /\ SendInv(c)'
             /\ \A d \in Clients : d # c => ViewKept(d) /\ KeepsSend(d)
  <2>1. /\ refreshes' \in [Clients -> Seq(Answers)] /\ refreshes'[c] = << >>
        /\ \A d \in Clients : refreshes'[d] = refreshes[d] \/ d = c
    BY <1>7, DoneKeepsView DEF FailRefresh, ViewInv
  <2>2. ViewTypes' /\ \A d \in Clients : ViewKept(d)
    BY <1>7, <2>1 DEF FailRefresh, ViewTypes, ViewKept, view
  <2>3. SendTypes' /\ SendInv(c)' /\ \A d \in Clients : d # c => KeepsSend(d)
    BY <1>3, <1>7, ResumeKeepsInv DEF FailRefresh
  <2> QED
    BY <1>2, <2>2, <2>3, InvWhenViewKept
<1>8. CASE SendAway(c)
  <2>1. /\ room' = [room EXCEPT ![c] = "left"]
        /\ shown' = [shown EXCEPT ![c] = {}]
        /\ guidance' = [guidance EXCEPT ![c] = {}]
        /\ refreshes' = [refreshes EXCEPT ![c] = << >>]
    BY <1>8 DEF SendAway
  <2>2. << >> \in Seq(Answers)
    OBVIOUS
  <2>3. ViewTypes' /\ \A d \in Clients : ViewKept(d)
    BY <2>1, <2>2 DEF ViewTypes, ViewKept
  <2>4. SendTypes' /\ SendInv(c)' /\ \A d \in Clients : d # c => KeepsSend(d)
    BY <1>3, <1>8, EmptyKeepsInv DEF SendAway
  <2> QED
    BY <1>2, <2>3, <2>4, InvWhenViewKept
<1> QED
  BY <1>4, <1>5, <1>6, <1>7, <1>8 DEF Refreshing, Faulty

LEMMA ComposeSteps ==
    ASSUME ClientInv, NEW c \in Clients, Compose(c)
    PROVE  StepOf(c)
<1> USE DEF ClientInv
<1>1. /\ SendTypes' /\ SendInv(c)'
      /\ \A d \in Clients : d # c => KeepsSend(d)
  BY WriteKeepsInv, PressSendKeepsInv, OpenSendKeepsInv, RefuseSendKeepsInv,
     AcceptSendKeepsInv, LoseAnswerKeepsInv DEF Compose
<1>2. LogMoves /\ \A d \in Clients : d # c => NoNewOf(d)
  <2>1. CASE OpenSend(c)
    <3>1. message[c] \in Nat /\ c \in Clients \cup Peers /\ OpenEntry(c, message[c])
      BY <2>1 DEF SendTypes, OpenSend
    <3> QED
      BY <3>1, OpenMoves
  <2>2. CASE ~OpenSend(c)
    <3>1. UNCHANGED server
      BY <2>2 DEF Compose, Write, PressSend, RefuseSend, AcceptSend, LoseAnswer,
                  server
    <3> QED
      BY <3>1, LogUntouched
  <2> QED
    BY <2>1, <2>2
<1>3. ViewTypes' /\ \A d \in Clients : ViewKept(d)
  <2>1. CASE AcceptSend(c)
    <3>1. /\ ViewTypes' /\ ViewKept(c)
          /\ \A d \in Clients : refreshes'[d] = refreshes[d] \/ d = c
      BY <2>1, RefreshKeepsView DEF AcceptSend
    <3> QED
      BY <2>1, <3>1 DEF AcceptSend, ViewKept, view
  <2>2. CASE ~AcceptSend(c)
    <3>1. UNCHANGED <<view, refreshes>>
      BY <2>2 DEF Compose, Write, PressSend, OpenSend, RefuseSend, LoseAnswer
    <3> QED
      BY <3>1, ViewUntouched
  <2> QED
    BY <2>1, <2>2
<1> QED
  BY <1>1, <1>2, <1>3, InvWhenViewKept DEF StepOf

LEMMA ButtonSteps ==
    ASSUME ClientInv, NEW c \in Clients, Press(c) \/ Pressed(c)
    PROVE  StepOf(c)
<1> USE DEF ClientInv
<1>1. SendTypes' /\ \A d : KeepsSend(d)
  BY SendUntouched DEF Press, Pressed
<1>2. LogMoves /\ \A d : NoNewOf(d)
  <2>1. CASE Press(c)
    <3>1. CASE EndConversation
      BY <3>1, LogStays DEF EndConversation
    <3>2. ASSUME NEW i \in DOMAIN log, RetryEntry(i)
          PROVE  LogMoves /\ \A d : NoNewOf(d)
      BY <3>2, RetryMoves
    <3> QED
      BY <2>1, <3>1, <3>2 DEF Press
  <2>2. CASE Pressed(c)
    BY <2>2, LogUntouched DEF Pressed
  <2> QED
    BY <2>1, <2>2
<1>3. ViewTypes' /\ \A d \in Clients : ViewKept(d)
  <2>1. CASE Pressed(c) /\ Refresh(c)
    <3>1. UNCHANGED view
      BY <2>1 DEF Pressed
    <3>2. /\ ViewTypes' /\ ViewKept(c)
          /\ \A d \in Clients : refreshes'[d] = refreshes[d] \/ d = c
      BY <2>1, <3>1, RefreshKeepsView
    <3> QED
      BY <3>1, <3>2 DEF ViewKept, view
  <2>2. CASE UNCHANGED <<view, refreshes>>
    BY <2>2, ViewUntouched
  <2> QED
    BY <2>1, <2>2 DEF Press, Pressed
<1> QED
  BY <1>1, <1>2, <1>3, InvWhenViewKept, InvWhenSendKept DEF StepOf

LEMMA InvAtStart == Init => ClientInv
<1> SUFFICES ASSUME Init PROVE ClientInv
  OBVIOUS
<1>1. LogTypes
  <2>1. << >> \in Seq(Entries) /\ Len(<< >>) = 0
    OBVIOUS
  <2> QED
    BY <2>1, ClientBoundsAssumption DEF Init, LogTypes
<1>2. ViewTypes /\ SendTypes
  <2>1. << >> \in Seq(Answers)
    OBVIOUS
  <2> QED
    BY <2>1 DEF Init, ViewTypes, SendTypes
<1>3. ASSUME NEW c \in Clients PROVE ViewInv(c) /\ SendInv(c)
  <2>1. /\ shown[c] = {} /\ guidance[c] = {} /\ refreshes[c] = << >>
        /\ log = << >> /\ text[c] = 0 /\ written[c] = 0 /\ message[c] = 0
        /\ sending[c] = "idle"
    BY DEF Init
  <2>2. Len(<< >>) = 0
    OBVIOUS
  <2>3. ViewInv(c)
    BY <2>1, <2>2 DEF ViewInv, OneRefresh, ItemsArePast, AnswersAreLater
  <2>4. PostedIsSent(c) /\ TextsAreWritten(c)
    BY <2>1 DEF PostedIsSent, TextsAreWritten
  <2>5. CopiesCounted(c)
    BY <2>1 DEF CopiesCounted
  <2> QED
    BY <2>3, <2>4, <2>5 DEF SendInv
<1> QED
  BY <1>1, <1>2, <1>3 DEF ClientInv

LEMMA InvStays == ClientInv /\ [Next]_vars => ClientInv'
<1> SUFFICES ASSUME ClientInv, [Next]_vars PROVE ClientInv'
  OBVIOUS
<1>1. CASE Server
  BY <1>1, ServerSteps, ServerStepKeepsInv
<1>2. ASSUME NEW c \in Clients, Browser(c) PROVE ClientInv'
  <2>1. StepOf(c)
    BY <1>2, RefreshSteps, ComposeSteps, ButtonSteps DEF Browser
  <2> QED
    BY <2>1, StepKeepsInv
<1>3. CASE UNCHANGED vars
  <2>1. UNCHANGED server /\ UNCHANGED <<view, refreshes>> /\ UNCHANGED composer
    BY <1>3 DEF vars, server, view, composer, send
  <2>2. StepOfServer
    BY <2>1, LogUntouched, ViewUntouched, SendUntouched DEF ClientInv, StepOfServer
  <2> QED
    BY <2>2, ServerStepKeepsInv
<1> QED
  BY <1>1, <1>2, <1>3 DEF Next

LEMMA InvAlways == Spec => []ClientInv
BY InvAtStart, InvStays, PTL DEF Spec

----------------------------------------------------------------------------
(* The theorems                                                            *)

\* Whatever order the answers of a refresh come in and whatever happens
\* between them, the timeline shows states that messages have had, and of
\* the other side's messages only delivered ones.
THEOREM TimelineIsTrue == Spec => []ShownIsTrue
<1>1. ClientInv => ShownIsTrue
  BY DEF ClientInv, ViewInv, ItemsArePast, IsPast, ShownIsTrue
<1> QED
  BY <1>1, InvAlways, PTL

\* A text becomes several messages only through answers that were lost: a
\* browser sends no text twice that was accepted, refused or is under way.
THEOREM CopiesComeFromLoss == Spec => []CopiesAreExplained
<1>1. ClientInv => CopiesAreExplained
  BY DEF ClientInv, SendInv, CopiesCounted, CopiesAreExplained
<1> QED
  BY <1>1, InvAlways, PTL

LEMMA EmptyingStep ==
    ASSUME ClientInv, [Next]_vars, NEW c \in Clients,
           text[c] # 0, text'[c] = 0, room'[c] # "left"
    PROVE  sending[c] = "refresh"
<1> USE DEF ClientInv
<1>1. Server => text'[c] = text[c]
  BY ServerSteps DEF StepOfServer, KeepsSend
<1>2. ASSUME NEW d \in Clients, d # c, Browser(d) PROVE text'[c] = text[c]
  BY <1>2, RefreshSteps, ComposeSteps, ButtonSteps
     DEF Browser, StepOf, KeepsSend
<1>3. CASE Browser(c)
  <2>1. Resume(c) => sending[c] = "refresh"
    BY DEF Resume, SendTypes
  <2>2. ~SendAway(c)
    BY DEF SendAway, ViewTypes
  <2>3. ~Write(c)
    <3>1. Write(c) => text'[c] = written[c] + 1 /\ written[c] \in Nat
      BY DEF Write, SendTypes
    <3> QED
      BY <3>1
  <2>4. text' # text
    OBVIOUS
  <2> QED
    BY <1>3, <2>1, <2>2, <2>3, <2>4
       DEF Browser, Poll, Refreshing, Faulty, Compose, Press, Pressed, Answer,
           Show, FailRefresh, PressSend, OpenSend, RefuseSend, AcceptSend,
           LoseAnswer, composer
<1> QED
  BY <1>1, <1>2, <1>3 DEF Next, vars

\* The composer loses a text only after the server has stored the message
\* that was sent, and committed it.
THEOREM TextIsKeptUntilAccepted == Spec => EmptiedOnceAccepted
<1>1. ASSUME ClientInv, [Next]_vars
      PROVE  \A c \in Clients :
                text[c] # 0 /\ text'[c] = 0 /\ room'[c] # "left" =>
                    \E i \in DOMAIN log :
                        /\ log[i].from = c
                        /\ log[i].text = message[c]
                        /\ log[i].status # "open"
  <2> SUFFICES ASSUME NEW c \in Clients,
                      text[c] # 0, text'[c] = 0, room'[c] # "left"
               PROVE  \E i \in DOMAIN log :
                          /\ log[i].from = c
                          /\ log[i].text = message[c]
                          /\ log[i].status # "open"
    OBVIOUS
  <2>1. sending[c] = "refresh"
    BY <1>1, EmptyingStep
  <2>2. /\ posted[c] \in DOMAIN log /\ log[posted[c]].from = c
        /\ log[posted[c]].text = message[c]
        /\ log[posted[c]].status # "open"
    BY <1>1, <2>1 DEF ClientInv, SendInv, PostedIsSent
  <2> QED
    BY <2>2
<1> QED
  BY <1>1, InvAlways, PTL DEF EmptiedOnceAccepted, Spec

\* A refresh under way has read nothing older than what is shown, so that a
\* timeline whose page has room for every message never goes back.  On a
\* page without that room a message may have to give way to an earlier one
\* that becomes visible late.
THEOREM TimelineGoesForward ==
    ASSUME MaxLog <= PageLimit
    PROVE  Spec => ViewNeverGoesBack
<1>1. ASSUME ClientInv, [Next]_vars
      PROVE  \A c \in Clients : room'[c] # "left" =>
                /\ guidance[c] \subseteq guidance'[c]
                /\ \A old \in shown[c] : \E new \in shown'[c] :
                       new.id = old.id /\ Progress(new) >= Progress(old)
  <2> USE <1>1 DEF ClientInv
  <2> SUFFICES ASSUME NEW c \in Clients, room'[c] # "left"
               PROVE  /\ guidance[c] \subseteq guidance'[c]
                      /\ \A old \in shown[c] : KeptIn(shown'[c], old)
    BY DEF KeptIn
  <2>1. ASSUME shown'[c] = shown[c], guidance'[c] = guidance[c]
        PROVE  /\ guidance[c] \subseteq guidance'[c]
               /\ \A old \in shown[c] : KeptIn(shown'[c], old)
    <3>1. \A old \in shown[c] : Progress(old) \in Nat
      BY EntryProgress DEF ViewTypes
    <3> QED
      BY <2>1, <3>1 DEF KeptIn
  <2>2. CASE UNCHANGED view
    BY <2>1, <2>2 DEF view
  <2>3. ASSUME NEW d \in Clients, NEW n \in DOMAIN refreshes[d], Show(d, n)
        PROVE  /\ guidance[c] \subseteq guidance'[c]
               /\ \A old \in shown[c] : KeptIn(shown'[c], old)
    <3>1. CASE d = c
      BY <2>3, <3>1, ShowGoesForward
    <3>2. CASE d # c
      <4>1. shown'[c] = shown[c] /\ guidance'[c] = guidance[c]
        BY <2>3, <3>2, ShowKeepsInv
      <4> QED
        BY <2>1, <4>1
    <3> QED
      BY <3>1, <3>2
  <2>4. ASSUME NEW d \in Clients, SendAway(d)
        PROVE  shown'[c] = shown[c] /\ guidance'[c] = guidance[c]
    <3>1. /\ room' = [room EXCEPT ![d] = "left"]
          /\ shown' = [shown EXCEPT ![d] = {}]
          /\ guidance' = [guidance EXCEPT ![d] = {}]
      BY <2>4 DEF SendAway
    <3>2. d # c
      BY <3>1 DEF ViewTypes
    <3> QED
      BY <3>1, <3>2 DEF ViewTypes
  <2>5. ASSUME NEW d \in Clients, Browser(d),
               ~\E n \in DOMAIN refreshes[d] : Show(d, n), ~SendAway(d)
        PROVE  UNCHANGED view
    BY <2>5 DEF Browser, Poll, Refreshing, Faulty, Compose, Press, Pressed,
                Answer, FailRefresh, Write, PressSend, OpenSend, RefuseSend,
                AcceptSend, LoseAnswer
  <2>6. CASE Server \/ UNCHANGED vars
    <3>1. UNCHANGED view
      BY <2>6 DEF Server, PeerActs, CommitSend, Mediate, vars, view
    <3> QED
      BY <2>2, <3>1
  <2> QED
    BY <2>1, <2>2, <2>3, <2>4, <2>5, <2>6 DEF Next
<1> QED
  BY <1>1, InvAlways, PTL DEF ViewNeverGoesBack, Spec

=============================================================================
