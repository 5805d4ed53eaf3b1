--------------------------- MODULE ContentProofs ----------------------------
(***************************************************************************)
(* Theorems about MediatedContent, for any participants, languages,        *)
(* requests, context limits and number of messages.                        *)
(***************************************************************************)
EXTENDS ContentProperties, SequenceTheorems, FiniteSetTheorems,
        WellFoundedInduction, TLAPS

----------------------------------------------------------------------------
(* Types *)

Texts == {"none", "plain", "blank", "long", "nul"}

Entry ==
    [from : Participants,
     status : {"processing", "delivered", "failed", "blocked"},
     text : Texts,
     language : Languages \cup {"none"}]

Calling == [stage : {"calling"}, language : Languages, after : SUBSET Updates]

Broken == [stage : {"broken"}, nul : BOOLEAN]

Call == {NoCall} \cup Calling \cup Broken

Asked ==
    [stage : {"authenticated", "answered"}, of : Participants,
     wants : Languages, loaded : Languages, after : SUBSET Updates]

ContentTypes ==
    /\ language \in [Participants -> Languages]
    /\ update \in [Updates -> {NewUpdate} \cup Asked]
    /\ log \in Seq(Entry)
    /\ call \in Seq(Call)
    /\ Len(call) = Len(log)

LEMMA Recipients ==
    ASSUME ContentTypes, NEW i \in 1..Len(log)
    PROVE  Recipient(i) \in Participants
<1>0. log[i] \in Entry
  BY ElementOfSeq DEF ContentTypes
<1>1. log[i].from \in Participants
  BY <1>0 DEF Entry
<1>2. \E q \in Participants : q # log[i].from
  BY <1>1, TwoParticipantsAssumption
<1> QED
  BY <1>2 DEF Recipient

\* what an accepted answer looks like
LEMMA AcceptedAnswer ==
    ASSUME NEW l \in Languages, NEW a \in Accepted(l)
    PROVE  /\ a.status \in {"delivered", "blocked"}
           /\ a.text \in Texts
           /\ a.language \in Languages \cup {"none"}
           /\ a.status = "delivered" =>
                 a.language = l /\ a.text \in {"plain", "nul"}
           /\ ~Storable(a) => HasNul(a)
           /\ HasNul(a) \in BOOLEAN
<1>1. a \in Answers /\ WellFormed(a) /\ GuidanceWellFormed(a)
  BY DEF Accepted, Valid
<1>2. a.text \in Texts /\ a.language \in Languages \cup {"none"}
      /\ a.status \in {"delivered", "blocked"}
  BY <1>1 DEF Answers, Texts
<1>3. a.status = "delivered" => a.language = l
  BY DEF Accepted
<1> QED
  BY <1>1, <1>2, <1>3
     DEF WellFormed, GuidanceWellFormed, Storable, GuidanceStorable, HasNul, Texts

----------------------------------------------------------------------------
(* What a step does to the requests for a language *)

Authenticates(u) ==
    /\ \E p \in Participants, l \in Languages : Authenticate(u, p, l)
    /\ language' = language

SettingsStep ==
    \/ UNCHANGED <<language, update>>
    \/ \E u \in Updates : Authenticates(u) \/ UpdateLanguage(u)

LEMMA SettingsSteps == [Next]_vars => SettingsStep
BY DEF Next, ChangeSettings, SettingsNext, Authenticate, Authenticates,
       SettingsStep, Send, Mediate, Prepare, Settle, Break, Fail, Recover,
       Retry, vars

\* what a step does to one message
EntryStep(i) ==
    \/ log'[i] = log[i] /\ call'[i] = call[i]
    \/ /\ log'[i] = log[i] /\ call[i] = NoCall
       /\ call'[i] = [stage |-> "calling", language |-> Wanted(i),
                      after |-> Answered(Recipient(i))]
    \/ /\ call[i].stage = "calling" /\ call'[i] = NoCall
       /\ \E a \in Accepted(call[i].language) :
             /\ Storable(a)
             /\ log'[i] = [log[i] EXCEPT !.status = a.status, !.text = a.text,
                                         !.language = a.language]
    \/ /\ call[i].stage = "calling" /\ log'[i] = log[i]
       /\ \E a \in Accepted(call[i].language) :
             /\ ~Storable(a)
             /\ call'[i] = [stage |-> "broken", nul |-> HasNul(a)]
    \/ call'[i] = NoCall /\ log'[i] \in {log[i], [log[i] EXCEPT !.status = "failed"]}
    \/ call'[i] = call[i] /\ log'[i] = [log[i] EXCEPT !.status = "processing"]

LogStep ==
    \/ /\ \E p \in Participants :
             log' = Append(log, [from |-> p, status |-> "processing",
                                 text |-> "none", language |-> "none"])
       /\ call' = Append(call, NoCall)
    \/ /\ log' = [i \in DOMAIN log |-> log'[i]]
       /\ call' = [i \in DOMAIN log |-> call'[i]]
       /\ \A i \in DOMAIN log : EntryStep(i)

LEMMA LogSteps == ContentTypes /\ [Next]_vars => LogStep
<1> SUFFICES ASSUME ContentTypes, [Next]_vars PROVE LogStep
  OBVIOUS
<1>1. /\ DOMAIN log = 1..Len(log) /\ DOMAIN call = 1..Len(log)
      /\ log = [i \in DOMAIN log |-> log[i]]
      /\ call = [i \in DOMAIN log |-> call[i]]
  BY LenProperties DEF ContentTypes
<1>2. CASE UNCHANGED <<log, call>>
  BY <1>1, <1>2 DEF LogStep, EntryStep
<1>3. CASE ChangeSettings
  BY <1>2, <1>3 DEF ChangeSettings
<1>4. ASSUME NEW p \in Participants, Send(p) PROVE LogStep
  BY <1>4 DEF Send, LogStep
<1>5. ASSUME NEW i \in DOMAIN log, Mediate(i) PROVE LogStep
  <2>1. i \in DOMAIN call
    BY <1>1
  <2>2. /\ log' = [k \in DOMAIN log |-> log'[k]]
        /\ call' = [k \in DOMAIN log |-> call'[k]]
        /\ \A k \in DOMAIN log \ {i} : log'[k] = log[k] /\ call'[k] = call[k]
    BY <1>1, <1>5 DEF Mediate, Prepare, Settle, Break, Fail, Recover, Retry
  <2>3. EntryStep(i)
    <3>1. CASE Prepare(i)
      BY <2>1, <3>1 DEF Prepare, EntryStep
    <3>2. ASSUME NEW a \in Accepted(call[i].language),
                 call[i].stage = "calling", Settle(i, a)
          PROVE  EntryStep(i)
      BY <2>1, <3>2 DEF Settle, EntryStep
    <3>3. ASSUME NEW a \in Accepted(call[i].language),
                 call[i].stage = "calling", Break(i, a)
          PROVE  EntryStep(i)
      BY <2>1, <3>3 DEF Break, EntryStep
    <3>4. CASE Fail(i) \/ Recover(i) \/ Retry(i)
      BY <2>1, <3>4 DEF Fail, Recover, Retry, EntryStep
    <3> QED
      BY <1>5, <3>1, <3>2, <3>3, <3>4 DEF Mediate
  <2>4. \A k \in DOMAIN log : EntryStep(k)
    BY <2>2, <2>3 DEF EntryStep
  <2> QED
    BY <2>2, <2>4 DEF LogStep
<1> QED
  BY <1>2, <1>3, <1>4, <1>5 DEF Next, vars

LEMMA SettingsTypes ==
    ContentTypes /\ SettingsStep =>
        /\ language' \in [Participants -> Languages]
        /\ update' \in [Updates -> {NewUpdate} \cup Asked]
<1> SUFFICES ASSUME ContentTypes, SettingsStep
             PROVE  /\ language' \in [Participants -> Languages]
                    /\ update' \in [Updates -> {NewUpdate} \cup Asked]
  OBVIOUS
<1>1. /\ language \in [Participants -> Languages]
      /\ update \in [Updates -> {NewUpdate} \cup Asked]
  BY DEF ContentTypes
<1>2. ASSUME NEW u \in Updates, NEW p \in Participants, NEW l \in Languages,
             Authenticate(u, p, l)
      PROVE  update' \in [Updates -> {NewUpdate} \cup Asked]
  <2>1. [stage |-> "authenticated", of |-> p, wants |-> l,
         loaded |-> Loaded(p), after |-> Answered(p)] \in Asked
    BY <1>1 DEF Loaded, Answered, Asked
  <2> QED
    BY <1>1, <1>2, <2>1 DEF Authenticate
<1>3. ASSUME NEW u \in Updates, UpdateLanguage(u)
      PROVE  /\ language' \in [Participants -> Languages]
             /\ update' \in [Updates -> {NewUpdate} \cup Asked]
  <2>1. update[u] \in Asked
    BY <1>1, <1>3 DEF UpdateLanguage, NewUpdate
  <2>2. [update[u] EXCEPT !.stage = "answered"] \in Asked /\ Flushed(u) \in Languages
    BY <1>1, <2>1 DEF Asked, Flushed
  <2> QED
    BY <1>1, <1>3, <2>2 DEF UpdateLanguage
<1> QED
  BY <1>1, <1>2, <1>3 DEF SettingsStep, Authenticates

LEMMA EntryTypes ==
    ASSUME ContentTypes, NEW i \in 1..Len(log), EntryStep(i)
    PROVE  log'[i] \in Entry /\ call'[i] \in Call
<1>1. log[i] \in Entry /\ call[i] \in Call /\ NoCall \in Call
  BY ElementOfSeq DEF ContentTypes, Call
<1>2. Wanted(i) \in Languages /\ Answered(Recipient(i)) \subseteq Updates
  BY Recipients DEF ContentTypes, Wanted, Answered
<1>3. call[i].stage = "calling" => call[i] \in Calling
  BY <1>1 DEF Call, NoCall, Calling, Broken
<1>4. CASE log'[i] = log[i] /\ call'[i] = call[i]
  BY <1>1, <1>4
<1>6. CASE /\ log'[i] = log[i] /\ call[i] = NoCall
           /\ call'[i] = [stage |-> "calling", language |-> Wanted(i),
                          after |-> Answered(Recipient(i))]
  <2>1. call'[i] \in Calling
    BY <1>2, <1>6 DEF Calling
  <2> QED
    BY <1>1, <1>6, <2>1 DEF Call
<1>7. ASSUME NEW a \in Accepted(call[i].language), call[i].stage = "calling"
      PROVE  /\ [log[i] EXCEPT !.status = a.status, !.text = a.text,
                               !.language = a.language] \in Entry
             /\ [stage |-> "broken", nul |-> HasNul(a)] \in Call
  <2>1. call[i].language \in Languages
    BY <1>3, <1>7 DEF Calling
  <2>2. /\ a.status \in {"delivered", "blocked"} /\ a.text \in Texts
        /\ a.language \in Languages \cup {"none"} /\ HasNul(a) \in BOOLEAN
    BY <1>7, <2>1, AcceptedAnswer
  <2>3. [log[i] EXCEPT !.status = a.status, !.text = a.text,
                       !.language = a.language] \in Entry
    BY <1>1, <2>2 DEF Entry
  <2>4. [stage |-> "broken", nul |-> HasNul(a)] \in Broken
    BY <2>2 DEF Broken
  <2> QED
    BY <2>3, <2>4 DEF Call
<1>8. /\ [log[i] EXCEPT !.status = "failed"] \in Entry
      /\ [log[i] EXCEPT !.status = "processing"] \in Entry
  BY <1>1 DEF Entry
<1> QED
  BY <1>1, <1>4, <1>6, <1>7, <1>8 DEF EntryStep

\* a sequence that keeps its domain and whose elements keep their type
LEMMA SameDomain ==
    ASSUME NEW S, NEW old \in Seq(S), NEW new,
           new = [i \in DOMAIN old |-> new[i]],
           \A i \in 1..Len(old) : new[i] \in S
    PROVE  new \in Seq(S) /\ Len(new) = Len(old)
<1>1. DOMAIN old = 1..Len(old) /\ Len(old) \in Nat
  BY LenProperties
<1>2. new \in [1..Len(old) -> S] /\ DOMAIN new = 1..Len(old)
  BY <1>1
<1>3. new \in Seq(S)
  BY <1>1, <1>2, SeqDef
<1> QED
  BY <1>1, <1>2, <1>3, LenProperties

LEMMA TypeStep == ContentTypes /\ [Next]_vars => ContentTypes'
<1> SUFFICES ASSUME ContentTypes, [Next]_vars PROVE ContentTypes'
  OBVIOUS
<1>1. /\ language' \in [Participants -> Languages]
      /\ update' \in [Updates -> {NewUpdate} \cup Asked]
  BY SettingsSteps, SettingsTypes
<1>2. /\ log \in Seq(Entry) /\ call \in Seq(Call) /\ Len(call) = Len(log)
      /\ DOMAIN log = 1..Len(log)
  BY LenProperties DEF ContentTypes
<1>3. ASSUME NEW p \in Participants,
             log' = Append(log, [from |-> p, status |-> "processing",
                                 text |-> "none", language |-> "none"]),
             call' = Append(call, NoCall)
      PROVE  log' \in Seq(Entry) /\ call' \in Seq(Call) /\ Len(call') = Len(log')
  <2>1. [from |-> p, status |-> "processing", text |-> "none",
         language |-> "none"] \in Entry /\ NoCall \in Call
    BY DEF Entry, Texts, Call
  <2> QED
    BY <1>2, <1>3, <2>1, AppendProperties
<1>4. CASE /\ log' = [i \in DOMAIN log |-> log'[i]]
           /\ call' = [i \in DOMAIN log |-> call'[i]]
           /\ \A i \in DOMAIN log : EntryStep(i)
  <2>1. \A i \in 1..Len(log) : log'[i] \in Entry /\ call'[i] \in Call
    BY <1>1, <1>2, <1>4, EntryTypes
  <2>2. log' \in Seq(Entry) /\ Len(log') = Len(log)
    BY <1>2, <1>4, <2>1, SameDomain
  <2>3. DOMAIN call = DOMAIN log
    BY <1>2, LenProperties
  <2>4. call' \in Seq(Call) /\ Len(call') = Len(call)
    BY <1>2, <1>4, <2>1, <2>3, SameDomain
  <2> QED
    BY <1>1, <1>2, <2>2, <2>4 DEF ContentTypes
<1> QED
  BY <1>1, <1>3, <1>4, LogSteps DEF LogStep, ContentTypes

LEMMA TypesHold == Spec => []ContentTypes
<1>1. Init => ContentTypes
  BY EmptySeq DEF Init, SettingsInit, ContentTypes
<1> QED
  BY <1>1, TypeStep, PTL DEF Spec

----------------------------------------------------------------------------
(* Calls and what is stored of their answers *)

\* the database refuses a NUL character only
CallOK(c) == c.stage = "broken" => c.nul

\* what is stored as delivered can be sent again
EntryOK(e) ==
    e.status = "delivered" => e.text = "plain" /\ e.language \in Languages

ContentInv ==
    \A i \in 1..Len(log) : CallOK(call[i]) /\ EntryOK(log[i])

LEMMA EntryStepKeeps ==
    ASSUME ContentTypes, NEW i \in 1..Len(log), EntryStep(i),
           CallOK(call[i]), EntryOK(log[i])
    PROVE  /\ CallOK(call'[i]) /\ EntryOK(log'[i])
           /\ log'[i].status = "delivered" /\ log[i].status # "delivered" =>
                 call[i].stage = "calling" /\ log'[i].language = call[i].language
<1> DEFINE Goal ==
           /\ CallOK(call'[i]) /\ EntryOK(log'[i])
           /\ log'[i].status = "delivered" /\ log[i].status # "delivered" =>
                 call[i].stage = "calling" /\ log'[i].language = call[i].language
<1>1. log[i] \in Entry /\ call[i] \in Call
  BY ElementOfSeq DEF ContentTypes
<1>2. call[i].stage = "calling" => call[i] \in Calling
  BY <1>1 DEF Call, NoCall, Calling, Broken
<1>3. CallOK(NoCall)
  BY DEF CallOK, NoCall
<1>4. CASE log'[i] = log[i] /\ call'[i] = call[i]
  BY <1>4
<1>6. CASE /\ log'[i] = log[i] /\ call[i] = NoCall
           /\ call'[i] = [stage |-> "calling", language |-> Wanted(i),
                          after |-> Answered(Recipient(i))]
  BY <1>6 DEF CallOK
<1>7. ASSUME NEW a \in Accepted(call[i].language), call[i].stage = "calling",
             call'[i] = NoCall, Storable(a),
             log'[i] = [log[i] EXCEPT !.status = a.status, !.text = a.text,
                                      !.language = a.language]
      PROVE  Goal
  <2>1. call[i].language \in Languages
    BY <1>2, <1>7 DEF Calling
  <2>2. a.status = "delivered" =>
          a.language = call[i].language /\ a.text \in {"plain", "nul"}
    BY <2>1, AcceptedAnswer
  <2>3. a.text # "nul"
    BY <1>7 DEF Storable, HasNul
  <2>4. /\ log'[i].status = a.status /\ log'[i].text = a.text
        /\ log'[i].language = a.language
    BY <1>1, <1>7 DEF Entry
  <2> QED
    BY <1>3, <1>7, <2>1, <2>2, <2>3, <2>4 DEF EntryOK
<1>8. ASSUME NEW a \in Accepted(call[i].language), call[i].stage = "calling",
             ~Storable(a), log'[i] = log[i],
             call'[i] = [stage |-> "broken", nul |-> HasNul(a)]
      PROVE  Goal
  <2>1. call[i].language \in Languages
    BY <1>2, <1>8 DEF Calling
  <2>2. HasNul(a)
    BY <1>8, <2>1, AcceptedAnswer
  <2> QED
    BY <1>8, <2>2 DEF CallOK
<1>9. CASE /\ call'[i] \in {call[i], NoCall}
           /\ log'[i] \in {log[i], [log[i] EXCEPT !.status = "failed"],
                           [log[i] EXCEPT !.status = "processing"]}
  BY <1>1, <1>3, <1>9 DEF Entry, EntryOK
<1> QED
  BY <1>4, <1>6, <1>7, <1>8, <1>9 DEF EntryStep

LEMMA ContentStep == ContentTypes /\ ContentInv /\ [Next]_vars => ContentInv'
<1> SUFFICES ASSUME ContentTypes, ContentInv, [Next]_vars,
                    NEW i \in 1..Len(log')
             PROVE  CallOK(call'[i]) /\ EntryOK(log'[i])
  BY DEF ContentInv
<1>1. /\ log \in Seq(Entry) /\ call \in Seq(Call) /\ Len(call) = Len(log)
      /\ DOMAIN log = 1..Len(log) /\ Len(log) \in Nat
  BY LenProperties DEF ContentTypes
<1>2. ASSUME NEW p \in Participants,
             log' = Append(log, [from |-> p, status |-> "processing",
                                 text |-> "none", language |-> "none"]),
             call' = Append(call, NoCall)
      PROVE  CallOK(call'[i]) /\ EntryOK(log'[i])
  <2> DEFINE e == [from |-> p, status |-> "processing", text |-> "none",
                   language |-> "none"]
  <2>1. e \in Entry /\ NoCall \in Call /\ CallOK(NoCall) /\ EntryOK(e)
    BY DEF Entry, Texts, Call, CallOK, EntryOK, NoCall
  <2> HIDE DEF e
  <2>2. /\ Len(log') = Len(log) + 1
        /\ \A k \in 1..Len(log) : log'[k] = log[k] /\ call'[k] = call[k]
        /\ log'[Len(log) + 1] = e /\ call'[Len(log) + 1] = NoCall
    BY <1>1, <1>2, <2>1, AppendProperties DEF e
  <2> QED
    BY <1>1, <2>1, <2>2 DEF ContentInv
<1>3. CASE /\ log' = [k \in DOMAIN log |-> log'[k]]
           /\ \A k \in DOMAIN log : EntryStep(k)
  <2>1. i \in 1..Len(log)
    <3>1. DOMAIN log' = 1..Len(log')
      BY TypeStep, LenProperties DEF ContentTypes
    <3> QED
      BY <1>1, <1>3, <3>1
  <2> QED
    BY <1>1, <1>3, <2>1, EntryStepKeeps DEF ContentInv
<1> QED
  BY <1>2, <1>3, LogSteps DEF LogStep

LEMMA ContentHolds == Spec => []ContentInv
<1>1. Init => ContentInv
  BY DEF Init, ContentInv
<1> QED
  BY <1>1, ContentStep, TypesHold, PTL DEF Spec

\* Of what the validation accepts, the tables refuse only text with a NUL
\* character: every other attempt is settled or fails as the code intends.
THEOREM NulAloneBreaks == Spec => []OnlyNulBreaks
<1>1. ContentTypes /\ ContentInv => OnlyNulBreaks
  BY LenProperties DEF ContentTypes, ContentInv, CallOK, OnlyNulBreaks
<1> QED
  BY <1>1, ContentHolds, TypesHold, PTL

----------------------------------------------------------------------------
(* The context of a request                                                *)

LEMMA LeastNatural ==
    ASSUME NEW S \in SUBSET Nat, S # {}
    PROVE  \E x \in S : \A y \in S : x <= y
<1>1. PICK x \in S : \A y \in S : ~(<<y, x>> \in OpToRel(<, Nat))
  BY NatLessThanWellFounded, WFMin
<1>2. \A y \in S : ~(y < x)
  BY <1>1 DEF OpToRel
<1> QED
  BY <1>2

\* the elements with fewer than n greater ones are at most n
LEMMA LatestAreFew ==
    ASSUME NEW S \in SUBSET Nat, IsFiniteSet(S), NEW n \in Nat,
           NEW latest \in SUBSET S,
           \A x \in latest : Cardinality({y \in S : y > x}) < n
    PROVE  IsFiniteSet(latest) /\ Cardinality(latest) <= n
<1> DEFINE later(x) == {y \in S : y > x}
<1>0. \A x \in latest : Cardinality(later(x)) < n
  OBVIOUS
<1>1. IsFiniteSet(latest) /\ Cardinality(latest) \in Nat
  BY FS_Subset, FS_CardinalityType
<1>2. CASE latest = {}
  <2>1. Cardinality(latest) = 0
    BY <1>2, FS_EmptySet
  <2> QED
    BY <1>1, <2>1
<1>3. CASE latest # {}
  <2>1. PICK x \in latest : \A y \in latest : x <= y
    BY <1>3, LeastNatural
  <2>2. IsFiniteSet(later(x)) /\ Cardinality(later(x)) \in Nat
        /\ Cardinality(later(x)) < n
    BY <1>0, <2>1, FS_Subset, FS_CardinalityType
  <2>3. latest \ {x} \subseteq later(x)
    <3>1. ASSUME NEW y \in latest, y # x PROVE y \in S /\ y > x
      <4>1. x \in Nat /\ y \in Nat /\ x <= y
        BY <2>1
      <4> QED
        BY <3>1, <4>1
    <3> QED
      BY <3>1
  <2>4. Cardinality(latest \ {x}) <= Cardinality(later(x))
    BY <2>2, <2>3, FS_Subset
  <2>5. Cardinality(latest \ {x}) = Cardinality(latest) - 1
    BY <1>1, <2>1, FS_RemoveElement
  <2> QED
    BY <1>1, <2>2, <2>4, <2>5
<1> QED
  BY <1>1, <1>2, <1>3

\* No message makes the requests of the later ones invalid: what a delivered
\* answer leaves in the log can go into any context, and the context is never
\* longer than a request may be.  MAX_CONTEXT_MESSAGES and the bound of
\* MediationRequest are two constants of the code, and the theorem needs the
\* first to be the smaller or the same.
THEOREM RequestsAreValid ==
    ASSUME ContextLimit <= RequestMax PROVE Spec => []RequestsStayValid
<1>1. ASSUME ContentTypes, ContentInv, NEW i \in DOMAIN log
      PROVE  RequestIsValid(i)
  <2>1. DOMAIN log = 1..Len(log) /\ Len(log) \in Nat
    BY <1>1, LenProperties DEF ContentTypes
  <2>2. Prior(i) \in SUBSET Nat /\ IsFiniteSet(Prior(i))
    <3>1. Prior(i) \subseteq 1..Len(log)
      BY <2>1 DEF Prior
    <3>2. IsFiniteSet(1..Len(log)) /\ 1..Len(log) \subseteq Nat
      BY <2>1, FS_Interval
    <3> QED
      BY <3>1, <3>2, FS_Subset
  <2>3. IsFiniteSet(Context(i)) /\ Cardinality(Context(i)) <= ContextLimit
    <3>1. /\ Context(i) \in SUBSET Prior(i)
          /\ \A j \in Context(i) :
                Cardinality({k \in Prior(i) : k > j}) < ContextLimit
      BY DEF Context
    <3> QED
      BY <2>2, <3>1, LatestAreFew, ContextAssumption
  <2>4. Cardinality(Context(i)) \in Nat
    BY <2>3, FS_CardinalityType
  <2>5. \A j \in Context(i) : ContextRowIsValid(j)
    BY <1>1, <2>1 DEF Context, Prior, ContentInv, EntryOK, ContextRowIsValid
  <2> QED
    BY <2>3, <2>4, <2>5, ContextAssumption DEF RequestIsValid
<1>2. ContentTypes /\ ContentInv => RequestsStayValid
  BY <1>1 DEF RequestsStayValid
<1> QED
  BY <1>2, ContentHolds, TypesHold, PTL

----------------------------------------------------------------------------
(* The language of a participant.  A change that asks for the language its *)
(* request has loaded writes nothing; what saves it is that the language   *)
(* can only have moved since by a change that this one does not replace.   *)

\* the changes that have loaded p
Started(p) == {u \in Updates : update[u].stage # "new" /\ update[u].of = p}

\* the changes that the language of p may be due to
Due(p) ==
    {y \in Answered(p) :
        /\ update[y].wants = language[p]
        /\ \A v \in Answered(p) : y \notin update[v].after}

AfterAnswered ==
    \A u \in Updates, p \in Participants :
        update[u].stage # "new" /\ update[u].of = p =>
            update[u].after \subseteq Answered(p)

\* the changes of one participant saw more and more answers
AfterGrows ==
    \A u, v \in Updates :
        update[u].stage # "new" /\ update[v].stage # "new"
        /\ update[u].of = update[v].of =>
            \/ update[u].after \subseteq update[v].after
            \/ update[v].after \subseteq update[u].after

LoadedOrDue ==
    \A u \in Updates, p \in Participants :
        update[u].stage = "authenticated" /\ update[u].of = p =>
            \/ update[u].loaded = language[p]
            \/ \E y \in Due(p) : y \notin update[u].after

SomeDue == \A p \in Participants : Answered(p) # {} => Due(p) # {}

LanguageInv == AfterAnswered /\ AfterGrows /\ LoadedOrDue /\ SomeDue

LEMMA AuthenticateKeeps ==
    ASSUME ContentTypes, LanguageInv, NEW u \in Updates, NEW p \in Participants,
           NEW l \in Languages, Authenticate(u, p, l)
    PROVE  LanguageInv'
<1> DEFINE new == [stage |-> "authenticated", of |-> p, wants |-> l,
                   loaded |-> language[p], after |-> Answered(p)]
<1>1. /\ update[u].stage = "new"
      /\ \A v \in Updates \ {u} : update'[v] = update[v]
      /\ language' = language
  BY DEF ContentTypes, Authenticate, Loaded
<1>2. update'[u] = new
  BY DEF ContentTypes, Authenticate, Loaded
<1>3. /\ update'[u].stage = "authenticated" /\ update'[u].of = p
      /\ update'[u].loaded = language[p] /\ update'[u].after = Answered(p)
  BY <1>2
<1>4. ASSUME NEW q \in Participants
      PROVE  /\ Answered(q)' = Answered(q)
             /\ \A v \in Answered(q) : update'[v] = update[v]
  BY <1>1, <1>3 DEF Answered
<1>5. ASSUME NEW q \in Participants
      PROVE  Due(q) \subseteq Due(q)'
  BY <1>1, <1>4 DEF Due
<1>6. AfterAnswered'
  <2> SUFFICES ASSUME NEW v \in Updates, NEW q \in Participants,
                      update'[v].stage # "new", update'[v].of = q
               PROVE  update'[v].after \subseteq Answered(q)'
    BY DEF AfterAnswered
  <2> QED
    BY <1>1, <1>3, <1>4 DEF AfterAnswered, LanguageInv
<1>7. AfterGrows'
  <2> SUFFICES ASSUME NEW v \in Updates, NEW w \in Updates,
                      update'[v].stage # "new", update'[w].stage # "new",
                      update'[v].of = update'[w].of
               PROVE  \/ update'[v].after \subseteq update'[w].after
                      \/ update'[w].after \subseteq update'[v].after
    BY DEF AfterGrows
  <2> QED
    BY <1>1, <1>3 DEF AfterGrows, AfterAnswered, LanguageInv
<1>8. LoadedOrDue'
  <2> SUFFICES ASSUME NEW v \in Updates, NEW q \in Participants,
                      update'[v].stage = "authenticated", update'[v].of = q
               PROVE  \/ update'[v].loaded = language'[q]
                      \/ \E y \in Due(q)' : y \notin update'[v].after
    BY DEF LoadedOrDue
  <2> QED
    BY <1>1, <1>3, <1>5 DEF LoadedOrDue, LanguageInv
<1>9. SomeDue'
  <2> SUFFICES ASSUME NEW q \in Participants, Answered(q)' # {}
               PROVE  Due(q)' # {}
    BY DEF SomeDue
  <2> QED
    BY <1>4, <1>5 DEF SomeDue, LanguageInv
<1> QED
  BY <1>6, <1>7, <1>8, <1>9 DEF LanguageInv

LEMMA UpdateKeeps ==
    ASSUME ContentTypes, LanguageInv, NEW u \in Updates, UpdateLanguage(u)
    PROVE  LanguageInv'
<1>1. update[u] \in Asked /\ update[u].stage = "authenticated"
  BY DEF ContentTypes, UpdateLanguage, NewUpdate, Asked
<1>2. PICK p \in Participants : p = update[u].of
  BY <1>1 DEF Asked
<1>3. /\ update'[u] = [update[u] EXCEPT !.stage = "answered"]
      /\ \A v \in Updates \ {u} : update'[v] = update[v]
      /\ language'[p] = Flushed(u)
      /\ \A q \in Participants \ {p} : language'[q] = language[q]
  BY <1>1, <1>2 DEF ContentTypes, UpdateLanguage
<1>4. /\ update'[u].stage = "answered" /\ update'[u].of = p
      /\ update'[u].wants = update[u].wants
      /\ update'[u].loaded = update[u].loaded
      /\ update'[u].after = update[u].after
  BY <1>1, <1>2, <1>3 DEF Asked
<1>5. \A v \in Updates :
        /\ update'[v].of = update[v].of /\ update'[v].wants = update[v].wants
        /\ update'[v].loaded = update[v].loaded
        /\ update'[v].after = update[v].after
        /\ update'[v].stage = "authenticated" =>
              v # u /\ update[v].stage = "authenticated"
        /\ update'[v].stage # "new" <=> update[v].stage # "new"
        /\ v # u => update'[v].stage = update[v].stage
  BY <1>1, <1>2, <1>3, <1>4
<1>6. ASSUME NEW q \in Participants
      PROVE  /\ Started(q)' = Started(q)
             /\ q # p => Answered(q)' = Answered(q)
  BY <1>2, <1>4, <1>5 DEF Started, Answered
<1>7. /\ Answered(p)' = Answered(p) \cup {u}
      /\ u \notin Answered(p) /\ u \in Started(p)
  BY <1>1, <1>2, <1>4, <1>5 DEF Started, Answered
<1>8. \A v \in Started(p) : u \notin update[v].after
  BY <1>7 DEF Started, AfterAnswered, LanguageInv
<1>9. Answered(p) \subseteq Started(p)
  BY DEF Answered, Started
<1>10. ASSUME NEW q \in Participants, q # p PROVE Due(q)' = Due(q)
  BY <1>3, <1>5, <1>6, <1>10 DEF Due, Answered
<1>11. ASSUME NEW x \in Due(p), x \notin update[u].after,
              language'[p] = language[p]
       PROVE  x \in Due(p)'
  <2>1. x \in Answered(p)' /\ x \in Updates
    BY <1>7 DEF Due, Answered
  <2>2. \A v \in Answered(p)' : x \notin update'[v].after
    BY <1>5, <1>7, <1>11 DEF Due, Answered
  <2> QED
    BY <1>5, <1>11, <2>1, <2>2 DEF Due
<1>12. AfterAnswered'
  <2> SUFFICES ASSUME NEW v \in Updates, NEW q \in Participants,
                      update'[v].stage # "new", update'[v].of = q
               PROVE  update'[v].after \subseteq Answered(q)'
    BY DEF AfterAnswered
  <2> QED
    BY <1>5, <1>6, <1>7 DEF AfterAnswered, LanguageInv
<1>13. AfterGrows'
  <2> SUFFICES ASSUME NEW v \in Updates, NEW w \in Updates,
                      update'[v].stage # "new", update'[w].stage # "new",
                      update'[v].of = update'[w].of
               PROVE  \/ update'[v].after \subseteq update'[w].after
                      \/ update'[w].after \subseteq update'[v].after
    BY DEF AfterGrows
  <2> QED
    BY <1>5 DEF AfterGrows, LanguageInv
\* either the change itself is what the language is due to, or it wrote nothing
<1>14. CASE update[u].wants = language'[p]
  <2>1. u \in Due(p)'
    <3>1. \A v \in Answered(p)' : u \notin update'[v].after
      BY <1>5, <1>7, <1>8, <1>9 DEF Answered
    <3> QED
      BY <1>4, <1>6, <1>7, <1>14, <3>1 DEF Due
  <2>2. LoadedOrDue'
    <3> SUFFICES ASSUME NEW v \in Updates, NEW q \in Participants,
                        update'[v].stage = "authenticated", update'[v].of = q
                 PROVE  \/ update'[v].loaded = language'[q]
                        \/ \E y \in Due(q)' : y \notin update'[v].after
      BY DEF LoadedOrDue
    <3>1. CASE q = p
      <4>1. u \notin update'[v].after
        BY <1>5, <1>8, <3>1 DEF Started
      <4> QED
        BY <2>1, <3>1, <4>1
    <3>2. CASE q # p
      BY <1>3, <1>5, <1>10, <3>2 DEF LoadedOrDue, LanguageInv
    <3> QED
      BY <3>1, <3>2
  <2>3. SomeDue'
    <3> SUFFICES ASSUME NEW q \in Participants, Answered(q)' # {}
                 PROVE  Due(q)' # {}
      BY DEF SomeDue
    <3> QED
      BY <1>6, <1>10, <2>1 DEF SomeDue, LanguageInv
  <2> QED
    BY <1>12, <1>13, <2>2, <2>3 DEF LanguageInv
<1>15. CASE update[u].wants # language'[p]
  <2>1. /\ update[u].loaded # language[p]
        /\ language'[p] = language[p]
    BY <1>2, <1>3, <1>15 DEF Flushed
  <2>2. PICK y \in Due(p) : y \notin update[u].after
    BY <1>1, <1>2, <2>1 DEF LoadedOrDue, LanguageInv
  <2>3. LoadedOrDue'
    <3> SUFFICES ASSUME NEW v \in Updates, NEW q \in Participants,
                        update'[v].stage = "authenticated", update'[v].of = q
                 PROVE  \/ update'[v].loaded = language'[q]
                        \/ \E z \in Due(q)' : z \notin update'[v].after
      BY DEF LoadedOrDue
    <3>1. CASE q = p /\ update[v].loaded # language[p]
      <4>1. PICK x \in Due(p) : x \notin update[v].after
        BY <1>5, <3>1 DEF LoadedOrDue, LanguageInv
      <4>2. CASE update[u].after \subseteq update[v].after
        BY <1>5, <1>11, <2>1, <3>1, <4>1, <4>2
      <4>3. CASE update[v].after \subseteq update[u].after
        BY <1>5, <1>11, <2>1, <2>2, <3>1, <4>3
      <4> QED
        BY <1>1, <1>2, <1>5, <3>1, <4>2, <4>3 DEF AfterGrows, LanguageInv
    <3>2. CASE q # p
      BY <1>3, <1>5, <1>10, <3>2 DEF LoadedOrDue, LanguageInv
    <3> QED
      BY <1>5, <2>1, <3>1, <3>2
  <2>4. SomeDue'
    <3> SUFFICES ASSUME NEW q \in Participants, Answered(q)' # {}
                 PROVE  Due(q)' # {}
      BY DEF SomeDue
    <3>1. y \in Due(p)'
      BY <1>11, <2>1, <2>2
    <3> QED
      BY <1>6, <1>10, <3>1 DEF SomeDue, LanguageInv
  <2> QED
    BY <1>12, <1>13, <2>3, <2>4 DEF LanguageInv
<1> QED
  BY <1>14, <1>15

LEMMA LanguageInvHolds == Spec => []LanguageInv
<1>1. Init => LanguageInv
  BY DEF Init, SettingsInit, NewUpdate, LanguageInv, AfterAnswered, AfterGrows,
         LoadedOrDue, SomeDue, Answered
<1>2. ContentTypes /\ LanguageInv /\ [Next]_vars => LanguageInv'
  <2> SUFFICES ASSUME ContentTypes, LanguageInv, [Next]_vars PROVE LanguageInv'
    OBVIOUS
  <2>1. CASE UNCHANGED <<language, update>>
    BY <2>1 DEF LanguageInv, AfterAnswered, AfterGrows, LoadedOrDue, SomeDue,
                Due, Answered
  <2>2. ASSUME NEW u \in Updates, Authenticates(u) PROVE LanguageInv'
    BY <2>2, AuthenticateKeeps DEF Authenticates
  <2> QED
    BY <2>1, <2>2, SettingsSteps, UpdateKeeps DEF SettingsStep
<1> QED
  BY <1>1, <1>2, TypesHold, PTL DEF Spec

\* Whatever two devices of a participant ask for at the same time, and
\* whatever they had loaded, the language is what one of the latest answered
\* changes asked for: none is undone by a change that wrote nothing.
THEOREM LatestChangeWins == Spec => []LatestChangeCounts
<1>1. LanguageInv => LatestChangeCounts
  <2> SUFFICES ASSUME LanguageInv, NEW p \in Participants, Answered(p) # {}
               PROVE  \E u \in Answered(p) :
                         /\ language[p] = update[u].wants
                         /\ ~ReplacedBy(u, Answered(p))
    BY DEF LatestChangeCounts
  <2>1. PICK u \in Due(p) : TRUE
    BY DEF LanguageInv, SomeDue
  <2> QED
    BY <2>1 DEF Due, ReplacedBy
<1> QED
  BY <1>1, LanguageInvHolds, PTL

----------------------------------------------------------------------------
(* The language of an attempt: when it begins, the language of its         *)
(* recipient is due to an answered change, and neither the answered        *)
(* changes nor what they had seen changes afterwards.                      *)

\* u asked for language l, and none of these changes has replaced it
AsksFor(u, l, changes) == l = update[u].wants /\ ~ReplacedBy(u, changes)

AttemptOK(i) ==
    call[i].stage = "calling" =>
        /\ call[i].after \subseteq Answered(Recipient(i))
        /\ call[i].after # {} =>
              \E u \in Answered(Recipient(i)) :
                  AsksFor(u, call[i].language, call[i].after)

AttemptsOK == \A i \in 1..Len(log) : AttemptOK(i)

LEMMA AnsweredStays ==
    ASSUME ContentTypes, SettingsStep, NEW p
    PROVE  /\ Answered(p) \subseteq Answered(p)'
           /\ \A v \in Answered(p) : update'[v] = update[v]
<1>1. update \in [Updates -> {NewUpdate} \cup Asked]
  BY DEF ContentTypes
<1>2. ASSUME NEW u \in Updates, update[u].stage # "answered",
             \A v \in Updates \ {u} : update'[v] = update[v]
      PROVE  /\ Answered(p) \subseteq Answered(p)'
             /\ \A v \in Answered(p) : update'[v] = update[v]
  BY <1>2 DEF Answered
<1>3. ASSUME NEW u \in Updates, Authenticates(u) \/ UpdateLanguage(u)
      PROVE  /\ update[u].stage # "answered"
             /\ \A v \in Updates \ {u} : update'[v] = update[v]
  BY <1>1, <1>3 DEF Authenticates, Authenticate, UpdateLanguage
<1>4. CASE UNCHANGED <<language, update>>
  BY <1>4 DEF Answered
<1> QED
  BY <1>2, <1>3, <1>4 DEF SettingsStep

\* a request for a language keeps being what it was when the attempt began
LEMMA AsksForStays ==
    ASSUME ContentTypes, SettingsStep, NEW p, NEW changes \in SUBSET Answered(p),
           NEW u \in Answered(p), NEW l, AsksFor(u, l, changes)
    PROVE  u \in Answered(p)' /\ l = update'[u].wants
           /\ \A v \in changes : u \notin update'[v].after
BY AnsweredStays DEF AsksFor, ReplacedBy

LEMMA AttemptStep ==
    ASSUME ContentTypes, LanguageInv, SettingsStep,
           NEW i \in 1..Len(log), EntryStep(i), AttemptOK(i)
    PROVE  AttemptOK(i)'
<1>1. PICK p \in Participants : p = Recipient(i)
  BY Recipients
<1> SUFFICES ASSUME call'[i].stage = "calling"
             PROVE  /\ call'[i].after \subseteq Answered(p)'
                    /\ call'[i].after # {} =>
                          \E u \in Answered(p)' :
                              /\ call'[i].language = update'[u].wants
                              /\ \A v \in call'[i].after : u \notin update'[v].after
  <2>1. log[i] \in Entry
    BY ElementOfSeq DEF ContentTypes
  <2>2. log'[i].from = log[i].from
    BY <2>1 DEF EntryStep, Entry
  <2>3. Recipient(i)' = p
    BY <1>1, <2>2 DEF Recipient
  <2> QED
    BY <2>3 DEF AttemptOK, AsksFor, ReplacedBy, Answered
<1>2. CASE call'[i] = call[i]
  <2>1. /\ call[i].after \subseteq Answered(p)
        /\ call[i].after # {} =>
              \E u \in Answered(p) : AsksFor(u, call[i].language, call[i].after)
    BY <1>1, <1>2 DEF AttemptOK
  <2>2. Answered(p) \subseteq Answered(p)'
    BY AnsweredStays
  <2> QED
    BY <1>2, <2>1, <2>2, AsksForStays
<1>3. CASE call'[i] = [stage |-> "calling", language |-> Wanted(i),
                       after |-> Answered(Recipient(i))]
  <2>1. /\ call'[i].language = language[p]
        /\ call'[i].after = Answered(p)
    BY <1>1, <1>3 DEF Wanted
  <2>2. Answered(p) \subseteq Answered(p)'
    BY AnsweredStays
  <2>3. ASSUME Answered(p) # {}
        PROVE  \E u \in Answered(p) : AsksFor(u, language[p], Answered(p))
    <3>1. PICK u \in Due(p) : TRUE
      BY <1>1, <2>3 DEF LanguageInv, SomeDue
    <3> QED
      BY <3>1 DEF Due, AsksFor, ReplacedBy
  <2> QED
    BY <2>1, <2>2, <2>3, AsksForStays
<1>4. CASE call'[i].stage # "calling"
  BY <1>4
<1>5. \/ call'[i] = call[i]
      \/ call'[i].stage # "calling"
      \/ call'[i] = [stage |-> "calling", language |-> Wanted(i),
                     after |-> Answered(Recipient(i))]
  <2>1. NoCall.stage # "calling"
    BY DEF NoCall
  <2>2. \A nul : [stage |-> "broken", nul |-> nul].stage # "calling"
    OBVIOUS
  <2> QED
    BY <2>1, <2>2, Zenon DEF EntryStep
<1> QED
  BY <1>2, <1>3, <1>4, <1>5

LEMMA AttemptsStep ==
    ContentTypes /\ LanguageInv /\ AttemptsOK /\ [Next]_vars => AttemptsOK'
<1> SUFFICES ASSUME ContentTypes, LanguageInv, AttemptsOK, [Next]_vars,
                    NEW i \in 1..Len(log')
             PROVE  AttemptOK(i)'
  BY DEF AttemptsOK
<1>0. SettingsStep
  BY SettingsSteps
<1>1. /\ log \in Seq(Entry) /\ call \in Seq(Call) /\ Len(call) = Len(log)
      /\ DOMAIN log = 1..Len(log) /\ Len(log) \in Nat
  BY LenProperties DEF ContentTypes
<1>2. ASSUME NEW p \in Participants,
             log' = Append(log, [from |-> p, status |-> "processing",
                                 text |-> "none", language |-> "none"]),
             call' = Append(call, NoCall)
      PROVE  AttemptOK(i)'
  <2> DEFINE e == [from |-> p, status |-> "processing", text |-> "none",
                   language |-> "none"]
  <2>1. e \in Entry /\ NoCall \in Call
    BY DEF Entry, Texts, Call
  <2> HIDE DEF e
  <2>2. /\ Len(log') = Len(log) + 1
        /\ \A k \in 1..Len(log) : log'[k] = log[k] /\ call'[k] = call[k]
        /\ call'[Len(log) + 1] = NoCall
    BY <1>1, <1>2, <2>1, AppendProperties DEF e
  <2>3. CASE i \in 1..Len(log)
    <3>1. EntryStep(i) /\ AttemptOK(i)
      BY <2>2, <2>3 DEF EntryStep, AttemptsOK
    <3> QED
      BY <1>0, <2>3, <3>1, AttemptStep
  <2>4. CASE i = Len(log) + 1
    BY <2>2, <2>4 DEF AttemptOK, NoCall
  <2> QED
    BY <1>1, <2>2, <2>3, <2>4
<1>3. CASE /\ log' = [k \in DOMAIN log |-> log'[k]]
           /\ \A k \in DOMAIN log : EntryStep(k)
  <2>1. i \in 1..Len(log)
    <3>1. DOMAIN log' = 1..Len(log')
      BY TypeStep, LenProperties DEF ContentTypes
    <3> QED
      BY <1>1, <1>3, <3>1
  <2> QED
    BY <1>0, <1>1, <1>3, <2>1, AttemptStep DEF AttemptsOK
<1> QED
  BY <1>2, <1>3, LogSteps DEF LogStep

LEMMA AttemptsHold == Spec => []AttemptsOK
<1>1. Init => AttemptsOK
  BY DEF Init, AttemptsOK
<1> QED
  BY <1>1, AttemptsStep, TypesHold, LanguageInvHolds, PTL DEF Spec

\* Whenever an attempt begins and however the language changes while it runs,
\* what it delivers is in a language that was asked for and not replaced when
\* it began: a new language holds for every attempt after its answer.
THEOREM NewLanguageIsUsed == Spec => NewLanguageApplies
<1>1. ContentTypes /\ ContentInv /\ AttemptsOK /\ [Next]_vars =>
        [\A i \in DOMAIN log :
            log'[i].status = "delivered" /\ log[i].status # "delivered" =>
                \/ call[i].after = {}
                \/ \E u \in Answered(Recipient(i)) :
                      /\ log'[i].language = update[u].wants
                      /\ ~ReplacedBy(u, call[i].after)]_vars
  <2> SUFFICES ASSUME ContentTypes, ContentInv, AttemptsOK, [Next]_vars,
                      NEW i \in DOMAIN log, log'[i].status = "delivered",
                      log[i].status # "delivered", call[i].after # {}
               PROVE  \E u \in Answered(Recipient(i)) :
                         /\ log'[i].language = update[u].wants
                         /\ ~ReplacedBy(u, call[i].after)
    OBVIOUS
  <2>1. /\ i \in 1..Len(log) /\ log \in Seq(Entry)
        /\ CallOK(call[i]) /\ EntryOK(log[i]) /\ AttemptOK(i)
    BY LenProperties DEF ContentTypes, ContentInv, AttemptsOK
  <2>2. ASSUME NEW p \in Participants,
               log' = Append(log, [from |-> p, status |-> "processing",
                                   text |-> "none", language |-> "none"])
        PROVE  FALSE
    <3>1. [from |-> p, status |-> "processing", text |-> "none",
           language |-> "none"] \in Entry
      BY DEF Entry, Texts
    <3> QED
      BY <2>1, <2>2, <3>1, AppendProperties
  <2>3. EntryStep(i)
    BY <2>2, LogSteps DEF LogStep
  <2>4. call[i].stage = "calling" /\ log'[i].language = call[i].language
    BY <2>1, <2>3, EntryStepKeeps
  <2> QED
    BY <2>1, <2>4 DEF AttemptOK, AsksFor
<1> QED
  BY <1>1, ContentHolds, TypesHold, AttemptsHold, PTL DEF Spec, NewLanguageApplies

=============================================================================
