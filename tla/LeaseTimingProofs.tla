-------------------------- MODULE LeaseTimingProofs --------------------------
(***************************************************************************)
(* Proofs about the lease and the clock, for any number of workers, any    *)
(* settings that are valid and any number of tries.                        *)
(***************************************************************************)
EXTENDS LeaseTimingProperties, TLAPS

\* The settings are numbers, and the lease outlasts the timeout and margin.
LEMMA SettingsFacts ==
    ASSUME NEW s \in Settings
    PROVE  /\ s.timeout \in Nat /\ s.lease \in Nat /\ s.stale \in Nat
           /\ s.lease > s.timeout + Margin
BY TimesAssumption DEF Settings, Valid

----------------------------------------------------------------------------
(* Type correctness *)

\* The row, the clock and every worker's books have their types in every
\* reachable state.
THEOREM TypeCorrect == Spec => []TypeOK
<1>1. Init => TypeOK
  BY DEF Init, TypeOK, Stages
<1>2. TypeOK /\ [Next]_vars => TypeOK'
  <2> SUFFICES ASSUME TypeOK, [Next]_vars PROVE TypeOK'
    OBVIOUS
  <2>0. settings.lease \in Nat /\ settings.timeout \in Nat
    BY SettingsFacts DEF TypeOK
  <2> USE <2>0, NobodyAssumption DEF row, time, GoTo, Rest, Stages
  <2>1. CASE Tick
    <3>1. outside' \in [Workers -> Nat] /\ inside' \in [Workers -> Nat]
      BY <2>1 DEF Tick, TypeOK
    <3> QED
      BY <2>1, <3>1 DEF Tick, TypeOK
  <2>2. ASSUME NEW w \in Workers, Recover(w) PROVE TypeOK'
    BY <2>2 DEF Recover, Release, TypeOK
  <2>3. ASSUME NEW w \in Workers, ReadClock(w) \/ Claim(w) \/ ClaimNothing(w)
        PROVE  TypeOK'
    BY <2>3 DEF ReadClock, Claim, ClaimNothing, TypeOK
  <2>4. ASSUME NEW w \in Workers, Prepare(w) PROVE TypeOK'
    BY <2>4 DEF Prepare, StartTry, TypeOK
  <2>5. ASSUME NEW w \in Workers, TryAgain(w) PROVE TypeOK'
    BY <2>5 DEF TryAgain, StartTry, TypeOK
  <2>6. ASSUME NEW w \in Workers, Return(w) PROVE TypeOK'
    BY <2>6 DEF Return, TypeOK
  <2>7. ASSUME NEW w \in Workers, Finish(w) PROVE TypeOK'
    BY <2>7 DEF Finish, TypeOK
  <2>8. ASSUME NEW w \in Workers, Drop(w) PROVE TypeOK'
    BY <2>8 DEF Drop, TypeOK
  <2>9. ASSUME NEW w \in Workers, Crash(w) PROVE TypeOK'
    BY <2>9 DEF Crash, TypeOK
  <2>10. CASE UNCHANGED vars
    BY <2>10 DEF vars, TypeOK
  <2> QED
    BY <2>1, <2>2, <2>3, <2>4, <2>5, <2>6, <2>7, <2>8, <2>9, <2>10
    DEF Next, Work
<1> QED
  BY <1>1, <1>2, PTL DEF Spec

----------------------------------------------------------------------------
(* What a worker that is at work knows of its lease *)

\* the time since the clock was read was spent inside or outside the provider
ClockAddsUp(w) ==
    stage[w] # "idle" => claimed[w] + outside[w] + inside[w] = now

HoldsIts(w) ==
    job = "leased" /\ owner = w /\ expires = claimed[w] + settings.lease

\* only a lease that has run out has been taken away
LeaseOrOver(w) ==
    stage[w] \notin {"idle", "claiming"} => HoldsIts(w) \/ claimed[w] + settings.lease <= now

\* an owner's attempt is there from its preparation to the end
AttemptFits(w) ==
    job = "leased" /\ owner = w =>
        /\ stage[w] = "preparing" => attempt = Nobody
        /\ stage[w] \in {"calling", "finishing"} => attempt = w

\* a worker starts its accounts anew
NothingSpent(w) == stage[w] = "idle" => outside[w] = 0 /\ inside[w] = 0

RowFits ==
    /\ job = "queued" => attempt = Nobody
    /\ attempt # Nobody => attempt = owner

Books ==
    /\ RowFits
    /\ \A w \in Workers :
          ClockAddsUp(w) /\ LeaseOrOver(w) /\ AttemptFits(w) /\ NothingSpent(w)

\* A step of the clock or of a worker keeps the books.
LEMMA BooksKept == TypeOK /\ Books /\ [Next]_vars => Books'
<1> SUFFICES ASSUME TypeOK, Books, [Next]_vars PROVE Books'
  OBVIOUS
<1>0. settings.lease \in Nat /\ settings.timeout \in Nat
  BY SettingsFacts DEF TypeOK
<1> USE <1>0, NobodyAssumption
    DEF row, time, GoTo, Rest, Stages, TypeOK, Books, RowFits, ClockAddsUp,
        HoldsIts, LeaseOrOver, AttemptFits, NothingSpent
<1>1. CASE Tick
  <2>1. RowFits' /\ \A w \in Workers : AttemptFits(w)'
    BY <1>1 DEF Tick
  <2>2. ASSUME NEW w \in Workers
        PROVE  ClockAddsUp(w)' /\ LeaseOrOver(w)' /\ NothingSpent(w)'
    BY <1>1, <2>2 DEF Tick
  <2> QED
    BY <2>1, <2>2
<1>2. ASSUME NEW w \in Workers, Recover(w) PROVE Books'
  BY <1>2 DEF Recover, LeaseIsOver, Release
<1>3. ASSUME NEW w \in Workers, ReadClock(w) \/ Claim(w) \/ ClaimNothing(w)
      PROVE  Books'
  <2>1. CASE ReadClock(w)
    BY <2>1 DEF ReadClock
  <2>2. CASE Claim(w)
    BY <2>2 DEF Claim
  <2>3. CASE ClaimNothing(w)
    BY <2>3 DEF ClaimNothing
  <2> QED
    BY <1>3, <2>1, <2>2, <2>3
<1>4. ASSUME NEW w \in Workers, Prepare(w) PROVE Books'
  BY <1>4 DEF Prepare, HasLease
<1>5. ASSUME NEW w \in Workers, TryAgain(w) PROVE Books'
  BY <1>5 DEF TryAgain
<1>6. ASSUME NEW w \in Workers, Return(w) PROVE Books'
  BY <1>6 DEF Return
<1>7. ASSUME NEW w \in Workers, Finish(w) PROVE Books'
  BY <1>7 DEF Finish, MayFinish, HasLease
<1>8. ASSUME NEW w \in Workers, Drop(w) PROVE Books'
  BY <1>8 DEF Drop
<1>9. ASSUME NEW w \in Workers, Crash(w) PROVE Books'
  BY <1>9 DEF Crash
<1>10. CASE UNCHANGED vars
  BY <1>10 DEF vars
<1> QED
  BY <1>1, <1>2, <1>3, <1>4, <1>5, <1>6, <1>7, <1>8, <1>9, <1>10
  DEF Next, Work

\* The books are kept in every reachable state.
THEOREM BooksAreKept == Spec => []Books
<1>1. Init => Books
  BY NobodyAssumption
     DEF Init, Books, RowFits, ClockAddsUp, LeaseOrOver, AttemptFits,
         NothingSpent
<1> QED
  BY <1>1, BooksKept, TypeCorrect, PTL DEF Spec

\* A worker whose lease has run out is late.
LEMMA OverIsLate ==
    ASSUME TypeOK, Books, NEW w \in Workers, stage[w] # "idle",
           claimed[w] + settings.lease <= now
    PROVE  Late(w)
<1>1. settings.lease \in Nat /\ settings.timeout \in Nat /\ Margin \in Nat
  BY SettingsFacts, TimesAssumption DEF TypeOK
<1>2. settings.lease > settings.timeout + Margin
  BY SettingsFacts DEF TypeOK
<1>3. claimed[w] \in Nat /\ outside[w] \in Nat /\ inside[w] \in Nat /\ now \in Nat
  BY DEF TypeOK
<1>4. claimed[w] + outside[w] + inside[w] = now
  BY DEF Books, ClockAddsUp
<1> QED
  BY <1>1, <1>2, <1>3, <1>4 DEF Late

\* Whatever valid settings there are: work is only dropped by a worker whose
\* call took longer than one timeout or that was slow for more than 5 seconds.
THEOREM DropsAreLate == Spec => DroppedOnlyIfLate
<1>1. TypeOK /\ Books /\ [Next]_vars =>
        [\A w \in Workers : Drop(w) => Late(w)]_vars
  <2> SUFFICES ASSUME TypeOK, Books, NEW w \in Workers, Drop(w)
               PROVE  Late(w)
    OBVIOUS
  <2>1. stage[w] \notin {"idle", "claiming"}
    BY DEF Drop
  <2>2. CASE HoldsIts(w)
    <3>1. expires <= now
      BY <2>2 DEF Drop, HoldsIts, HasLease, MayFinish, Books, AttemptFits,
                  TypeOK
    <3> QED
      BY <2>1, <2>2, <3>1, OverIsLate DEF HoldsIts
  <2>3. CASE ~HoldsIts(w)
    BY <2>1, <2>3, OverIsLate DEF Books, LeaseOrOver
  <2> QED
    BY <2>2, <2>3
<1> QED
  BY <1>1, TypeCorrect, BooksAreKept, PTL DEF Spec, DroppedOnlyIfLate

\* Two workers call the provider for one message at once only if one of the
\* calls is late, whatever valid settings there are.
THEOREM CallsAreAlone == Spec => []OneCallUnlessLate
<1>1. TypeOK /\ Books => OneCallUnlessLate
  <2> SUFFICES ASSUME TypeOK, Books, NEW v \in Workers, NEW w \in Workers,
                      v # w, stage[v] = "calling", stage[w] = "calling"
               PROVE  Late(v) \/ Late(w)
    BY DEF OneCallUnlessLate
  <2>1. ~HoldsIts(v) \/ ~HoldsIts(w)
    BY DEF HoldsIts
  <2> QED
    BY <2>1, OverIsLate DEF Books, LeaseOrOver
<1> QED
  BY <1>1, TypeCorrect, BooksAreKept, PTL

=============================================================================
