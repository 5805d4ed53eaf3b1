------------------------ MODULE LeaseTimingProperties ------------------------
(***************************************************************************)
(* What the validated settings are worth.                                  *)
(***************************************************************************)
EXTENDS LeaseTiming

Stages == {"idle", "claiming", "preparing", "calling", "finishing"}

\* every variable has its type, and a lease token is there exactly while the
\* job is leased
TypeOK ==
    /\ settings \in Settings
    /\ now \in Nat
    /\ job \in {"queued", "leased", "closed"}
    /\ owner \in Workers \cup {Nobody}
    /\ job = "leased" <=> owner # Nobody
    /\ expires \in Nat
    /\ attempt \in Workers \cup {Nobody}
    /\ started \in Nat
    /\ stage \in [Workers -> Stages]
    /\ tries \in [Workers -> Nat]
    /\ until \in [Workers -> Nat]
    /\ claimed \in [Workers -> Nat]
    /\ outside \in [Workers -> Nat]
    /\ inside \in [Workers -> Nat]

\* longer with the provider than one timeout, or slower than the margin,
\* from the reading of the clock before the claim on
Late(w) == inside[w] > settings.timeout \/ outside[w] > Margin

\* A lease is never lost by a worker that is in time: what it has done is
\* only dropped if the provider took longer than one timeout, or the rest of
\* the execution longer than the 5 seconds left for it.
DroppedOnlyIfLate == [][\A w \in Workers : Drop(w) => Late(w)]_vars

\* The provider is not called for a message while another worker still waits
\* for it, unless one of the calls is late.
OneCallUnlessLate ==
    \A v, w \in Workers :
        v # w /\ stage[v] = "calling" /\ stage[w] = "calling" => Late(v) \/ Late(w)

=============================================================================
