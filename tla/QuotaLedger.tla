---------------------------- MODULE QuotaLedger ----------------------------
(***************************************************************************)
(* internal/router/quota.go: what is left of one provider's tokens for one *)
(* model, by its own count in tumbling windows, by what the provider says  *)
(* in its headers, and by the balance probes (server/balance.go).          *)
(***************************************************************************)
EXTENDS Integers

CONSTANTS
    TokenWindow,    \* the length of a window
    ObservedFresh,  \* how long an observation is believed
    Unobserved

ASSUME LedgerAssumption == TokenWindow \in Nat \ {0} /\ ObservedFresh \in Nat \ {0}

IsQuota(q) ==
    /\ q.used \in Nat /\ q.left \in 0 .. TokenWindow
    /\ q.fresh \in 0 .. ObservedFresh /\ q.remaining \in Nat \cup {Unobserved}
    /\ q.low \in BOOLEAN

NewQuota == [used |-> 0, left |-> 0, remaining |-> Unobserved, fresh |-> 0, low |-> FALSE]

\* A variant that begins a window with the count of the last.
Rolled_KeepsUsed(q) == IF q.left > 0 THEN q ELSE [q EXCEPT !.left = TokenWindow]

\* rollWindow
Rolled(q) == IF q.left > 0 THEN q ELSE [q EXCEPT !.left = TokenWindow, !.used = 0]

Tracked(q, limit) == limit > 0 \/ q.remaining # Unobserved

Record(q, limit, tokens) ==
    IF tokens = 0 \/ ~Tracked(q, limit) THEN q
    ELSE [Rolled(q) EXCEPT !.used = @ + tokens]

ObserveUpstream(q, remaining) == [q EXCEPT !.remaining = remaining, !.fresh = ObservedFresh]

SetBalanceLow(q, low) == [q EXCEPT !.low = low]

\* A fresh observation goes before the count, the balance before both; what is not
\* known is there.  Reading the count rolls its window.
Exhausted(q, limit) ==
    IF q.low THEN TRUE
    ELSE IF q.fresh > 0 THEN q.remaining = 0
    ELSE limit > 0 /\ Rolled(q).used >= limit

Read(q, limit) == IF q.low \/ q.fresh > 0 \/ limit = 0 THEN q ELSE Rolled(q)

Elapsed(q) ==
    [q EXCEPT !.left = IF @ = 0 THEN 0 ELSE @ - 1, !.fresh = IF @ = 0 THEN 0 ELSE @ - 1]
=============================================================================
