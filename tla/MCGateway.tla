----------------------------- MODULE MCGateway -----------------------------
(***************************************************************************)
(* TLC instance of Gateway: two requests at a time under each limit and    *)
(* option by itself, and the cache together with the ledger.               *)
(***************************************************************************)
EXTENDS Gateway

Unlimited == [quota |-> 0, daily |-> 0, rpm |-> 0, modelRpm |-> 0, tpm |-> 0, limit |-> 0,
              headers |-> FALSE, cached |-> FALSE, events |-> 0,
              arrivals |-> 3, days |-> 0, upsets |-> 0]

MCSetups ==
    {[Unlimited EXCEPT !.quota = 3, !.arrivals = 4, !.upsets = 1],
     [Unlimited EXCEPT !.daily = 2, !.arrivals = 4, !.days = 1, !.upsets = 1],
     [Unlimited EXCEPT !.rpm = 1, !.tpm = 1, !.upsets = 1],
     [Unlimited EXCEPT !.rpm = 2, !.modelRpm = 1],
     [Unlimited EXCEPT !.limit = 4, !.headers = TRUE, !.upsets = 1, !.arrivals = 2],
     [Unlimited EXCEPT !.limit = 1, !.cached = TRUE],
     [Unlimited EXCEPT !.limit = 1, !.cached = TRUE, !.arrivals = 2, !.upsets = 1],
     [Unlimited EXCEPT !.events = 4, !.arrivals = 1]}
=============================================================================
