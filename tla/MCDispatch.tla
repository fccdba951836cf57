----------------------------- MODULE MCDispatch -----------------------------
(***************************************************************************)
(* TLC instance of Dispatch: two requests over a primary and a standby.    *)
(***************************************************************************)
EXTENDS Dispatch

MCKinds == {"timeout", "rate_limit"}

MCPolicy ==
    [p \in {"primary"} |->
        [threshold |-> 1, cooldown |-> 1, autoDisable |-> 2, mode |-> "consecutive",
         failurePercent |-> 50, minRequests |-> 5,
         allowedFails |-> [k \in MCKinds |-> Unlisted]]]

MCCandidates == [c \in 1 .. 2 |-> [provider |-> IF c = 1 THEN "primary" ELSE "standby",
                                   model |-> "m"]]

MCRoute == <<1, 2>>

Anything == [routed |-> TRUE, tagged |-> {1, 2}, granted |-> {1, 2}, fits |-> {1, 2},
             timed |-> TRUE]

\* An ordinary request with a deadline, and one for a model no route names that
\* is too long for the primary.
MCProfiles == {Anything, [Anything EXCEPT !.routed = FALSE, !.fits = {2}, !.timed = FALSE]}

MCRejections == {[limited |-> TRUE, kind |-> "rate_limit"]}
=============================================================================
