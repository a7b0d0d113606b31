-------------------------- MODULE MCDispatcherLimiter --------------------------
(* Values for model checking DispatcherLimiter.                              *)
EXTENDS DispatcherLimiter, TLC

CONSTANTS a, b, x, y

\* By symmetry the address of a is x, and that of b the same or another.
AnySource == (a :> {x}) @@ (b :> {x, y})

Unlimited     == NoPolicy
OneConnection == [NoPolicy EXCEPT !.limit = 1, !.gen = 1]
OneAddress    == [NoPolicy EXCEPT !.ips = 1]
Suspended     == [NoPolicy EXCEPT !.blocked = TRUE]

AllPolicies == {Unlimited, OneConnection, OneAddress, Suspended}

\* The core is started on an active node, the user has no limits yet.
MCInit == Init /\ files[1] = [mode |-> "active", entry |-> Unlimited]

MCFairSpec == MCInit /\ [][Next]_vars /\ Fairness
=============================================================================
