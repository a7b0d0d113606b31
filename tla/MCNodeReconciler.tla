--------------------------- MODULE MCNodeReconciler ---------------------------
(* Instances of NodeReconciler for TLC: the states a panel asks for, and   *)
(* the configurations that are refused.                                    *)
EXTENDS NodeReconciler, TLC

CONSTANTS u, v, c1, c2, n1, n2, n3

Ask(m, x, y, n) == [mode |-> m, users |-> u :> x @@ v :> y, net |-> n]

OfNet(n) == {c \in Conf : c.net = n}

\* A malformed outbound, which BuildConfig refuses.
Refused == OfNet(n2)

\* A malformed credential, applied hot, and a route the core does not know.
Rejected == {c \in Conf : \E w \in User : c.users[w] = c2} \cup OfNet(n2)

\* What run -test accepts and the core then exits on, a port that is taken.
ExitsAtStart == OfNet(n3)

\* A user deleted, one added, a credential rotated with a suspension, a
\* restart for a net that does not start, and one that is never built.
HotAndRestart == {Ask("active", c1, "absent", n1), Ask("active", "absent", c1, n1),
                  Ask("active", c2, "off", n1), Ask("active", c1, c1, n3),
                  Ask("active", "off", c1, n2)}

\* A deletion and a credential hot, a restart, a drain and maintenance.
AllModes == {Ask("active", c1, "absent", n1), Ask("active", c2, c1, n1),
             Ask("draining", c1, c1, n1), Ask("stopped", "off", c1, n2)}

\* A deletion hot, one that comes with a net the core rejects, a malformed
\* credential hot, and a net that does not start.
Deletions == {Ask("active", c1, c1, n1), Ask("active", c1, "absent", n1),
              Ask("active", "absent", c1, n2), Ask("active", c1, c2, n1),
              Ask("stopped", c1, c1, n3), Ask("active", c1, c1, n3)}
=============================================================================
