--------------------------- MODULE PolicyEvaluate ---------------------------
(***************************************************************************)
(* policy.Evaluate (internal/policy/evaluator.go): which users of an       *)
(* inbound the node serves, given the sessions it sees, the traffic that   *)
(* waits in the spool and the time.  A user is a record with at least the  *)
(* fields below, 0 or "" for a limit that is not set:                      *)
(*                                                                         *)
(*   id, account, enabled, expires, quota, used, ipLimit, deviceLimit      *)
(*                                                                         *)
(* view is what sync hands over for the inbound: [now, ips : id -> number  *)
(* of addresses, pending : id -> units in the spool].  Inbounds are judged *)
(* one by one.                                                             *)
(***************************************************************************)
EXTENDS Integers, Sequences, FiniteSets

Expired(u, view)   == u.expires > 0 /\ view.now >= u.expires
OverQuota(u, view) == u.quota > 0 /\ u.used + view.pending[u.id] >= u.quota
TooManyIPs(u, mode, view) ==
    u.ipLimit > 0 /\ mode # "off" /\ view.ips[u.id] > u.ipLimit

\* The first loop: the first reason there is.
OwnReason(u, mode, view) ==
    IF ~u.enabled THEN "disabled"
    ELSE IF Expired(u, view) THEN "expired"
    ELSE IF OverQuota(u, view) THEN "traffic_quota"
    ELSE IF TooManyIPs(u, mode, view) THEN "ip_limit"
    ELSE "none"

\* Credentials that are left, by account, in the order of the state.
Left(users, mode, view) ==
    {j \in DOMAIN users : OwnReason(users[j], mode, view) = "none"}

OfAccount(users, mode, view, a) ==
    {j \in Left(users, mode, view) : users[j].account = a /\ a # ""}

\* limitByAccount: the strictest positive limit, 0 if there is none.
DeviceLimits(users, mode, view, a) ==
    {users[j].deviceLimit : j \in OfAccount(users, mode, view, a)} \ {0}

\* Mutant: the limit that comes last counts.
LimitOfLast(users, mode, view, a) ==
    LET js == {j \in OfAccount(users, mode, view, a) : users[j].deviceLimit > 0}
    IN IF js = {} THEN 0
       ELSE users[CHOOSE j \in js : \A k \in js : k <= j].deviceLimit

LimitByAccount(users, mode, view, a) ==
    LET limits == DeviceLimits(users, mode, view, a)
    IN IF limits = {} THEN 0 ELSE CHOOSE n \in limits : \A m \in limits : n <= m

\* activeByAccount when the second loop is at j
Active(users, mode, view, j) ==
    Cardinality({k \in OfAccount(users, mode, view, users[j].account) : k <= j})

Reason(users, mode, view, j) ==
    LET own == OwnReason(users[j], mode, view)
        limit == LimitByAccount(users, mode, view, users[j].account)
    IN IF own = "none" /\ limit > 0 /\ Active(users, mode, view, j) > limit
       THEN "device_limit" ELSE own

Evaluate(users, mode, view) ==
    [j \in DOMAIN users |->
        [users[j] EXCEPT !.enabled = Reason(users, mode, view, j) = "none"]]

\* However the limits of its credentials disagree and whatever else blocks
\* some of them, an account is served on no more credentials than any limit of
\* those that are left ("desired-state ordering cannot accidentally expand an
\* account's limit", Evaluate).
WithinEveryCap(users, mode, view) ==
    \A a : \A n \in DeviceLimits(users, mode, view, a) :
        Cardinality({j \in OfAccount(users, mode, view, a) :
                        Reason(users, mode, view, j) = "none"}) <= n
=============================================================================
