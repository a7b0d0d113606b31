------------------------------ MODULE HotPlan ------------------------------
(***************************************************************************)
(* The hot plan over whole inbounds: PlanRuntime and ApplyRuntime          *)
(* (internal/xray/runtime.go) between the state the agent persisted and    *)
(* the one policy.Evaluate leaves of the panel's, and the documents        *)
(* builder.go makes for a restart, an inbound and a user.                  *)
(*                                                                         *)
(* NodeReconciler has the files, the processes and their failures around   *)
(* one inbound; here nothing fails but what the plan itself asks of the    *)
(* core, which refuses an inbound whose tag it already has.                *)
(*                                                                         *)
(* A state is [inbounds : Seq(inbound), global], global being outbounds,   *)
(* routing and DNS; an inbound [id, tag, protocol, mode, settings, users], *)
(* where settings "nil" is no map and "empty" one without entries; a user  *)
(* has the fields of PolicyEvaluate and level, cred and route ("" if the   *)
(* panel gives no outbound_tag).                                           *)
(***************************************************************************)
EXTENDS PolicyEvaluate, Functions

CONSTANTS
    Desired,       \* states the panel may ask for
    Views,         \* what Evaluate may see
    None           \* no state was persisted yet

\* What the panel keeps by id has each once; the core itself refuses a tag
\* or an accounting name it has.
UserFields == {"id", "account", "enabled", "expires", "quota", "used", "ipLimit",
               "deviceLimit", "level", "cred", "route"}

StateOK(state) ==
    LET ins == state.inbounds
    IN /\ ins \in Seq(Range(ins))
       /\ \A i, j \in DOMAIN ins : ins[i].id = ins[j].id \/ ins[i].tag = ins[j].tag => i = j
       /\ \A in \in Range(ins) :
             /\ in.users \in Seq(Range(in.users))
             /\ \A u \in Range(in.users) :
                   UserFields \subseteq DOMAIN u /\ u.enabled \in BOOLEAN /\ u.deviceLimit \in Nat
             /\ \A j, k \in DOMAIN in.users : in.users[j].id = in.users[k].id => j = k

ASSUME DesiredAssumption == \A d \in Desired : StateOK(d)

VARIABLES
    asked, view,   \* history: what Evaluate was given by this sync
    prev,          \* the state file
    target,        \* state in sync
    core,          \* what the core runs
    ops,           \* the operations still to be done, each at its place
    pc,            \* "idle", "apply" or "persist"
    failed         \* history: an operation failed since the last restart

vars == <<asked, view, prev, target, core, ops, pc, failed>>

-----------------------------------------------------------------------------
(* builder.go                                                              *)

Manages(protocol) == protocol \in {"vless", "wireguard"}

EnabledUsers(in) == {u \in Range(in.users) : u.enabled}

\* AccountingEmail is <<user, inbound>>.
Client(in, u) == [email |-> <<u.id, in.id>>, level |-> u.level, cred |-> u.cred]

Clients(in) ==
    {Client(in, u) : u \in {w \in EnabledUsers(in) : Manages(in.protocol)}}

Document(in, clients) ==
    [tag      |-> in.tag,
     protocol |-> in.protocol,
     settings |-> IF in.settings = "nil" THEN "empty" ELSE in.settings,
     clients  |-> clients]

BuildInbound(in) == Document(in, Clients(in))

Levels(state) ==
    {0} \union UNION {{u.level : u \in EnabledUsers(in)} : in \in Range(state.inbounds)}

Routes(state) ==
    UNION {{[email |-> <<u.id, in.id>>, to |-> u.route, on |-> u.enabled] :
              u \in {w \in Range(in.users) : w.route # ""}} :
           in \in Range(state.inbounds)}

Rules(state) == {r \in Routes(state) : r.on}

BuildConfig(state) ==
    [inbounds |-> {BuildInbound(in) : in \in Range(state.inbounds)},
     levels   |-> Levels(state),
     global   |-> state.global,
     rules    |-> Rules(state)]

-----------------------------------------------------------------------------
(* PlanRuntime                                                             *)

GlobalEqual(a, b) == a.global = b.global /\ Routes(a) = Routes(b)

ById(seq, id) == {x \in Range(seq) : x.id = id}
Has(seq, id)  == ById(seq, id) # {}
Of(seq, id)   == CHOOSE x \in Range(seq) : x.id = id

BaseEqual(a, b) ==
    /\ a.tag = b.tag /\ a.protocol = b.protocol
    /\ a.mode = b.mode /\ a.settings = b.settings

UserEqual(u, w) == u.level = w.level /\ u.cred = w.cred

\* Mutant: a disabled user counts as changed.
UsersEqualEnabled(a, b) ==
    /\ Len(a) = Len(b)
    /\ \A u \in Range(a) :
          \E w \in ById(b, u.id) : UserEqual(u, w) /\ u.enabled /\ w.enabled

UsersEqual(a, b) ==
    /\ Len(a) = Len(b)
    /\ \A u \in Range(a) :
          \E w \in ById(b, u.id) : UserEqual(u, w) /\ u.enabled = w.enabled

HotUsers(protocol) == protocol \in {"vless"}

\* Operations are done in the order of their places: <<0, k>> for the k-th
\* inbound of the previous state, <<i, k>> for the i-th of the desired one.
Op(at, kind, tag, in, user) == [at |-> at, kind |-> kind, tag |-> tag, in |-> in, user |-> user]
Removal(at, in)          == Op(at, "remove_inbound", in.tag, in, None)
Addition(at, in)         == Op(at, "add_inbound", in.tag, in, None)
Replacement(at, old, in) == Op(at, "replace_inbound", old.tag, in, None)

Removed(user, new) ==
    /\ user.enabled
    /\ ~\E w \in ById(new, user.id) : w.enabled /\ UserEqual(user, w)

\* Mutant: only a user that is new is added.
AddedIfNew(user, old) == user.enabled /\ ~\E w \in ById(old, user.id) : w.enabled

Added(user, old) ==
    /\ user.enabled
    /\ ~\E w \in ById(old, user.id) : w.enabled /\ UserEqual(user, w)

UserOps(i, old, next) ==
    {Op(<<i, k>>, "remove_user", old.tag, old, old.users[k]) :
        k \in {j \in DOMAIN old.users : Removed(old.users[j], next.users)}}
    \union
    {Op(<<i, Len(old.users) + k>>, "add_user", next.tag, next, next.users[k]) :
        k \in {j \in DOMAIN next.users : Added(next.users[j], old.users)}}

\* Mutant: changed users always replace the inbound.
InboundOpsReplace(i, previous, next) ==
    IF ~Has(previous, next.id) THEN {Addition(<<i, 0>>, next)}
    ELSE LET old == Of(previous, next.id)
         IN IF BaseEqual(old, next) /\ UsersEqual(old.users, next.users) THEN {}
            ELSE {Replacement(<<i, 0>>, old, next)}

InboundOps(i, previous, next) ==
    IF ~Has(previous, next.id) THEN {Addition(<<i, 0>>, next)}
    ELSE LET old == Of(previous, next.id)
         IN IF ~BaseEqual(old, next) THEN {Replacement(<<i, 0>>, old, next)}
            ELSE IF UsersEqual(old.users, next.users) THEN {}
            ELSE IF ~HotUsers(next.protocol) THEN {Replacement(<<i, 0>>, old, next)}
            ELSE UserOps(i, old, next)

RequiresRestart(a, b) == ~GlobalEqual(a, b) \/ ~(Levels(b) \subseteq Levels(a))

\* Mutant: the inbounds that are gone are removed at the end.
PlanRuntimeRemovesLast(a, b) ==
    {Removal(<<Len(b.inbounds) + 1, k>>, a.inbounds[k]) :
        k \in {j \in DOMAIN a.inbounds : ~Has(b.inbounds, a.inbounds[j].id)}}
    \union UNION {InboundOps(i, a.inbounds, b.inbounds[i]) : i \in DOMAIN b.inbounds}

PlanRuntime(a, b) ==
    {Removal(<<0, k>>, a.inbounds[k]) :
        k \in {j \in DOMAIN a.inbounds : ~Has(b.inbounds, a.inbounds[j].id)}}
    \union UNION {InboundOps(i, a.inbounds, b.inbounds[i]) : i \in DOMAIN b.inbounds}

-----------------------------------------------------------------------------
(* What the state file keeps: omitempty drops an empty map.                *)

With(in, settings, users) ==
    [id |-> in.id, tag |-> in.tag, protocol |-> in.protocol, mode |-> in.mode,
     settings |-> settings, users |-> users]

Kept(in) == With(in, IF in.settings = "empty" THEN "nil" ELSE in.settings, in.users)

RoundTrip(state) ==
    [inbounds |-> [i \in DOMAIN state.inbounds |-> Kept(state.inbounds[i])],
     global   |-> state.global]

Evaluated(in, v) == With(in, in.settings, Evaluate(in.users, in.mode, v))

EvaluateState(state, v) ==
    [inbounds |-> [i \in DOMAIN state.inbounds |-> Evaluated(state.inbounds[i], v)],
     global   |-> state.global]

Init ==
    /\ asked = None /\ view = None
    /\ prev = None /\ target = None
    /\ core = BuildConfig([inbounds |-> <<>>, global |-> "none"])
    /\ ops = {} /\ pc = "idle" /\ failed = FALSE

\* DesiredState, Evaluate and PlanRuntime; a restart runs the whole
\* configuration.
Sync(d, v) ==
    /\ pc = "idle"
    /\ asked' = d /\ view' = v
    /\ target' = EvaluateState(d, v)
    /\ IF prev = None \/ RequiresRestart(prev, target')
       THEN pc' = "persist" /\ core' = BuildConfig(target') /\ ops' = {} /\ failed' = FALSE
       ELSE pc' = "apply" /\ ops' = PlanRuntime(prev, target') /\ UNCHANGED <<core, failed>>
    /\ UNCHANGED prev

Without(tag) == {b \in core.inbounds : b.tag # tag}
At(tag)      == {b \in core.inbounds : b.tag = tag}

Running(inbounds) == core' = [core EXCEPT !.inbounds = inbounds]

Before(p, q) == p[1] < q[1] \/ (p[1] = q[1] /\ p[2] < q[2])

Done(op) == ops' = ops \ {op} /\ pc' = pc /\ failed' = failed
Fails == ops' = {} /\ pc' = "persist" /\ failed' = TRUE /\ core' = core

RemoveInbound(op) ==
    /\ op.kind = "remove_inbound"
    /\ IF At(op.tag) # {} THEN Running(Without(op.tag)) /\ Done(op) ELSE Fails

AddInbound(op) ==
    /\ op.kind = "add_inbound"
    /\ IF At(op.in.tag) = {}
       THEN Running(core.inbounds \union {BuildInbound(op.in)}) /\ Done(op)
       ELSE Fails

\* The removal; the addition follows, a quarter of a second later.
ReplaceInbound(op) ==
    /\ op.kind = "replace_inbound"
    /\ IF At(op.tag) # {}
       THEN /\ Running(Without(op.tag))
            /\ ops' = (ops \ {op}) \union {Addition(op.at, op.in)}
            /\ UNCHANGED <<pc, failed>>
       ELSE Fails

AlterInbound(tag, Change(_)) ==
    Running({IF b.tag = tag THEN [b EXCEPT !.clients = Change(@)] ELSE b : b \in core.inbounds})

\* The core refuses to add a user it has, or to an inbound that has none, and
\* to remove one it has not.
Knows(op) ==
    \E b \in At(op.tag) : \E c \in b.clients : c.email = <<op.user.id, op.in.id>>

AddUser(op) ==
    /\ op.kind = "add_user"
    /\ IF ~Knows(op) /\ \E b \in At(op.tag) : HotUsers(b.protocol)
       THEN AlterInbound(op.tag, LAMBDA cs : cs \union {Client(op.in, op.user)}) /\ Done(op)
       ELSE Fails

RemoveUser(op) ==
    /\ op.kind = "remove_user"
    /\ IF Knows(op)
       THEN AlterInbound(op.tag, LAMBDA cs : {c \in cs : c.email # <<op.user.id, op.in.id>>}) /\ Done(op)
       ELSE Fails

ApplyRuntime ==
    /\ pc = "apply"
    /\ \E op \in ops :
          /\ \A o \in ops \ {op} : Before(op.at, o.at)
          /\ RemoveInbound(op) \/ AddInbound(op) \/ ReplaceInbound(op) \/ AddUser(op) \/ RemoveUser(op)
    /\ UNCHANGED <<asked, view, prev, target>>

Applied ==
    /\ pc = "apply" /\ ops = {}
    /\ pc' = "persist"
    /\ UNCHANGED <<asked, view, prev, target, core, ops, failed>>

\* Mutant: the state is persisted while operations are left.
PersistAtOnce ==
    /\ pc \in {"apply", "persist"}
    /\ prev' = RoundTrip(target)
    /\ asked' = None /\ view' = None /\ target' = None
    /\ pc' = "idle"
    /\ UNCHANGED <<core, ops, failed>>

\* Also when the plan failed.
PersistState ==
    /\ pc = "persist"
    /\ prev' = RoundTrip(target)
    /\ asked' = None /\ view' = None /\ target' = None
    /\ pc' = "idle"
    /\ UNCHANGED <<core, ops, failed>>

Next ==
    \/ \E d \in Desired, v \in Views : Sync(d, v)
    \/ ApplyRuntime \/ Applied \/ PersistState

Spec == Init /\ [][Next]_vars
-----------------------------------------------------------------------------
(* Properties                                                              *)

TypeOK ==
    /\ pc \in {"idle", "apply", "persist"} /\ failed \in BOOLEAN
    /\ IF pc = "idle" THEN asked = None /\ view = None /\ target = None
       ELSE asked \in Desired /\ view \in Views /\ target = EvaluateState(asked, view)
    /\ ops # {} => pc = "apply"
    /\ \A b, c \in core.inbounds : b.tag = c.tag => b = c
    /\ \A b \in core.inbounds : b.clients # {} => Manages(b.protocol)

\* A plan that goes through leaves the core as a restart with the same
\* configuration would ("hot-reloaded and restart-loaded inbounds stay
\* identical", builder.go), but for the levels nobody is at any more; the
\* state file the plan starts from says what it runs.
PlanReaches ==
    pc = "persist" /\ ~failed =>
        /\ core.inbounds = BuildConfig(target).inbounds
        /\ core.rules = Rules(target)
        /\ core.global = target.global
        /\ Levels(target) \subseteq core.levels

\* An inbound takes over the tag another one has in the previous state.
Handover(a, b) ==
    \E in \in Range(b.inbounds), old \in Range(a.inbounds) :
        in.tag = old.tag /\ in.id # old.id /\ Has(b.inbounds, old.id)

\* The operations are in an order the core accepts: one after the other only
\* a tag that moves between inbounds that stay can be refused.
RefusedOnHandover ==
    [][failed' /\ ~failed => Handover(prev, target)]_vars

\* A user of whom nothing changes, in an inbound with hot users of which
\* nothing else changes, stays in the core throughout the plan.
Unchanged(in, u) ==
    \E old \in Range(prev.inbounds) :
        old.id = in.id /\ BaseEqual(old, in) /\ Client(in, u) \in {Client(old, w) : w \in EnabledUsers(old)}

Undisturbed ==
    pc = "apply" /\ ~failed =>
        \A in \in Range(target.inbounds) :
            HotUsers(in.protocol) =>
                \A u \in EnabledUsers(in) :
                    Unchanged(in, u) => \E b \in At(in.tag) : Client(in, u) \in b.clients

\* A sync that finds what the last one left asks nothing of the core, although
\* the state went through the file; unless a settings map is empty.
QuietPlan ==
    pc = "apply" /\ prev = RoundTrip(target) =>
        \A op \in ops : op.in.settings = "empty"

\* Of the credentials of an account that nothing else blocks, as many are
\* served as the strictest of their limits allows, whatever their order.
Served(in, a) == {u \in EnabledUsers(in) : u.account = a}

DeviceCap ==
    pc # "idle" =>
        \A i \in DOMAIN asked.inbounds :
            LET users == asked.inbounds[i].users
                mode  == asked.inbounds[i].mode
                free  == {u \in Range(users) : u.account # "" /\ OwnReason(u, mode, view) = "none"}
            IN \A a \in {u.account : u \in free} :
                 LET caps == {u.deviceLimit : u \in {w \in free : w.account = a}} \ {0}
                     have == Cardinality({u \in free : u.account = a})
                     got  == Cardinality(Served(target.inbounds[i], a))
                 IN /\ \A n \in caps : got <= n
                    /\ got = have \/ got \in caps
=============================================================================
