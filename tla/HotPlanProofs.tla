---------------------------- MODULE HotPlanProofs ----------------------------
(***************************************************************************)
(* What the hot plan does to the core, for any states the panel may ask    *)
(* for and anything Evaluate may see.  The panel is assumed to have each   *)
(* id once, and each tag, which the core refuses to run twice.             *)
(*                                                                         *)
(* At any time the core runs what the operations that are left say it      *)
(* does: the lemmas show this of any plan P between states a and b and the *)
(* inbounds C of the core, and the theorems of the specification.          *)
(***************************************************************************)
EXTENDS HotPlan, PolicyEvaluateProofs, SequenceTheorems

-----------------------------------------------------------------------------
(* States                                                                  *)

LEMMA OfIs ==
    ASSUME NEW state, StateOK(state), NEW in \in Range(state.inbounds)
    PROVE  Has(state.inbounds, in.id) /\ Of(state.inbounds, in.id) = in
  <1>1. \A x \in Range(state.inbounds) : x.id = in.id => x = in
    BY DEF StateOK, Range
  <1>2. QED
    BY <1>1 DEF Has, ById, Of

LEMMA OfHas ==
    ASSUME NEW state, NEW id, Has(state.inbounds, id)
    PROVE  Of(state.inbounds, id) \in Range(state.inbounds) /\ Of(state.inbounds, id).id = id
  BY DEF Has, ById, Of

\* An inbound has one place in its state.
LEMMA InboundPlaces ==
    ASSUME NEW state, StateOK(state)
    PROVE  \A i, j \in DOMAIN state.inbounds :
              state.inbounds[i].id = state.inbounds[j].id => i = j
  BY DEF StateOK

\* A user has one place in its inbound.
LEMMA UserPlaces ==
    ASSUME NEW state, StateOK(state), NEW in \in Range(state.inbounds)
    PROVE  \A j, k \in DOMAIN in.users : in.users[j].id = in.users[k].id => j = k
  BY DEF StateOK

\* An inbound is known by its tag, and a user of it by the accounting name.
LEMMA Distinct ==
    ASSUME NEW state, StateOK(state)
    PROVE  /\ \A x, y \in Range(state.inbounds) : x.id = y.id \/ x.tag = y.tag => x = y
           /\ \A in \in Range(state.inbounds) :
                 \A u, w \in Range(in.users) : u.id = w.id => u = w
  <1>1. ASSUME NEW x \in Range(state.inbounds), NEW y \in Range(state.inbounds),
               x.id = y.id \/ x.tag = y.tag
        PROVE  x = y
    <2>1. PICK i \in DOMAIN state.inbounds : x = state.inbounds[i]
      BY DEF Range
    <2>2. PICK j \in DOMAIN state.inbounds : y = state.inbounds[j]
      BY DEF Range
    <2>3. i = j
      BY <1>1, <2>1, <2>2 DEF StateOK
    <2>4. QED
      BY <2>1, <2>2, <2>3
  <1>2. ASSUME NEW in \in Range(state.inbounds),
               NEW u \in Range(in.users), NEW w \in Range(in.users), u.id = w.id
        PROVE  u = w
    <2>1. PICK j \in DOMAIN in.users : u = in.users[j]
      BY DEF Range
    <2>2. PICK k \in DOMAIN in.users : w = in.users[k]
      BY DEF Range
    <2>3. j = k
      BY <1>2, <2>1, <2>2, UserPlaces
    <2>4. QED
      BY <2>1, <2>2, <2>3
  <1>3. QED
    BY <1>1, <1>2

LEMMA EmailIs ==
    ASSUME NEW in, NEW u
    PROVE  Client(in, u).email = <<u.id, in.id>>
  BY DEF Client

LEMMA SameClient ==
    ASSUME NEW a, NEW b, NEW u, NEW w
    PROVE  Client(a, u) = Client(b, w) <=> u.id = w.id /\ a.id = b.id /\ UserEqual(u, w)
  BY DEF Client, UserEqual

\* Lists of equal length that match in one direction match in the other.
LEMMA EqualBothWays ==
    ASSUME NEW a, a \in Seq(Range(a)), NEW b, b \in Seq(Range(b)), UsersEqual(a, b),
           \A j, k \in DOMAIN a : a[j].id = a[k].id => j = k
    PROVE  \A w \in Range(b) :
             \E u \in Range(a) : u.id = w.id /\ UserEqual(u, w) /\ u.enabled = w.enabled
  <1> DEFINE n == Len(a)
             Match(j, k) == /\ b[k].id = a[j].id /\ UserEqual(a[j], b[k])
                            /\ a[j].enabled = b[k].enabled
             f == [j \in 1..n |-> CHOOSE k \in 1..n : Match(j, k)]
  <1>1. n \in Nat /\ DOMAIN a = 1..n /\ DOMAIN b = 1..n
    BY DEF UsersEqual
  <1>2. \A j \in 1..n : \E k \in 1..n : Match(j, k)
    <2>1. SUFFICES ASSUME NEW j \in 1..n PROVE \E k \in 1..n : Match(j, k)
      OBVIOUS
    <2>2. a[j] \in Range(a)
      BY <1>1 DEF Range
    <2>3. PICK w \in ById(b, a[j].id) : UserEqual(a[j], w) /\ a[j].enabled = w.enabled
      BY <2>2 DEF UsersEqual
    <2>4. PICK k \in 1..n : w = b[k]
      BY <1>1 DEF ById, Range
    <2>5. QED
      BY <2>3, <2>4 DEF ById
  <1>3. \A j \in 1..n : f[j] \in 1..n /\ Match(j, f[j])
    BY <1>2
  <1>4. f \in Injection(1..n, 1..n)
    <2>1. f \in [1..n -> 1..n]
      BY <1>3
    <2>2. ASSUME NEW i \in 1..n, NEW j \in 1..n, f[i] = f[j] PROVE i = j
      <3> HIDE DEF f
      <3>1. b[f[i]].id = a[i].id /\ b[f[j]].id = a[j].id
        BY <1>3
      <3>2. a[i].id = a[j].id
        BY <2>2, <3>1
      <3>3. QED
        BY <1>1, <3>2
    <2>3. QED
      BY <2>1, <2>2 DEF Injection, IsInjective
  <1>5. f \in Surjection(1..n, 1..n)
    <2>1. IsFiniteSet(1..n)
      BY <1>1, FS_Interval
    <2>2. QED
      BY <1>4, <2>1, FS_Injection
  <1>6. ASSUME NEW w \in Range(b)
        PROVE  \E u \in Range(a) : u.id = w.id /\ UserEqual(u, w) /\ u.enabled = w.enabled
    <2>1. PICK k \in 1..n : w = b[k]
      BY <1>1 DEF Range
    <2>2. PICK j \in 1..n : f[j] = k
      BY <1>5 DEF Surjection
    <2>3. a[j] \in Range(a)
      BY <1>1 DEF Range
    <2>4. QED
      BY <1>3, <2>1, <2>2, <2>3
  <1>7. QED
    BY <1>6

-----------------------------------------------------------------------------
(* Plans: which operations there may be, and which there are               *)

Old(a, in) == Of(a.inbounds, in.id)

Replaces(a, in) ==
    /\ Has(a.inbounds, in.id)
    /\ \/ ~BaseEqual(Old(a, in), in)
       \/ ~UsersEqual(Old(a, in).users, in.users) /\ ~HotUsers(in.protocol)

Alters(a, in) ==
    /\ Has(a.inbounds, in.id)
    /\ BaseEqual(Old(a, in), in) /\ ~UsersEqual(Old(a, in).users, in.users)
    /\ HotUsers(in.protocol)

\* An operation between a and b, by its kind; i is the place of its inbound.
Removes(o, a, b) ==
    /\ o.kind = "remove_inbound"
    /\ \E k \in DOMAIN a.inbounds : o.in = a.inbounds[k] /\ o.at = <<0, k>>
    /\ ~Has(b.inbounds, o.in.id)
    /\ o.tag = o.in.tag /\ o.user = None

Adds(o, i, a, b) ==
    /\ o.kind = "add_inbound"
    /\ o.in = b.inbounds[i] /\ o.at = <<i, 0>>
    /\ ~Has(a.inbounds, o.in.id) \/ Replaces(a, o.in)
    /\ o.tag = o.in.tag /\ o.user = None

Swaps(o, i, a, b) ==
    /\ o.kind = "replace_inbound"
    /\ o.in = b.inbounds[i] /\ o.at = <<i, 0>>
    /\ Replaces(a, o.in)
    /\ o.tag = Old(a, o.in).tag /\ o.user = None

Joins(o, i, a, b) ==
    /\ o.kind = "add_user"
    /\ o.in = b.inbounds[i] /\ Alters(a, o.in)
    /\ \E k \in DOMAIN o.in.users :
          o.user = o.in.users[k] /\ o.at = <<i, Len(Old(a, o.in).users) + k>>
    /\ Added(o.user, Old(a, o.in).users)
    /\ o.tag = o.in.tag

Leaves(o, i, a, b) ==
    /\ o.kind = "remove_user"
    /\ o.in = Old(a, b.inbounds[i]) /\ Alters(a, b.inbounds[i])
    /\ \E k \in DOMAIN o.in.users : o.user = o.in.users[k] /\ o.at = <<i, k>>
    /\ Removed(o.user, b.inbounds[i].users)
    /\ o.tag = o.in.tag

Between(o, a, b) ==
    /\ o = Op(o.at, o.kind, o.tag, o.in, o.user)
    /\ \/ Removes(o, a, b)
       \/ \E i \in DOMAIN b.inbounds :
             Adds(o, i, a, b) \/ Swaps(o, i, a, b) \/ Joins(o, i, a, b) \/ Leaves(o, i, a, b)

\* What is left of a plan: an inbound is not both added and replaced, and a
\* user who changed is not added while his removal is left.
PlanOK(P, a, b) ==
    /\ \A o \in P : Between(o, a, b)
    /\ \A o, p \in P :
          o.kind = "add_inbound" /\ p.kind = "replace_inbound" => o.in.id # p.in.id
    /\ \A o \in P : o.kind = "remove_user" =>
          \A in \in Range(b.inbounds) : \A w \in EnabledUsers(in) :
             in.id = o.in.id /\ w.id = o.user.id =>
                \E p \in P : p.kind = "add_user" /\ p.in = in /\ p.user = w

LEMMA OpFields ==
    ASSUME NEW at, NEW kind, NEW tag, NEW in, NEW user
    PROVE  LET o == Op(at, kind, tag, in, user)
           IN o.at = at /\ o.kind = kind /\ o.tag = tag /\ o.in = in /\ o.user = user
  BY DEF Op

\* The operations on one inbound, from the definition of the plan.
LEMMA InboundIs ==
    ASSUME NEW i, NEW a, NEW in
    PROVE  /\ ~Has(a.inbounds, in.id) => InboundOps(i, a.inbounds, in) = {Addition(<<i, 0>>, in)}
           /\ Replaces(a, in) =>
                InboundOps(i, a.inbounds, in) = {Replacement(<<i, 0>>, Old(a, in), in)}
           /\ Alters(a, in) => InboundOps(i, a.inbounds, in) = UserOps(i, Old(a, in), in)
           /\ Has(a.inbounds, in.id) /\ ~Replaces(a, in) /\ ~Alters(a, in) =>
                /\ InboundOps(i, a.inbounds, in) = {}
                /\ BaseEqual(Old(a, in), in) /\ UsersEqual(Old(a, in).users, in.users)
  BY DEF InboundOps, Replaces, Alters, Old

LEMMA AlteredIs ==
    ASSUME NEW i, NEW a, NEW in, Alters(a, in)
    PROVE  InboundOps(i, a.inbounds, in) = UserOps(i, Old(a, in), in)
  BY DEF InboundOps, Alters, Old

LEMMA PlanIs ==
    ASSUME NEW a, NEW b, NEW o \in PlanRuntime(a, b)
    PROVE  Between(o, a, b)
  <1>1. CASE o \in {Removal(<<0, k>>, a.inbounds[k]) :
                      k \in {j \in DOMAIN a.inbounds : ~Has(b.inbounds, a.inbounds[j].id)}}
    <2>1. PICK k \in DOMAIN a.inbounds : /\ ~Has(b.inbounds, a.inbounds[k].id)
                                        /\ o = Removal(<<0, k>>, a.inbounds[k])
      BY <1>1
    <2>2. /\ o.at = <<0, k>> /\ o.kind = "remove_inbound" /\ o.tag = a.inbounds[k].tag
          /\ o.in = a.inbounds[k] /\ o.user = None
      BY <2>1, OpFields DEF Removal
    <2>3. Removes(o, a, b) /\ o = Op(o.at, o.kind, o.tag, o.in, o.user)
      BY <2>1, <2>2 DEF Removes, Removal
    <2>4. QED
      BY <2>3 DEF Between
  <1>2. ASSUME NEW i \in DOMAIN b.inbounds, o \in InboundOps(i, a.inbounds, b.inbounds[i])
        PROVE  Between(o, a, b)
    <2>0. PICK in : in = b.inbounds[i]
      OBVIOUS
    <2>i. o \in InboundOps(i, a.inbounds, in)
      BY <1>2, <2>0
    <2>1. CASE ~Has(a.inbounds, in.id)
      <3>1. InboundOps(i, a.inbounds, in) = {Addition(<<i, 0>>, in)}
        BY <2>1 DEF InboundOps
      <3>2. o = Addition(<<i, 0>>, in)
        BY <2>i, <3>1
      <3>3. /\ o.at = <<i, 0>> /\ o.kind = "add_inbound" /\ o.in = in /\ o.user = None
            /\ o.tag = in.tag
        BY <3>2, OpFields DEF Addition
      <3>4. Adds(o, i, a, b) /\ o = Op(o.at, o.kind, o.tag, o.in, o.user)
        BY <2>0, <2>1, <3>2, <3>3 DEF Adds, Addition
      <3>5. QED
        BY <3>4 DEF Between
    <2>2. CASE Replaces(a, in)
      <3>1. o = Replacement(<<i, 0>>, Old(a, in), in)
        BY <2>2, <2>i, InboundIs
      <3>2. /\ o.at = <<i, 0>> /\ o.kind = "replace_inbound" /\ o.in = in /\ o.user = None
            /\ o.tag = Old(a, in).tag
        BY <3>1, OpFields DEF Replacement
      <3>3. Swaps(o, i, a, b) /\ o = Op(o.at, o.kind, o.tag, o.in, o.user)
        BY <2>0, <2>2, <3>1, <3>2 DEF Swaps, Replacement
      <3>4. QED
        BY <3>3 DEF Between
    <2>3. CASE Alters(a, in)
      <3>0. PICK old : old = Old(a, in)
        OBVIOUS
      <3>1. o \in UserOps(i, old, in)
        BY <2>3, <2>i, <3>0, InboundIs
      <3>2. ASSUME NEW k \in DOMAIN old.users, Removed(old.users[k], in.users),
                   o = Op(<<i, k>>, "remove_user", old.tag, old, old.users[k])
            PROVE  Between(o, a, b)
        <4>1. /\ o.at = <<i, k>> /\ o.kind = "remove_user" /\ o.tag = old.tag
              /\ o.in = old /\ o.user = old.users[k]
          BY <3>2, OpFields
        <4>2. Leaves(o, i, a, b) /\ o = Op(o.at, o.kind, o.tag, o.in, o.user)
          BY <2>0, <2>3, <3>0, <3>2, <4>1 DEF Leaves
        <4>3. QED
          BY <4>2 DEF Between
      <3>3. ASSUME NEW k \in DOMAIN in.users, Added(in.users[k], old.users),
                   o = Op(<<i, Len(old.users) + k>>, "add_user", in.tag, in, in.users[k])
            PROVE  Between(o, a, b)
        <4>1. /\ o.at = <<i, Len(old.users) + k>> /\ o.kind = "add_user" /\ o.tag = in.tag
              /\ o.in = in /\ o.user = in.users[k]
          BY <3>3, OpFields
        <4>2. Joins(o, i, a, b) /\ o = Op(o.at, o.kind, o.tag, o.in, o.user)
          BY <2>0, <2>3, <3>0, <3>3, <4>1 DEF Joins
        <4>3. QED
          BY <4>2 DEF Between
      <3>4. \/ \E k \in DOMAIN old.users :
                 Removed(old.users[k], in.users) /\ o = Op(<<i, k>>, "remove_user", old.tag, old, old.users[k])
            \/ \E k \in DOMAIN in.users :
                 Added(in.users[k], old.users)
                   /\ o = Op(<<i, Len(old.users) + k>>, "add_user", in.tag, in, in.users[k])
        BY <3>1 DEF UserOps
      <3>5. QED
        BY <3>2, <3>3, <3>4
    <2>4. CASE Has(a.inbounds, in.id) /\ ~Replaces(a, in) /\ ~Alters(a, in)
      BY <2>4, <2>i, InboundIs
    <2>5. QED
      BY <2>1, <2>2, <2>3, <2>4
  <1>3. QED
    BY <1>1, <1>2 DEF PlanRuntime

\* An inbound of b has one place, and one before it in a.
LEMMA PlaceIs ==
    ASSUME NEW a, NEW b, StateOK(a), StateOK(b),
           NEW i \in DOMAIN b.inbounds, NEW j \in DOMAIN b.inbounds
    PROVE  /\ b.inbounds[i] \in Range(b.inbounds)
           /\ b.inbounds[i].id = b.inbounds[j].id => i = j
           /\ Has(a.inbounds, b.inbounds[i].id) =>
                /\ Old(a, b.inbounds[i]) \in Range(a.inbounds)
                /\ Old(a, b.inbounds[i]).id = b.inbounds[i].id
  BY OfHas DEF StateOK, Range, Old

\* Each operation is there once.
LEMMA Once ==
    ASSUME NEW a, NEW b, StateOK(a), StateOK(b),
           NEW o, Between(o, a, b), NEW p, Between(p, a, b),
           o.kind = p.kind, o.in.id = p.in.id, o.user = p.user
    PROVE  o = p
  <1> SUFFICES o.at = p.at /\ o.in = p.in /\ o.tag = p.tag
    BY DEF Between
  <1>1. CASE o.kind = "remove_inbound"
    <2>1. Removes(o, a, b) /\ Removes(p, a, b)
      BY <1>1 DEF Between, Adds, Swaps, Joins, Leaves
    <2>2. PICK k \in DOMAIN a.inbounds : o.in = a.inbounds[k] /\ o.at = <<0, k>>
      BY <2>1 DEF Removes
    <2>3. PICK l \in DOMAIN a.inbounds : p.in = a.inbounds[l] /\ p.at = <<0, l>>
      BY <2>1 DEF Removes
    <2>a. a.inbounds[k].id = a.inbounds[l].id
      BY <2>2, <2>3
    <2>4. k = l
      BY <2>a, InboundPlaces
    <2>5. QED
      BY <2>1, <2>2, <2>3, <2>4 DEF Removes
  <1>2. CASE o.kind # "remove_inbound"
    <2>1. PICK i \in DOMAIN b.inbounds :
             Adds(o, i, a, b) \/ Swaps(o, i, a, b) \/ Joins(o, i, a, b) \/ Leaves(o, i, a, b)
      BY <1>2 DEF Between, Removes
    <2>2. PICK j \in DOMAIN b.inbounds :
             Adds(p, j, a, b) \/ Swaps(p, j, a, b) \/ Joins(p, j, a, b) \/ Leaves(p, j, a, b)
      BY <1>2 DEF Between, Removes
    <2>3. o.in.id = b.inbounds[i].id /\ p.in.id = b.inbounds[j].id
      BY <2>1, <2>2, PlaceIs DEF Adds, Swaps, Joins, Leaves, Alters
    <2>a. b.inbounds[i].id = b.inbounds[j].id
      BY <2>3
    <2>4. i = j
      BY <2>a DEF StateOK
    <2>5. CASE Adds(o, i, a, b) \/ Swaps(o, i, a, b)
      BY <2>2, <2>4, <2>5 DEF Adds, Swaps, Joins, Leaves
    <2>6. CASE Joins(o, i, a, b)
      <3>1. Joins(p, i, a, b)
        BY <2>2, <2>4, <2>6 DEF Adds, Swaps, Joins, Leaves
      <3>2. o.in = b.inbounds[i] /\ p.in = o.in /\ o.in \in Range(b.inbounds) /\ o.tag = p.tag
        BY <2>6, <3>1, PlaceIs DEF Joins
      <3>3. PICK k \in DOMAIN o.in.users :
               o.user = o.in.users[k] /\ o.at = <<i, Len(Old(a, o.in).users) + k>>
        BY <2>6 DEF Joins
      <3>4. PICK l \in DOMAIN o.in.users :
               p.user = o.in.users[l] /\ p.at = <<i, Len(Old(a, o.in).users) + l>>
        BY <3>1, <3>2 DEF Joins
      <3>5. k = l
        BY <3>2, <3>3, <3>4, UserPlaces
      <3>6. QED
        BY <3>2, <3>3, <3>4, <3>5
    <2>7. CASE Leaves(o, i, a, b)
      <3>1. Leaves(p, i, a, b)
        BY <2>2, <2>4, <2>7 DEF Adds, Swaps, Joins, Leaves
      <3>2. p.in = o.in /\ o.in \in Range(a.inbounds) /\ o.tag = p.tag
        BY <2>7, <3>1, PlaceIs DEF Leaves, Alters
      <3>3. PICK k \in DOMAIN o.in.users : o.user = o.in.users[k] /\ o.at = <<i, k>>
        BY <2>7 DEF Leaves
      <3>4. PICK l \in DOMAIN o.in.users : p.user = o.in.users[l] /\ p.at = <<i, l>>
        BY <3>1, <3>2 DEF Leaves
      <3>5. k = l
        BY <3>2, <3>3, <3>4, UserPlaces
      <3>6. QED
        BY <3>2, <3>3, <3>4, <3>5
    <2>8. QED
      BY <2>1, <2>5, <2>6, <2>7
  <1>3. QED
    BY <1>1, <1>2

\* What the kind of an operation says of it.
LEMMA KindIs ==
    ASSUME NEW a, NEW b, StateOK(a), StateOK(b), NEW o, Between(o, a, b)
    PROVE  /\ o.kind = "remove_inbound" =>
                /\ o.in \in Range(a.inbounds) /\ ~Has(b.inbounds, o.in.id)
                /\ o.tag = o.in.tag /\ o.user = None
           /\ o.kind = "add_inbound" =>
                /\ o.in \in Range(b.inbounds)
                /\ ~Has(a.inbounds, o.in.id) \/ Replaces(a, o.in)
                /\ o.tag = o.in.tag /\ o.user = None
           /\ o.kind = "replace_inbound" =>
                /\ o.in \in Range(b.inbounds) /\ Replaces(a, o.in)
                /\ o.tag = Old(a, o.in).tag /\ o.user = None
           /\ o.kind = "add_user" =>
                /\ o.in \in Range(b.inbounds) /\ Alters(a, o.in) /\ o.tag = o.in.tag
                /\ o.user \in Range(o.in.users) /\ Added(o.user, Old(a, o.in).users)
           /\ o.kind = "remove_user" =>
                \E in \in Range(b.inbounds) :
                   /\ o.in = Old(a, in) /\ o.in.id = in.id /\ Alters(a, in) /\ o.tag = in.tag
                   /\ o.user \in Range(o.in.users) /\ Removed(o.user, in.users)
           /\ o.kind \in {"remove_inbound", "add_inbound", "replace_inbound", "add_user", "remove_user"}
  <1>1. CASE Removes(o, a, b)
    BY <1>1 DEF Removes, Range
  <1>2. CASE \E i \in DOMAIN b.inbounds : Adds(o, i, a, b)
    BY <1>2, PlaceIs DEF Adds
  <1>3. CASE \E i \in DOMAIN b.inbounds : Swaps(o, i, a, b)
    BY <1>3, PlaceIs DEF Swaps
  <1>4. CASE \E i \in DOMAIN b.inbounds : Joins(o, i, a, b)
    <2>1. PICK i \in DOMAIN b.inbounds : Joins(o, i, a, b)
      BY <1>4
    <2>2. o.in \in Range(b.inbounds) /\ o.user \in Range(o.in.users)
      BY <2>1, PlaceIs DEF Joins, Range
    <2>3. QED
      BY <2>1, <2>2 DEF Joins
  <1>5. CASE \E i \in DOMAIN b.inbounds : Leaves(o, i, a, b)
    <2>1. PICK i \in DOMAIN b.inbounds : Leaves(o, i, a, b)
      BY <1>5
    <2>2. PICK in : in = b.inbounds[i]
      OBVIOUS
    <2>3. in \in Range(b.inbounds) /\ o.in.id = in.id /\ o.user \in Range(o.in.users)
      BY <2>1, <2>2, PlaceIs DEF Leaves, Alters, Range
    <2>4. o.tag = in.tag
      BY <2>1, <2>2 DEF Leaves, Alters, BaseEqual
    <2>5. QED
      BY <2>1, <2>2, <2>3, <2>4 DEF Leaves
  <1>6. QED
    BY <1>1, <1>2, <1>3, <1>4, <1>5 DEF Between

-----------------------------------------------------------------------------
(* What the core runs, by what is left of the plan                         *)

Joining(P, in) ==
    {Client(o.in, o.user) : o \in {p \in P : p.kind = "add_user" /\ p.in = in}}

Leaving(P, in) ==
    {Client(o.in, o.user) : o \in {p \in P : p.kind = "remove_user" /\ p.in.id = in.id}}

Waits(P, kind, in) == \E o \in P : o.kind = kind /\ o.in = in

Ongoing(P, in) == Document(in, (Clients(in) \ Joining(P, in)) \union Leaving(P, in))

Shown(P, a, in) ==
    IF Waits(P, "add_inbound", in) THEN {}
    ELSE IF Waits(P, "replace_inbound", in) THEN {BuildInbound(Old(a, in))}
    ELSE {Ongoing(P, in)}

Gone(P) == {BuildInbound(o.in) : o \in {p \in P : p.kind = "remove_inbound"}}

\* C is what the core runs of inbounds.
Holding(C, P, a, b) == C = Gone(P) \union UNION {Shown(P, a, in) : in \in Range(b.inbounds)}

\* No two of them are at one tag.
Apart(P, a, b) ==
    /\ \A o \in P : o.kind = "remove_inbound" =>
          \A in \in Range(b.inbounds) : \A d \in Shown(P, a, in) : d.tag # o.tag
    /\ \A x, y \in Range(b.inbounds) :
          x # y => \A c \in Shown(P, a, x), d \in Shown(P, a, y) : c.tag # d.tag

\* Only the operations on an inbound count for it.
LEMMA Frame ==
    ASSUME NEW P, NEW R, NEW a, NEW in,
           \A o : o.in.id = in.id /\ o.kind # "remove_inbound" => (o \in P <=> o \in R)
    PROVE  Shown(P, a, in) = Shown(R, a, in)
  <1>1. \A o : o.in = in => o.in.id = in.id
    OBVIOUS
  <1>2. \A k \in {"add_inbound", "replace_inbound"} : Waits(P, k, in) <=> Waits(R, k, in)
    BY <1>1 DEF Waits
  <1>3. {p \in P : p.kind = "add_user" /\ p.in = in} = {p \in R : p.kind = "add_user" /\ p.in = in}
    BY <1>1
  <1>4. {p \in P : p.kind = "remove_user" /\ p.in.id = in.id}
           = {p \in R : p.kind = "remove_user" /\ p.in.id = in.id}
    OBVIOUS
  <1>5. Joining(P, in) = Joining(R, in) /\ Leaving(P, in) = Leaving(R, in)
    BY <1>3, <1>4 DEF Joining, Leaving
  <1>6. QED
    BY <1>2, <1>5 DEF Shown, Ongoing

LEMMA DocumentIs ==
    ASSUME NEW in, NEW clients
    PROVE  /\ Document(in, clients).tag = in.tag
           /\ Document(in, clients).protocol = in.protocol
           /\ Document(in, clients).clients = clients
           /\ BuildInbound(in).tag = in.tag
           /\ BuildInbound(in).clients = Clients(in)
           /\ BuildInbound(in).protocol = in.protocol
           /\ BuildInbound(in) = Document(in, Clients(in))
  BY DEF Document, BuildInbound

LEMMA AlteredDocument ==
    ASSUME NEW in, NEW cs, NEW more
    PROVE  [Document(in, cs) EXCEPT !.clients = more] = Document(in, more)
  BY DEF Document

\* What the core has at a tag.
LEMMA AtShown ==
    ASSUME NEW C, NEW P, NEW a, NEW b, StateOK(a), StateOK(b),
           PlanOK(P, a, b), Holding(C, P, a, b), Apart(P, a, b),
           NEW in \in Range(b.inbounds), NEW d \in Shown(P, a, in)
    PROVE  d \in C /\ \A x \in C : x.tag = d.tag => x = d
  <1>1. d \in C
    BY DEF Holding
  <1>2. ASSUME NEW x \in C, x.tag = d.tag PROVE x = d
    <2>1. CASE x \in Gone(P)
      <3>1. PICK o \in P : o.kind = "remove_inbound" /\ x = BuildInbound(o.in)
        BY <2>1 DEF Gone
      <3>2. o.tag = o.in.tag
        BY <3>1, KindIs DEF PlanOK
      <3>3. d.tag # o.tag
        BY <3>1 DEF Apart
      <3>4. x.tag = o.in.tag
        BY <3>1, DocumentIs
      <3>5. QED
        BY <1>2, <3>2, <3>3, <3>4
    <2>2. ASSUME NEW y \in Range(b.inbounds), x \in Shown(P, a, y) PROVE x = d
      <3>1. y = in
        BY <1>2, <2>2 DEF Apart
      <3>2. QED
        BY <2>2, <3>1 DEF Shown
    <2>3. x \in Gone(P) \/ \E y \in Range(b.inbounds) : x \in Shown(P, a, y)
      BY DEF Holding
    <2>4. QED
      BY <2>1, <2>2, <2>3
  <1>3. QED
    BY <1>1, <1>2

LEMMA AtGone ==
    ASSUME NEW C, NEW P, NEW a, NEW b, StateOK(a), StateOK(b),
           PlanOK(P, a, b), Holding(C, P, a, b), Apart(P, a, b),
           NEW op \in P, op.kind = "remove_inbound"
    PROVE  /\ BuildInbound(op.in) \in C /\ BuildInbound(op.in).tag = op.tag
           /\ \A x \in C : x.tag = op.tag => x = BuildInbound(op.in)
  <1>1. BuildInbound(op.in) \in C
    BY DEF Holding, Gone
  <1>2. op.tag = op.in.tag /\ op.in \in Range(a.inbounds)
    BY KindIs DEF PlanOK
  <1>3. ASSUME NEW x \in C, x.tag = op.tag PROVE x = BuildInbound(op.in)
    <2>1. CASE x \in Gone(P)
      <3>1. PICK o \in P : o.kind = "remove_inbound" /\ x = BuildInbound(o.in)
        BY <2>1 DEF Gone
      <3>2. o.in \in Range(a.inbounds)
        BY <3>1, KindIs DEF PlanOK
      <3>3. o.in.tag = op.in.tag
        BY <1>2, <1>3, <3>1, DocumentIs
      <3>4. QED
        BY <1>2, <3>1, <3>2, <3>3, Distinct
    <2>2. x \notin UNION {Shown(P, a, in) : in \in Range(b.inbounds)}
      BY <1>3 DEF Apart
    <2>3. QED
      BY <2>1, <2>2 DEF Holding
  <1>4. QED
    BY <1>1, <1>2, <1>3, DocumentIs

\* What remains of a plan is one, if no addition of a user was taken from it.
LEMMA Remains ==
    ASSUME NEW a, NEW b, NEW P, PlanOK(P, a, b), NEW R \in SUBSET P,
           \A p \in P \ R : p.kind # "add_user"
    PROVE  PlanOK(R, a, b)
  <1>1. \A o \in R : Between(o, a, b)
    BY DEF PlanOK
  <1>2. \A o, p \in R : o.kind = "add_inbound" /\ p.kind = "replace_inbound" => o.in.id # p.in.id
    BY DEF PlanOK
  <1>3. ASSUME NEW o \in R, o.kind = "remove_user",
               NEW in \in Range(b.inbounds), NEW w \in EnabledUsers(in),
               in.id = o.in.id, w.id = o.user.id
        PROVE  \E p \in R : p.kind = "add_user" /\ p.in = in /\ p.user = w
    BY <1>3 DEF PlanOK
  <1>4. QED
    BY <1>1, <1>2, <1>3 DEF PlanOK

\* Operations of one inbound are those of one of b, or a removal.
LEMMA OfOne ==
    ASSUME NEW P, NEW a, NEW b, StateOK(a), StateOK(b), PlanOK(P, a, b), NEW o \in P
    PROVE  /\ o.kind = "remove_inbound" => \A in \in Range(b.inbounds) : in.id # o.in.id
           /\ o.kind \in {"add_inbound", "replace_inbound", "add_user"} =>
                \A in \in Range(b.inbounds) : in.id = o.in.id => in = o.in
  <1>1. Between(o, a, b)
    BY DEF PlanOK
  <1>2. ASSUME NEW in \in Range(b.inbounds) PROVE Has(b.inbounds, in.id)
    BY DEF Has, ById
  <1>3. QED
    BY <1>1, <1>2, KindIs, Distinct

-----------------------------------------------------------------------------
(* The steps of a plan                                                     *)

LEMMA RemoveInboundKeeps ==
    ASSUME NEW C, NEW P, NEW a, NEW b, StateOK(a), StateOK(b),
           PlanOK(P, a, b), Holding(C, P, a, b), Apart(P, a, b),
           NEW op \in P, op.kind = "remove_inbound"
    PROVE  /\ PlanOK(P \ {op}, a, b) /\ Apart(P \ {op}, a, b)
           /\ Holding({x \in C : x.tag # op.tag}, P \ {op}, a, b)
  <1>0. PICK R : R = P \ {op}
    OBVIOUS
  <1>1. PlanOK(R, a, b)
    BY <1>0, Remains
  <1>2. \A in \in Range(b.inbounds) : Shown(R, a, in) = Shown(P, a, in)
    <2>1. ASSUME NEW in \in Range(b.inbounds) PROVE Shown(R, a, in) = Shown(P, a, in)
      <3>1. in.id # op.in.id
        BY OfOne
      <3>2. \A o : o.in.id = in.id /\ o.kind # "remove_inbound" => (o \in R <=> o \in P)
        BY <1>0, <3>1
      <3>3. QED
        BY <3>2, Frame
    <2>2. QED
      BY <2>1
  <1>3. Apart(R, a, b)
    <2>1. ASSUME NEW o \in R, o.kind = "remove_inbound", NEW in \in Range(b.inbounds)
          PROVE  \A d \in Shown(R, a, in) : d.tag # o.tag
      <3>1. o \in P /\ Shown(R, a, in) = Shown(P, a, in)
        BY <1>0, <1>2
      <3>2. QED
        BY <2>1, <3>1 DEF Apart
    <2>2. ASSUME NEW x \in Range(b.inbounds), NEW y \in Range(b.inbounds), x # y
          PROVE  \A c \in Shown(R, a, x), d \in Shown(R, a, y) : c.tag # d.tag
      <3>1. Shown(R, a, x) = Shown(P, a, x) /\ Shown(R, a, y) = Shown(P, a, y)
        BY <1>2
      <3>2. QED
        BY <2>2, <3>1 DEF Apart
    <2>3. QED
      BY <2>1, <2>2 DEF Apart
  <1>4. ASSUME NEW x PROVE x \in Gone(R) <=> x \in Gone(P) /\ x.tag # op.tag
    <2>1. ASSUME x \in Gone(R) PROVE x \in Gone(P) /\ x.tag # op.tag
      <3>1. PICK o \in R : o.kind = "remove_inbound" /\ x = BuildInbound(o.in)
        BY <2>1 DEF Gone
      <3>2. o \in P /\ o # op
        BY <1>0, <3>1
      <3>3. /\ o.in \in Range(a.inbounds) /\ op.in \in Range(a.inbounds)
            /\ o.tag = o.in.tag /\ op.tag = op.in.tag /\ o.user = None /\ op.user = None
        BY <3>1, <3>2, KindIs DEF PlanOK
      <3>4. o.in.tag # op.in.tag
        <4>1. ASSUME o.in.tag = op.in.tag PROVE FALSE
          <5>1. o.in = op.in
            BY <3>3, <4>1, Distinct
          <5>2. o = op
            BY <3>1, <3>2, <3>3, <5>1, Once DEF PlanOK
          <5>3. QED
            BY <3>2, <5>2
        <4>2. QED
          BY <4>1
      <3>5. QED
        BY <3>1, <3>2, <3>3, <3>4, DocumentIs DEF Gone
    <2>2. ASSUME x \in Gone(P), x.tag # op.tag PROVE x \in Gone(R)
      <3>1. PICK o \in P : o.kind = "remove_inbound" /\ x = BuildInbound(o.in)
        BY <2>2 DEF Gone
      <3>2. o # op
        BY <2>2, <3>1, AtGone
      <3>3. QED
        BY <1>0, <3>1, <3>2 DEF Gone
    <2>3. QED
      BY <2>1, <2>2
  <1>5. \A in \in Range(b.inbounds) : \A d \in Shown(P, a, in) : d.tag # op.tag
    BY DEF Apart
  <1>6. Holding({x \in C : x.tag # op.tag}, R, a, b)
    <2>1. ASSUME NEW x
          PROVE  x \in C /\ x.tag # op.tag
                   <=> x \in Gone(R) \union UNION {Shown(R, a, in) : in \in Range(b.inbounds)}
      BY <1>2, <1>4, <1>5 DEF Holding
    <2>2. QED
      BY <2>1 DEF Holding
  <1>7. QED
    BY <1>0, <1>1, <1>3, <1>6

LEMMA AddInboundKeeps ==
    ASSUME NEW C, NEW P, NEW a, NEW b, StateOK(a), StateOK(b),
           PlanOK(P, a, b), Holding(C, P, a, b), Apart(P, a, b),
           NEW op \in P, op.kind = "add_inbound", \A x \in C : x.tag # op.in.tag
    PROVE  /\ PlanOK(P \ {op}, a, b) /\ Apart(P \ {op}, a, b)
           /\ Holding(C \union {BuildInbound(op.in)}, P \ {op}, a, b)
  <1>0. PICK R : R = P \ {op}
    OBVIOUS
  <1>a. PICK new : new = op.in
    OBVIOUS
  <1>1. PlanOK(R, a, b)
    BY <1>0, Remains
  <1>2. /\ new \in Range(b.inbounds) /\ op.user = None
        /\ ~Has(a.inbounds, new.id) \/ Replaces(a, new)
    BY <1>a, KindIs DEF PlanOK
  <1>3. ASSUME NEW in \in Range(b.inbounds), in # new
        PROVE  Shown(R, a, in) = Shown(P, a, in)
    <2>1. in.id # op.in.id
      BY <1>a, <1>3, OfOne
    <2>2. \A o : o.in.id = in.id /\ o.kind # "remove_inbound" => (o \in R <=> o \in P)
      BY <1>0, <2>1
    <2>3. QED
      BY <2>2, Frame
  <1>4. Shown(P, a, new) = {}
    BY <1>a DEF Shown, Waits
  <1>5. Shown(R, a, new) = {BuildInbound(new)}
    <2>1. ~Waits(R, "add_inbound", new)
      <3>1. ASSUME NEW o \in R, o.kind = "add_inbound", o.in = new PROVE FALSE
        <4>1. o \in P /\ o # op /\ o.user = None
          BY <1>0, <3>1, KindIs DEF PlanOK
        <4>2. QED
          BY <1>a, <1>2, <3>1, <4>1, Once DEF PlanOK
      <3>2. QED
        BY <3>1 DEF Waits
    <2>2. ~Waits(R, "replace_inbound", new)
      BY <1>0, <1>a DEF Waits, PlanOK
    <2>3. ~Alters(a, new)
      BY <1>2 DEF Alters, Replaces
    <2>4. Joining(R, new) = {}
      <3>1. ASSUME NEW o \in R, o.kind = "add_user", o.in = new PROVE FALSE
        BY <1>1, <2>3, <3>1, KindIs DEF PlanOK
      <3>2. QED
        BY <3>1 DEF Joining
    <2>5. Leaving(R, new) = {}
      <3>1. ASSUME NEW o \in R, o.kind = "remove_user", o.in.id = new.id PROVE FALSE
        <4>1. PICK in \in Range(b.inbounds) : o.in.id = in.id /\ Alters(a, in)
          BY <1>1, <3>1, KindIs DEF PlanOK
        <4>2. in = new
          BY <1>2, <3>1, <4>1, Distinct
        <4>3. QED
          BY <2>3, <4>1, <4>2
      <3>2. QED
        BY <3>1 DEF Leaving
    <2>6. Ongoing(R, new) = BuildInbound(new)
      BY <2>4, <2>5, DocumentIs DEF Ongoing
    <2>7. QED
      BY <2>1, <2>2, <2>6 DEF Shown
  <1>6. BuildInbound(new).tag = new.tag
    BY DocumentIs
  <1>7. \A in \in Range(b.inbounds) : Shown(P, a, in) \subseteq C
    BY DEF Holding
  <1>8. Gone(R) = Gone(P)
    BY <1>0 DEF Gone
  <1>9. Apart(R, a, b)
    <2>1. ASSUME NEW o \in R, o.kind = "remove_inbound",
                 NEW in \in Range(b.inbounds), NEW d \in Shown(R, a, in)
          PROVE  d.tag # o.tag
      <3>0. o \in P
        BY <1>0
      <3>1. CASE in = new
        <4>1. o.tag # new.tag
          BY <1>a, <2>1, <3>0, AtGone
        <4>2. QED
          BY <1>5, <1>6, <2>1, <3>1, <4>1
      <3>2. CASE in # new
        BY <1>3, <2>1, <3>0, <3>2 DEF Apart
      <3>3. QED
        BY <3>1, <3>2
    <2>2. ASSUME NEW x \in Range(b.inbounds), NEW y \in Range(b.inbounds), x # y,
                 NEW c \in Shown(R, a, x), NEW d \in Shown(R, a, y)
          PROVE  c.tag # d.tag
      <3>1. CASE x = new
        BY <1>a, <1>3, <1>5, <1>6, <1>7, <2>2, <3>1
      <3>2. CASE y = new
        BY <1>a, <1>3, <1>5, <1>6, <1>7, <2>2, <3>2
      <3>3. CASE x # new /\ y # new
        BY <1>3, <2>2, <3>3 DEF Apart
      <3>4. QED
        BY <3>1, <3>2, <3>3
    <2>3. QED
      BY <2>1, <2>2 DEF Apart
  <1>10. Holding(C \union {BuildInbound(new)}, R, a, b)
    <2>1. ASSUME NEW x
          PROVE  x \in UNION {Shown(R, a, in) : in \in Range(b.inbounds)}
                   <=> \/ x = BuildInbound(new)
                       \/ x \in UNION {Shown(P, a, in) : in \in Range(b.inbounds)}
      BY <1>2, <1>3, <1>4, <1>5
    <2>2. QED
      BY <1>8, <2>1 DEF Holding
  <1>11. QED
    BY <1>0, <1>a, <1>1, <1>9, <1>10

\* The second half of a replacement is an operation of the plan.
LEMMA SecondHalf ==
    ASSUME NEW a, NEW b, StateOK(a), StateOK(b), NEW op, Between(op, a, b),
           op.kind = "replace_inbound"
    PROVE  Between(Addition(op.at, op.in), a, b)
  <1>1. PICK next : next = Addition(op.at, op.in)
    OBVIOUS
  <1>2. /\ next.at = op.at /\ next.kind = "add_inbound" /\ next.in = op.in /\ next.user = None
        /\ next.tag = op.in.tag
    BY <1>1, OpFields DEF Addition
  <1>3. PICK i \in DOMAIN b.inbounds : Swaps(op, i, a, b)
    BY DEF Between, Removes, Adds, Joins, Leaves
  <1>4. Adds(next, i, a, b)
    BY <1>2, <1>3 DEF Swaps, Adds
  <1>5. next = Op(next.at, next.kind, next.tag, next.in, next.user)
    BY <1>1, <1>2 DEF Addition
  <1>6. QED
    BY <1>1, <1>4, <1>5 DEF Between

LEMMA ReplaceInboundKeeps ==
    ASSUME NEW C, NEW P, NEW a, NEW b, StateOK(a), StateOK(b),
           PlanOK(P, a, b), Holding(C, P, a, b), Apart(P, a, b),
           NEW op \in P, op.kind = "replace_inbound",
           NEW R, R = (P \ {op}) \union {Addition(op.at, op.in)}
    PROVE  PlanOK(R, a, b) /\ Apart(R, a, b) /\ Holding({x \in C : x.tag # op.tag}, R, a, b)
  <1>a. PICK new : new = op.in
    OBVIOUS
  <1>b. PICK next : next = Addition(op.at, new)
    OBVIOUS
  <1>1. /\ next.at = op.at /\ next.kind = "add_inbound" /\ next.in = new /\ next.user = None
        /\ next.tag = new.tag
    BY <1>b, OpFields DEF Addition
  <1>2. R = (P \ {op}) \union {next}
    BY <1>a, <1>b
  <1>3. /\ new \in Range(b.inbounds) /\ Replaces(a, new)
        /\ op.tag = Old(a, new).tag /\ op.user = None
    BY <1>a, KindIs DEF PlanOK
  <1>4. PlanOK(R, a, b)
    <2>1. Between(next, a, b)
      BY <1>a, <1>b, SecondHalf DEF PlanOK
    <2>2. \A o \in R : Between(o, a, b)
      BY <1>2, <2>1 DEF PlanOK
    <2>3. ASSUME NEW o \in R, NEW p \in R, o.kind = "add_inbound", p.kind = "replace_inbound"
          PROVE  o.in.id # p.in.id
      <3>1. p \in P /\ p # op
        BY <1>1, <1>2, <2>3
      <3>2. CASE o \in P
        BY <2>3, <3>1, <3>2 DEF PlanOK
      <3>3. CASE o = next
        <4>1. p.user = None
          BY <2>3, <3>1, KindIs DEF PlanOK
        <4>2. p.in.id # op.in.id
          BY <1>3, <2>3, <3>1, <4>1, Once DEF PlanOK
        <4>3. QED
          BY <1>a, <1>1, <3>3, <4>2
      <3>4. QED
        BY <1>2, <3>2, <3>3
    <2>4. ASSUME NEW o \in R, o.kind = "remove_user",
                 NEW in \in Range(b.inbounds), NEW w \in EnabledUsers(in),
                 in.id = o.in.id, w.id = o.user.id
          PROVE  \E p \in R : p.kind = "add_user" /\ p.in = in /\ p.user = w
      <3>1. o \in P
        BY <1>1, <1>2, <2>4
      <3>2. PICK p \in P : p.kind = "add_user" /\ p.in = in /\ p.user = w
        BY <2>4, <3>1 DEF PlanOK
      <3>3. QED
        BY <1>2, <3>2
    <2>5. QED
      BY <2>2, <2>3, <2>4 DEF PlanOK
  <1>5. ASSUME NEW in \in Range(b.inbounds), in # new
        PROVE  Shown(R, a, in) = Shown(P, a, in)
    <2>1. in.id # new.id
      BY <1>3, <1>5, Distinct
    <2>2. \A o : o.in.id = in.id /\ o.kind # "remove_inbound" => (o \in R <=> o \in P)
      BY <1>a, <1>1, <1>2, <2>1
    <2>3. QED
      BY <2>2, Frame
  <1>6. Shown(R, a, new) = {}
    BY <1>1, <1>2 DEF Shown, Waits
  <1>7. Shown(P, a, new) = {BuildInbound(Old(a, new))}
    <2>1. ~Waits(P, "add_inbound", new)
      BY <1>a DEF Waits, PlanOK
    <2>2. Waits(P, "replace_inbound", new)
      BY <1>a DEF Waits
    <2>3. QED
      BY <2>1, <2>2 DEF Shown
  <1>8. BuildInbound(Old(a, new)).tag = op.tag
    BY <1>3, DocumentIs
  <1>9. {o \in R : o.kind = "remove_inbound"} = {o \in P : o.kind = "remove_inbound"}
    BY <1>1, <1>2
  <1>10. Apart(R, a, b)
    <2>1. ASSUME NEW o \in R, o.kind = "remove_inbound",
                 NEW in \in Range(b.inbounds), NEW d \in Shown(R, a, in)
          PROVE  d.tag # o.tag
      BY <1>5, <1>6, <1>9, <2>1 DEF Apart
    <2>2. ASSUME NEW x \in Range(b.inbounds), NEW y \in Range(b.inbounds), x # y,
                 NEW c \in Shown(R, a, x), NEW d \in Shown(R, a, y)
          PROVE  c.tag # d.tag
      BY <1>5, <1>6, <2>2 DEF Apart
    <2>3. QED
      BY <2>1, <2>2 DEF Apart
  <1>11. Holding({x \in C : x.tag # op.tag}, R, a, b)
    <2>1. Gone(R) = Gone(P)
      BY <1>9 DEF Gone
    <2>2. ASSUME NEW x \in C, x.tag # op.tag
          PROVE  x \in Gone(R) \union UNION {Shown(R, a, in) : in \in Range(b.inbounds)}
      <3>1. CASE x \in Gone(P)
        BY <2>1, <3>1
      <3>2. ASSUME NEW in \in Range(b.inbounds), x \in Shown(P, a, in)
            PROVE  x \in UNION {Shown(R, a, y) : y \in Range(b.inbounds)}
        <4>1. in # new
          BY <1>7, <1>8, <2>2, <3>2
        <4>2. QED
          BY <1>5, <3>2, <4>1
      <3>3. x \in Gone(P) \/ \E in \in Range(b.inbounds) : x \in Shown(P, a, in)
        BY DEF Holding
      <3>4. QED
        BY <3>1, <3>2, <3>3
    <2>3. ASSUME NEW x \in Gone(R) PROVE x \in C /\ x.tag # op.tag
      <3>1. PICK o \in P : o.kind = "remove_inbound" /\ x = BuildInbound(o.in)
        BY <2>1, <2>3 DEF Gone
      <3>2. BuildInbound(Old(a, new)).tag # o.tag
        BY <1>3, <1>7, <3>1 DEF Apart
      <3>3. x \in C /\ x.tag = o.tag
        BY <3>1, AtGone
      <3>4. QED
        BY <1>8, <3>2, <3>3
    <2>4. ASSUME NEW in \in Range(b.inbounds), NEW x \in Shown(R, a, in)
          PROVE  x \in C /\ x.tag # op.tag
      <3>1. in # new
        BY <1>6, <2>4
      <3>2. x \in Shown(P, a, in)
        BY <1>5, <3>1, <2>4
      <3>3. x.tag # BuildInbound(Old(a, new)).tag
        BY <1>3, <1>7, <3>1, <3>2 DEF Apart
      <3>4. QED
        BY <1>8, <3>2, <3>3, AtShown
    <2>5. ASSUME NEW x
          PROVE  x \in {y \in C : y.tag # op.tag}
                   <=> x \in Gone(R) \union UNION {Shown(R, a, in) : in \in Range(b.inbounds)}
      BY <2>2, <2>3, <2>4
    <2>6. QED
      BY <2>5 DEF Holding
  <1>12. QED
    BY <1>4, <1>10, <1>11

Elsewhere(R, P, a, b, new) ==
    /\ \A o : o.kind = "remove_inbound" => (o \in R <=> o \in P)
    /\ \A in \in Range(b.inbounds) : in # new => Shown(R, a, in) = Shown(P, a, in)

Renewed(D, C, d) == \A x : x \in D <=> x = d \/ (x \in C /\ x.tag # d.tag)

\* A change of the users the core has at a tag.
LEMMA AlterKeeps ==
    ASSUME NEW C, NEW P, NEW a, NEW b, StateOK(a), StateOK(b),
           PlanOK(P, a, b), Holding(C, P, a, b), Apart(P, a, b),
           NEW R, NEW new \in Range(b.inbounds), Elsewhere(R, P, a, b, new),
           Shown(P, a, new) = {Ongoing(P, new)}, Shown(R, a, new) = {Ongoing(R, new)},
           NEW D, Renewed(D, C, Ongoing(R, new))
    PROVE  Apart(R, a, b) /\ Holding(D, R, a, b)
  <1>1. Ongoing(R, new).tag = new.tag /\ Ongoing(P, new).tag = new.tag
    BY DocumentIs DEF Ongoing
  <1>a. \A in \in Range(b.inbounds) : in # new => Shown(R, a, in) = Shown(P, a, in)
    BY DEF Elsewhere
  <1>b. {o \in R : o.kind = "remove_inbound"} = {o \in P : o.kind = "remove_inbound"}
    BY DEF Elsewhere
  <1>c. \A x : x \in D <=> (x \in C /\ x.tag # new.tag) \/ x = Ongoing(R, new)
    BY <1>1 DEF Renewed
  <1>2. Apart(R, a, b)
    <2>1. ASSUME NEW o \in R, o.kind = "remove_inbound",
                 NEW in \in Range(b.inbounds), NEW d \in Shown(R, a, in)
          PROVE  d.tag # o.tag
      <3>1. o \in P
        BY <1>b, <2>1
      <3>2. CASE in = new
        <4>1. Ongoing(P, new).tag # o.tag
          BY <2>1, <3>1 DEF Apart
        <4>2. QED
          BY <1>1, <3>2, <4>1
      <3>3. CASE in # new
        BY <1>a, <2>1, <3>1, <3>3 DEF Apart
      <3>4. QED
        BY <3>2, <3>3
    <2>2. ASSUME NEW x \in Range(b.inbounds), NEW y \in Range(b.inbounds), x # y,
                 NEW c \in Shown(R, a, x), NEW d \in Shown(R, a, y)
          PROVE  c.tag # d.tag
      <3>1. CASE x = new
        <4>1. Ongoing(P, new).tag # d.tag
          BY <1>a, <2>2, <3>1 DEF Apart
        <4>2. QED
          BY <1>1, <3>1, <4>1
      <3>2. CASE y = new
        <4>1. Ongoing(P, new).tag # c.tag
          BY <1>a, <2>2, <3>2 DEF Apart
        <4>2. QED
          BY <1>1, <3>2, <4>1
      <3>3. CASE x # new /\ y # new
        BY <1>a, <2>2, <3>3 DEF Apart
      <3>4. QED
        BY <3>1, <3>2, <3>3
    <2>3. QED
      BY <2>1, <2>2 DEF Apart
  <1>3. Gone(R) = Gone(P)
    BY <1>b DEF Gone
  <1>4. ASSUME NEW x \in D
        PROVE  x \in Gone(R) \union UNION {Shown(R, a, in) : in \in Range(b.inbounds)}
    <2>1. CASE x = Ongoing(R, new)
      BY <2>1
    <2>2. ASSUME x \in C, x.tag # new.tag, NEW in \in Range(b.inbounds), x \in Shown(P, a, in)
          PROVE  x \in Shown(R, a, in)
      <3>1. in # new
        BY <1>1, <2>2
      <3>2. QED
        BY <1>a, <2>2, <3>1
    <2>3. CASE x \in C /\ x.tag # new.tag
      <3>1. x \in Gone(P) \/ \E in \in Range(b.inbounds) : x \in Shown(P, a, in)
        BY <2>3 DEF Holding
      <3>2. QED
        BY <1>3, <2>2, <2>3, <3>1
    <2>4. QED
      BY <1>c, <2>1, <2>3
  <1>5. ASSUME NEW x \in Gone(R) PROVE x \in D
    <2>1. PICK o \in P : o.kind = "remove_inbound" /\ x = BuildInbound(o.in)
      BY <1>3 DEF Gone
    <2>2. Ongoing(P, new).tag # o.tag
      BY <2>1 DEF Apart
    <2>3. x \in C /\ x.tag = o.tag
      BY <2>1, AtGone
    <2>4. QED
      BY <1>1, <1>c, <2>2, <2>3
  <1>6. ASSUME NEW in \in Range(b.inbounds), NEW x \in Shown(R, a, in) PROVE x \in D
    <2>1. CASE in = new
      BY <1>c, <2>1
    <2>2. CASE in # new
      <3>1. x \in Shown(P, a, in)
        BY <1>a, <2>2
      <3>2. x.tag # Ongoing(P, new).tag
        BY <2>2, <3>1 DEF Apart
      <3>3. QED
        BY <1>1, <1>c, <3>1, <3>2, AtShown
    <2>3. QED
      BY <2>1, <2>2
  <1>7. Holding(D, R, a, b)
    <2>1. ASSUME NEW x
          PROVE  x \in D
                   <=> x \in Gone(R) \union UNION {Shown(R, a, in) : in \in Range(b.inbounds)}
      BY <1>4, <1>5, <1>6
    <2>2. QED
      BY <2>1 DEF Holding
  <1>8. QED
    BY <1>2, <1>7

\* An inbound whose users change is never taken out.
LEMMA AltersShown ==
    ASSUME NEW P, NEW a, NEW b, StateOK(a), StateOK(b), PlanOK(P, a, b),
           NEW in \in Range(b.inbounds), Alters(a, in)
    PROVE  Shown(P, a, in) = {Ongoing(P, in)}
  <1>1. Has(a.inbounds, in.id) /\ ~Replaces(a, in)
    BY DEF Alters, Replaces
  <1>2. ~Waits(P, "add_inbound", in) /\ ~Waits(P, "replace_inbound", in)
    BY <1>1, KindIs DEF Waits, PlanOK
  <1>3. QED
    BY <1>2 DEF Shown

\* Nobody is added who is to be removed before.
LEMMA AddUserKeeps ==
    ASSUME NEW C, NEW P, NEW a, NEW b, StateOK(a), StateOK(b),
           PlanOK(P, a, b), Holding(C, P, a, b), Apart(P, a, b),
           NEW op \in P, op.kind = "add_user",
           ~\E x \in C : x.tag = op.tag /\ \E c \in x.clients : c.email = <<op.user.id, op.in.id>>,
           NEW D, D = {IF x.tag = op.tag THEN [x EXCEPT !.clients = @ \union {Client(op.in, op.user)}]
                       ELSE x : x \in C}
    PROVE  PlanOK(P \ {op}, a, b) /\ Apart(P \ {op}, a, b) /\ Holding(D, P \ {op}, a, b)
  <1>0. PICK R : R = P \ {op}
    OBVIOUS
  <1>a. PICK new : new = op.in
    OBVIOUS
  <1>b. PICK u : u = op.user
    OBVIOUS
  <1>1. /\ new \in Range(b.inbounds) /\ Alters(a, new) /\ op.tag = new.tag
        /\ u \in Range(new.users) /\ Added(u, Old(a, new).users)
    BY <1>a, <1>b, KindIs DEF PlanOK
  <1>2. Shown(P, a, new) = {Ongoing(P, new)}
    BY <1>1, AltersShown
  <1>3. /\ Ongoing(P, new) \in C /\ Ongoing(P, new).tag = new.tag
        /\ \A x \in C : x.tag = new.tag => x = Ongoing(P, new)
    <2>1. Ongoing(P, new).tag = new.tag
      BY DocumentIs DEF Ongoing
    <2>2. QED
      BY <1>1, <1>2, <2>1, AtShown
  <1>4. ASSUME NEW p \in P, p.kind = "remove_user", p.in.id = new.id PROVE p.user.id # u.id
    <2>1. Client(p.in, p.user) \in Leaving(P, new)
      BY <1>4 DEF Leaving
    <2>2. Client(p.in, p.user) \in Ongoing(P, new).clients
      BY <2>1, DocumentIs DEF Ongoing
    <2>3. Client(p.in, p.user).email = <<p.user.id, new.id>>
      BY <1>4, EmailIs
    <2>4. QED
      BY <1>1, <1>3, <1>a, <1>b, <2>2, <2>3
  <1>5. PlanOK(R, a, b)
    <2>1. \A o \in R : Between(o, a, b)
      BY <1>0 DEF PlanOK
    <2>2. \A o, p \in R : o.kind = "add_inbound" /\ p.kind = "replace_inbound" => o.in.id # p.in.id
      BY <1>0 DEF PlanOK
    <2>3. ASSUME NEW o \in R, o.kind = "remove_user",
                 NEW in \in Range(b.inbounds), NEW w \in EnabledUsers(in),
                 in.id = o.in.id, w.id = o.user.id
          PROVE  \E p \in R : p.kind = "add_user" /\ p.in = in /\ p.user = w
      <3>1. PICK p \in P : p.kind = "add_user" /\ p.in = in /\ p.user = w
        BY <1>0, <2>3 DEF PlanOK
      <3>2. p # op
        BY <1>0, <1>4, <1>a, <1>b, <2>3, <3>1
      <3>3. QED
        BY <1>0, <3>1, <3>2
    <2>4. QED
      BY <2>1, <2>2, <2>3 DEF PlanOK
  <1>6. \A in \in Range(b.inbounds) : in # new => Shown(R, a, in) = Shown(P, a, in)
    <2>1. ASSUME NEW in \in Range(b.inbounds), in # new PROVE Shown(R, a, in) = Shown(P, a, in)
      <3>1. in.id # op.in.id
        BY <1>1, <1>a, <2>1, Distinct
      <3>2. \A o : o.in.id = in.id /\ o.kind # "remove_inbound" => (o \in R <=> o \in P)
        BY <1>0, <3>1
      <3>3. QED
        BY <3>2, Frame
    <2>2. QED
      BY <2>1
  <1>7. Shown(R, a, new) = {Ongoing(R, new)}
    BY <1>1, <1>5, AltersShown
  <1>8. Ongoing(R, new) = Document(new, Ongoing(P, new).clients \union {Client(new, u)})
    <2>1. Leaving(R, new) = Leaving(P, new)
      <3>1. {o \in R : o.kind = "remove_user" /\ o.in.id = new.id}
              = {o \in P : o.kind = "remove_user" /\ o.in.id = new.id}
        BY <1>0
      <3>2. QED
        BY <3>1 DEF Leaving
    <2>2. Client(new, u) \in Clients(new)
      BY <1>1 DEF Clients, Alters, HotUsers, Manages, EnabledUsers, Added
    <2>3. ASSUME NEW c PROVE c \in Joining(R, new) <=> c \in Joining(P, new) /\ c # Client(new, u)
      <3>1. ASSUME c \in Joining(R, new) PROVE c \in Joining(P, new) /\ c # Client(new, u)
        <4>1. PICK o \in R : o.kind = "add_user" /\ o.in = new /\ c = Client(o.in, o.user)
          BY <3>1 DEF Joining
        <4>2. o \in P /\ o # op
          BY <1>0, <4>1
        <4>3. o.user \in Range(new.users)
          BY <4>1, <4>2, KindIs DEF PlanOK
        <4>4. o.user # u
          BY <1>a, <1>b, <4>1, <4>2, Once DEF PlanOK
        <4>5. o.user.id # u.id
          BY <1>1, <4>3, <4>4, Distinct
        <4>6. c # Client(new, u)
          BY <4>1, <4>5, EmailIs
        <4>7. QED
          BY <4>1, <4>2, <4>6 DEF Joining
      <3>2. ASSUME c \in Joining(P, new), c # Client(new, u) PROVE c \in Joining(R, new)
        <4>1. PICK o \in P : o.kind = "add_user" /\ o.in = new /\ c = Client(o.in, o.user)
          BY <3>2 DEF Joining
        <4>2. o # op
          BY <1>a, <1>b, <3>2, <4>1
        <4>3. QED
          BY <1>0, <4>1, <4>2 DEF Joining
      <3>3. QED
        BY <3>1, <3>2
    <2>4. (Clients(new) \ Joining(R, new)) \union Leaving(R, new)
            = (Clients(new) \ Joining(P, new)) \union Leaving(P, new) \union {Client(new, u)}
      BY <2>1, <2>2, <2>3
    <2>5. Ongoing(P, new).clients = (Clients(new) \ Joining(P, new)) \union Leaving(P, new)
      BY DocumentIs DEF Ongoing
    <2>6. (Clients(new) \ Joining(R, new)) \union Leaving(R, new)
            = Ongoing(P, new).clients \union {Client(new, u)}
      BY <2>4, <2>5
    <2>7. QED
      BY <2>6 DEF Ongoing
  <1>9. [Ongoing(P, new) EXCEPT !.clients = @ \union {Client(new, u)}] = Ongoing(R, new)
    <2>1. PICK cs : Ongoing(P, new) = Document(new, cs)
      BY DEF Ongoing
    <2>2. PICK more : more = Ongoing(P, new).clients \union {Client(new, u)}
      OBVIOUS
    <2>3. [Ongoing(P, new) EXCEPT !.clients = more] = Document(new, more)
      BY <2>1, AlteredDocument
    <2>4. QED
      BY <1>8, <2>2, <2>3
  <1>10. Renewed(D, C, Ongoing(R, new))
    <2>1. Ongoing(R, new).tag = new.tag
      BY DocumentIs DEF Ongoing
    <2>2. \A x \in C : x.tag = op.tag =>
             [x EXCEPT !.clients = @ \union {Client(op.in, op.user)}] = Ongoing(R, new)
      BY <1>1, <1>3, <1>9, <1>a, <1>b
    <2>3. QED
      BY <1>1, <1>3, <2>1, <2>2 DEF Renewed
  <1>11. Elsewhere(R, P, a, b, new)
    BY <1>0, <1>6 DEF Elsewhere
  <1>12. Apart(R, a, b) /\ Holding(D, R, a, b)
    BY <1>1, <1>2, <1>7, <1>10, <1>11, AlterKeeps
  <1>13. QED
    BY <1>0, <1>5, <1>12

LEMMA RemoveUserKeeps ==
    ASSUME NEW C, NEW P, NEW a, NEW b, StateOK(a), StateOK(b),
           PlanOK(P, a, b), Holding(C, P, a, b), Apart(P, a, b),
           NEW op \in P, op.kind = "remove_user",
           NEW D, D = {IF x.tag = op.tag
                       THEN [x EXCEPT !.clients = {c \in @ : c.email # <<op.user.id, op.in.id>>}]
                       ELSE x : x \in C}
    PROVE  PlanOK(P \ {op}, a, b) /\ Apart(P \ {op}, a, b) /\ Holding(D, P \ {op}, a, b)
  <1>0. PICK R : R = P \ {op}
    OBVIOUS
  <1>b. PICK u : u = op.user
    OBVIOUS
  <1>1. PICK new \in Range(b.inbounds) :
           /\ op.in = Old(a, new) /\ op.in.id = new.id /\ Alters(a, new) /\ op.tag = new.tag
           /\ u \in Range(op.in.users) /\ Removed(u, new.users)
    BY <1>b, KindIs DEF PlanOK
  <1>2. Shown(P, a, new) = {Ongoing(P, new)}
    BY <1>1, AltersShown
  <1>3. /\ Ongoing(P, new) \in C /\ Ongoing(P, new).tag = new.tag
        /\ \A x \in C : x.tag = new.tag => x = Ongoing(P, new)
    <2>1. Ongoing(P, new).tag = new.tag
      BY DocumentIs DEF Ongoing
    <2>2. QED
      BY <1>1, <1>2, <2>1, AtShown
  <1>4. op.in \in Range(a.inbounds)
    BY <1>1, OfHas DEF Alters, Old
  <1>5. PlanOK(R, a, b)
    BY <1>0, Remains
  <1>6. \A in \in Range(b.inbounds) : in # new => Shown(R, a, in) = Shown(P, a, in)
    <2>1. ASSUME NEW in \in Range(b.inbounds), in # new PROVE Shown(R, a, in) = Shown(P, a, in)
      <3>1. in.id # op.in.id
        BY <1>1, <2>1, Distinct
      <3>2. \A o : o.in.id = in.id /\ o.kind # "remove_inbound" => (o \in R <=> o \in P)
        BY <1>0, <3>1
      <3>3. QED
        BY <3>2, Frame
    <2>2. QED
      BY <2>1
  <1>7. Shown(R, a, new) = {Ongoing(R, new)}
    BY <1>1, <1>5, AltersShown
  <1>8. Ongoing(R, new)
          = Document(new, {c \in Ongoing(P, new).clients : c.email # <<u.id, new.id>>})
    <2>1. Joining(R, new) = Joining(P, new)
      <3>1. {o \in R : o.kind = "add_user" /\ o.in = new} = {o \in P : o.kind = "add_user" /\ o.in = new}
        BY <1>0
      <3>2. QED
        BY <3>1 DEF Joining
    <2>2. ASSUME NEW c
          PROVE  c \in Leaving(R, new) <=> c \in Leaving(P, new) /\ c.email # <<u.id, new.id>>
      <3>1. ASSUME c \in Leaving(R, new)
            PROVE  c \in Leaving(P, new) /\ c.email # <<u.id, new.id>>
        <4>1. PICK o \in R : o.kind = "remove_user" /\ o.in.id = new.id /\ c = Client(o.in, o.user)
          BY <3>1 DEF Leaving
        <4>2. o \in P /\ o # op
          BY <1>0, <4>1
        <4>3. o.in \in Range(a.inbounds) /\ o.user \in Range(o.in.users)
          <5>1. PICK in \in Range(b.inbounds) : o.in = Old(a, in) /\ Alters(a, in)
                                                /\ o.user \in Range(o.in.users)
            BY <4>1, <4>2, KindIs DEF PlanOK
          <5>2. QED
            BY <5>1, OfHas DEF Alters, Old
        <4>4. o.in = op.in
          BY <1>1, <1>4, <4>1, <4>3, Distinct
        <4>5. o.user # u
          BY <1>b, <4>1, <4>2, <4>4, Once DEF PlanOK
        <4>6. o.user.id # u.id
          BY <1>1, <1>4, <4>3, <4>4, <4>5, Distinct
        <4>7. c.email # <<u.id, new.id>>
          BY <4>1, <4>6, EmailIs
        <4>8. QED
          BY <4>1, <4>2, <4>7 DEF Leaving
      <3>2. ASSUME c \in Leaving(P, new), c.email # <<u.id, new.id>> PROVE c \in Leaving(R, new)
        <4>1. PICK o \in P : o.kind = "remove_user" /\ o.in.id = new.id /\ c = Client(o.in, o.user)
          BY <3>2 DEF Leaving
        <4>2. o # op
          BY <1>1, <1>b, <3>2, <4>1, EmailIs
        <4>3. QED
          BY <1>0, <4>1, <4>2 DEF Leaving
      <3>3. QED
        BY <3>1, <3>2
    <2>3. ASSUME NEW c \in Clients(new) \ Joining(P, new) PROVE c.email # <<u.id, new.id>>
      <3>1. PICK w \in EnabledUsers(new) : c = Client(new, w)
        BY DEF Clients
      <3>2. CASE w.id = u.id
        <4>1. PICK p \in P : p.kind = "add_user" /\ p.in = new /\ p.user = w
          BY <1>1, <1>b, <3>2 DEF PlanOK
        <4>2. QED
          BY <2>3, <3>1, <4>1 DEF Joining
      <3>3. CASE w.id # u.id
        BY <3>1, <3>3, EmailIs
      <3>4. QED
        BY <3>2, <3>3
    <2>4. (Clients(new) \ Joining(R, new)) \union Leaving(R, new)
            = {c \in (Clients(new) \ Joining(P, new)) \union Leaving(P, new) :
                 c.email # <<u.id, new.id>>}
      BY <2>1, <2>2, <2>3
    <2>5. QED
      BY <2>4, DocumentIs DEF Ongoing
  <1>9. [Ongoing(P, new) EXCEPT !.clients = {c \in @ : c.email # <<u.id, new.id>>}] = Ongoing(R, new)
    <2>1. PICK cs : Ongoing(P, new) = Document(new, cs)
      BY DEF Ongoing
    <2>2. PICK more : more = {c \in Ongoing(P, new).clients : c.email # <<u.id, new.id>>}
      OBVIOUS
    <2>3. [Ongoing(P, new) EXCEPT !.clients = more] = Document(new, more)
      BY <2>1, AlteredDocument
    <2>4. QED
      BY <1>8, <2>2, <2>3
  <1>10. Renewed(D, C, Ongoing(R, new))
    <2>1. Ongoing(R, new).tag = new.tag
      BY DocumentIs DEF Ongoing
    <2>2. \A x \in C : x.tag = op.tag =>
             [x EXCEPT !.clients = {c \in @ : c.email # <<op.user.id, op.in.id>>}] = Ongoing(R, new)
      BY <1>1, <1>3, <1>9, <1>b
    <2>3. ASSUME NEW x \in D PROVE x = Ongoing(R, new) \/ (x \in C /\ x.tag # op.tag)
      <3>1. PICK y \in C :
               x = IF y.tag = op.tag
                   THEN [y EXCEPT !.clients = {c \in @ : c.email # <<op.user.id, op.in.id>>}]
                   ELSE y
        OBVIOUS
      <3>2. QED
        BY <2>2, <3>1
    <2>4. Ongoing(R, new) \in D
      <3>1. Ongoing(P, new) \in C /\ Ongoing(P, new).tag = op.tag
        BY <1>1, <1>3
      <3>2. QED
        BY <2>2, <3>1
    <2>5. ASSUME NEW x \in C, x.tag # op.tag PROVE x \in D
      BY <2>5
    <2>6. QED
      BY <1>1, <2>1, <2>3, <2>4, <2>5 DEF Renewed
  <1>11. Elsewhere(R, P, a, b, new)
    BY <1>0, <1>6 DEF Elsewhere
  <1>12. Apart(R, a, b) /\ Holding(D, R, a, b)
    BY <1>2, <1>7, <1>10, <1>11, AlterKeeps
  <1>13. QED
    BY <1>0, <1>5, <1>12

-----------------------------------------------------------------------------
(* The plan before its first step                                          *)

LEMMA UserOpsAre ==
    ASSUME NEW i, NEW old, NEW in, NEW o \in UserOps(i, old, in)
    PROVE  \/ /\ o.kind = "remove_user" /\ o.in = old
              /\ o.user \in Range(old.users) /\ Removed(o.user, in.users)
           \/ /\ o.kind = "add_user" /\ o.in = in
              /\ o.user \in Range(in.users) /\ Added(o.user, old.users)
  <1>1. ASSUME NEW k \in DOMAIN old.users, Removed(old.users[k], in.users),
               o = Op(<<i, k>>, "remove_user", old.tag, old, old.users[k])
        PROVE  /\ o.kind = "remove_user" /\ o.in = old
               /\ o.user \in Range(old.users) /\ Removed(o.user, in.users)
    BY <1>1, OpFields DEF Range
  <1>2. ASSUME NEW k \in DOMAIN in.users, Added(in.users[k], old.users),
               o = Op(<<i, Len(old.users) + k>>, "add_user", in.tag, in, in.users[k])
        PROVE  /\ o.kind = "add_user" /\ o.in = in
               /\ o.user \in Range(in.users) /\ Added(o.user, old.users)
    BY <1>2, OpFields DEF Range
  <1>3. \/ \E k \in DOMAIN old.users :
             Removed(old.users[k], in.users) /\ o = Op(<<i, k>>, "remove_user", old.tag, old, old.users[k])
        \/ \E k \in DOMAIN in.users :
             Added(in.users[k], old.users)
               /\ o = Op(<<i, Len(old.users) + k>>, "add_user", in.tag, in, in.users[k])
    BY DEF UserOps
  <1>4. QED
    BY <1>1, <1>2, <1>3

Contains(S, kind, in, user) == \E o \in S : o.kind = kind /\ o.in = in /\ o.user = user

LEMMA RemovedIn ==
    ASSUME NEW i, NEW old, NEW in, NEW u \in Range(old.users), Removed(u, in.users)
    PROVE  Contains(UserOps(i, old, in), "remove_user", old, u)
  <1>1. PICK k \in DOMAIN old.users : u = old.users[k]
    BY DEF Range
  <1>2. PICK o : o = Op(<<i, k>>, "remove_user", old.tag, old, old.users[k])
    OBVIOUS
  <1>3. o \in UserOps(i, old, in)
    BY <1>1, <1>2 DEF UserOps
  <1>4. QED
    BY <1>1, <1>2, <1>3, OpFields DEF Contains

LEMMA AddedIn ==
    ASSUME NEW i, NEW old, NEW in, NEW w \in Range(in.users), Added(w, old.users)
    PROVE  Contains(UserOps(i, old, in), "add_user", in, w)
  <1>1. PICK k \in DOMAIN in.users : w = in.users[k]
    BY DEF Range
  <1>2. PICK o : o = Op(<<i, Len(old.users) + k>>, "add_user", in.tag, in, in.users[k])
    OBVIOUS
  <1>3. o \in UserOps(i, old, in)
    BY <1>1, <1>2 DEF UserOps
  <1>4. QED
    BY <1>1, <1>2, <1>3, OpFields DEF Contains

\* The operations on an inbound in the plan are those its place has.
LEMMA Planned ==
    ASSUME NEW a, NEW b, StateOK(a), StateOK(b), NEW in \in Range(b.inbounds)
    PROVE  \E i \in DOMAIN b.inbounds :
              /\ in = b.inbounds[i]
              /\ InboundOps(i, a.inbounds, in) \subseteq PlanRuntime(a, b)
              /\ \A o \in PlanRuntime(a, b) :
                    o.kind # "remove_inbound" /\ o.in.id = in.id => o \in InboundOps(i, a.inbounds, in)
  <1>1. PICK i \in DOMAIN b.inbounds : in = b.inbounds[i]
    BY DEF Range
  <1>2. InboundOps(i, a.inbounds, in) \subseteq PlanRuntime(a, b)
    BY <1>1 DEF PlanRuntime
  <1>3. ASSUME NEW j \in DOMAIN b.inbounds, NEW o \in InboundOps(j, a.inbounds, b.inbounds[j])
        PROVE  o.in.id = b.inbounds[j].id
    <2>0. PICK x : x = b.inbounds[j]
      OBVIOUS
    <2>i. o \in InboundOps(j, a.inbounds, x)
      BY <1>3, <2>0
    <2>1. CASE ~Has(a.inbounds, x.id)
      <3>1. o = Addition(<<j, 0>>, x)
        BY <2>i, <2>1 DEF InboundOps
      <3>2. QED
        BY <2>0, <3>1, OpFields DEF Addition
    <2>2. CASE Replaces(a, x)
      <3>0. InboundOps(j, a.inbounds, x) = {Replacement(<<j, 0>>, Old(a, x), x)}
        BY <2>2, InboundIs
      <3>1. o = Replacement(<<j, 0>>, Old(a, x), x)
        BY <2>i, <3>0
      <3>2. QED
        BY <2>0, <3>1, OpFields DEF Replacement
    <2>3. CASE Alters(a, x)
      <3>0. InboundOps(j, a.inbounds, x) = UserOps(j, Old(a, x), x)
        BY <2>3, AlteredIs
      <3>1. o \in UserOps(j, Old(a, x), x)
        BY <2>i, <3>0
      <3>2. o.in = Old(a, x) \/ o.in = x
        BY <3>1, UserOpsAre
      <3>3. Old(a, x).id = x.id
        BY <2>3, OfHas DEF Alters, Old
      <3>4. QED
        BY <2>0, <3>2, <3>3
    <2>4. CASE Has(a.inbounds, x.id) /\ ~Replaces(a, x) /\ ~Alters(a, x)
      BY <2>i, <2>4, InboundIs
    <2>5. QED
      BY <2>1, <2>2, <2>3, <2>4
  <1>4. ASSUME NEW o \in PlanRuntime(a, b), o.kind # "remove_inbound", o.in.id = in.id
        PROVE  o \in InboundOps(i, a.inbounds, in)
    <2>1. \A k : Removal(<<0, k>>, a.inbounds[k]).kind = "remove_inbound"
      BY OpFields DEF Removal
    <2>2. PICK j \in DOMAIN b.inbounds : o \in InboundOps(j, a.inbounds, b.inbounds[j])
      BY <1>4, <2>1 DEF PlanRuntime
    <2>3. b.inbounds[j].id = b.inbounds[i].id
      BY <1>1, <1>3, <1>4, <2>2
    <2>4. i = j
      BY <2>3 DEF StateOK
    <2>5. QED
      BY <1>1, <2>2, <2>4
  <1>5. QED
    BY <1>1, <1>2, <1>4

\* The users that stay and those that are to leave are those the core has.
LEMMA HotClients ==
    ASSUME NEW P, NEW a, NEW b, StateOK(a), StateOK(b), P = PlanRuntime(a, b),
           NEW in \in Range(b.inbounds), Alters(a, in)
    PROVE  (Clients(in) \ Joining(P, in)) \union Leaving(P, in) = Clients(Old(a, in))
  <1>0. PICK old : old = Old(a, in)
    OBVIOUS
  <1>1. old \in Range(a.inbounds) /\ old.id = in.id
    BY <1>0, OfHas DEF Alters, Old
  <1>2. Manages(in.protocol) /\ Manages(old.protocol)
    BY <1>0 DEF Alters, HotUsers, Manages, BaseEqual
  <1>3. PICK i \in DOMAIN b.inbounds :
           /\ in = b.inbounds[i]
           /\ UserOps(i, old, in) \subseteq P
           /\ \A o \in P :
                 o.kind # "remove_inbound" /\ o.in.id = in.id => o \in UserOps(i, old, in)
    <2>1. PICK i \in DOMAIN b.inbounds :
             /\ in = b.inbounds[i]
             /\ InboundOps(i, a.inbounds, in) \subseteq P
             /\ \A o \in P :
                   o.kind # "remove_inbound" /\ o.in.id = in.id => o \in InboundOps(i, a.inbounds, in)
      BY Planned
    <2>a. InboundOps(i, a.inbounds, in) = UserOps(i, Old(a, in), in)
      BY DEF InboundOps, Alters, Old
    <2>2. InboundOps(i, a.inbounds, in) = UserOps(i, old, in)
      BY <1>0, <2>a
    <2>3. QED
      BY <2>1, <2>2
  <1>4. ASSUME NEW w \in EnabledUsers(in)
        PROVE  Client(in, w) \in Joining(P, in) <=> Added(w, old.users)
    <2>1. w \in Range(in.users)
      BY DEF EnabledUsers
    <2>2. ASSUME Added(w, old.users) PROVE Client(in, w) \in Joining(P, in)
      <3>a. Contains(UserOps(i, old, in), "add_user", in, w)
        BY <2>1, <2>2, AddedIn
      <3>1. PICK o \in UserOps(i, old, in) : o.kind = "add_user" /\ o.in = in /\ o.user = w
        BY <3>a DEF Contains
      <3>2. QED
        BY <1>3, <3>1 DEF Joining
    <2>3. ASSUME Client(in, w) \in Joining(P, in) PROVE Added(w, old.users)
      <3>1. PICK o \in P : o.kind = "add_user" /\ o.in = in /\ Client(in, w) = Client(o.in, o.user)
        BY <2>3 DEF Joining
      <3>2. o \in UserOps(i, old, in)
        BY <1>3, <3>1
      <3>3. o.user \in Range(in.users) /\ Added(o.user, old.users)
        BY <3>1, <3>2, UserOpsAre
      <3>a. o.user.id = w.id
        BY <3>1, SameClient
      <3>4. o.user = w
        BY <2>1, <3>3, <3>a, Distinct
      <3>5. QED
        BY <3>3, <3>4
    <2>4. QED
      BY <2>2, <2>3
  <1>5. ASSUME NEW c
        PROVE  c \in Leaving(P, in) <=> \E u \in Range(old.users) : Removed(u, in.users) /\ c = Client(old, u)
    <2>1. ASSUME NEW u \in Range(old.users), Removed(u, in.users), c = Client(old, u)
          PROVE  c \in Leaving(P, in)
      <3>a. Contains(UserOps(i, old, in), "remove_user", old, u)
        BY <2>1, RemovedIn
      <3>1. PICK o \in UserOps(i, old, in) : o.kind = "remove_user" /\ o.in = old /\ o.user = u
        BY <3>a DEF Contains
      <3>2. QED
        BY <1>1, <1>3, <2>1, <3>1 DEF Leaving
    <2>2. ASSUME c \in Leaving(P, in)
          PROVE  \E u \in Range(old.users) : Removed(u, in.users) /\ c = Client(old, u)
      <3>1. PICK o \in P : o.kind = "remove_user" /\ o.in.id = in.id /\ c = Client(o.in, o.user)
        BY <2>2 DEF Leaving
      <3>2. o \in UserOps(i, old, in)
        BY <1>3, <3>1
      <3>3. QED
        BY <3>1, <3>2, UserOpsAre
    <2>3. QED
      BY <2>1, <2>2
  <1>6. ASSUME NEW c \in Clients(in), c \notin Joining(P, in) PROVE c \in Clients(old)
    <2>1. PICK w \in EnabledUsers(in) : c = Client(in, w)
      BY DEF Clients
    <2>2. ~Added(w, old.users)
      BY <1>4, <1>6, <2>1
    <2>3. PICK u \in ById(old.users, w.id) : u.enabled /\ UserEqual(w, u)
      BY <2>1, <2>2 DEF Added, EnabledUsers
    <2>4. u \in EnabledUsers(old) /\ u.id = w.id
      BY <2>3 DEF ById, EnabledUsers
    <2>5. c = Client(old, u)
      BY <1>1, <2>1, <2>3, <2>4, SameClient
    <2>6. QED
      BY <1>2, <2>4, <2>5 DEF Clients
  <1>7. ASSUME NEW c \in Leaving(P, in) PROVE c \in Clients(old)
    <2>1. PICK u \in Range(old.users) : Removed(u, in.users) /\ c = Client(old, u)
      BY <1>5
    <2>2. QED
      BY <1>2, <2>1 DEF Clients, EnabledUsers, Removed
  <1>8. ASSUME NEW c \in Clients(old), c \notin Leaving(P, in)
        PROVE  c \in Clients(in) /\ c \notin Joining(P, in)
    <2>1. PICK u \in EnabledUsers(old) : c = Client(old, u)
      BY DEF Clients
    <2>2. u \in Range(old.users) /\ u.enabled
      BY <2>1 DEF EnabledUsers
    <2>3. ~Removed(u, in.users)
      BY <1>5, <1>8, <2>1, <2>2
    <2>4. PICK w \in ById(in.users, u.id) : w.enabled /\ UserEqual(u, w)
      BY <2>2, <2>3 DEF Removed
    <2>5. w \in EnabledUsers(in) /\ w.id = u.id
      BY <2>4 DEF ById, EnabledUsers
    <2>6. c = Client(in, w)
      BY <1>1, <2>1, <2>4, <2>5, SameClient
    <2>7. ~Added(w, old.users)
      <3>1. u \in ById(old.users, w.id) /\ UserEqual(w, u)
        BY <2>2, <2>4, <2>5 DEF ById, UserEqual
      <3>2. QED
        BY <2>2, <3>1 DEF Added
    <2>8. QED
      BY <1>2, <1>4, <2>5, <2>6, <2>7 DEF Clients
  <1>9. QED
    BY <1>0, <1>6, <1>7, <1>8

\* Before the first step an inbound shows what it was.
LEMMA PlanShows ==
    ASSUME NEW P, NEW a, NEW b, StateOK(a), StateOK(b), P = PlanRuntime(a, b),
           NEW in \in Range(b.inbounds)
    PROVE  Shown(P, a, in) = IF Has(a.inbounds, in.id) THEN {BuildInbound(Old(a, in))} ELSE {}
  <1>1. PICK i \in DOMAIN b.inbounds :
           /\ in = b.inbounds[i]
           /\ InboundOps(i, a.inbounds, in) \subseteq P
           /\ \A o \in P :
                 o.kind # "remove_inbound" /\ o.in.id = in.id => o \in InboundOps(i, a.inbounds, in)
    BY Planned
  <1>2. CASE ~Has(a.inbounds, in.id)
    <2>1. PICK o : o = Addition(<<i, 0>>, in)
      OBVIOUS
    <2>2. o \in P
      BY <1>1, <1>2, <2>1 DEF InboundOps
    <2>3. Waits(P, "add_inbound", in)
      BY <2>1, <2>2, OpFields DEF Addition, Waits
    <2>4. QED
      BY <1>2, <2>3 DEF Shown
  <1>3. CASE Replaces(a, in)
    <2>1. PICK o : o = Replacement(<<i, 0>>, Old(a, in), in)
      OBVIOUS
    <2>2. InboundOps(i, a.inbounds, in) = {o}
      BY <1>3, <2>1 DEF InboundOps, Replaces, Old
    <2>3. o.kind = "replace_inbound" /\ o.in = in
      BY <2>1, OpFields DEF Replacement
    <2>4. Waits(P, "replace_inbound", in) /\ ~Waits(P, "add_inbound", in)
      BY <1>1, <2>2, <2>3 DEF Waits
    <2>5. Has(a.inbounds, in.id)
      BY <1>3 DEF Replaces
    <2>6. QED
      BY <2>4, <2>5 DEF Shown
  <1>4. CASE Alters(a, in)
    <2>1. InboundOps(i, a.inbounds, in) = UserOps(i, Old(a, in), in)
      BY <1>4 DEF InboundOps, Alters, Old
    <2>2. ASSUME NEW o \in P, o.in = in
          PROVE  o.kind # "add_inbound" /\ o.kind # "replace_inbound"
      <3>1. o.in.id = in.id
        BY <2>2
      <3>2. o.kind = "remove_inbound" \/ o \in UserOps(i, Old(a, in), in)
        BY <1>1, <2>1, <3>1
      <3>3. QED
        BY <3>2, UserOpsAre
    <2>3. Shown(P, a, in) = {Ongoing(P, in)}
      BY <2>2 DEF Shown, Waits
    <2>4. Ongoing(P, in) = Document(in, Clients(Old(a, in)))
      BY <1>4, HotClients DEF Ongoing
    <2>5. Document(in, Clients(Old(a, in))) = BuildInbound(Old(a, in))
      BY <1>4 DEF Alters, BaseEqual, Document, BuildInbound
    <2>6. Has(a.inbounds, in.id)
      BY <1>4 DEF Alters
    <2>7. QED
      BY <2>3, <2>4, <2>5, <2>6
  <1>5. CASE Has(a.inbounds, in.id) /\ ~Replaces(a, in) /\ ~Alters(a, in)
    <2>0. PICK old : old = Old(a, in)
      OBVIOUS
    <2>1. BaseEqual(old, in) /\ UsersEqual(old.users, in.users)
      BY <1>5, <2>0 DEF Replaces, Alters
    <2>2. InboundOps(i, a.inbounds, in) = {}
      BY <1>5, <2>0, <2>1 DEF InboundOps, Old
    <2>3. ~\E o \in P : o.kind # "remove_inbound" /\ o.in.id = in.id
      BY <1>1, <2>2
    <2>4. ~Waits(P, "add_inbound", in) /\ ~Waits(P, "replace_inbound", in)
      BY <2>3 DEF Waits
    <2>5. Joining(P, in) = {} /\ Leaving(P, in) = {}
      BY <2>3 DEF Joining, Leaving
    <2>6. Ongoing(P, in) = Document(in, Clients(in))
      BY <2>5 DEF Ongoing
    <2>7. old \in Range(a.inbounds) /\ old.id = in.id
      BY <1>5, <2>0, OfHas DEF Old
    <2>8. old.users \in Seq(Range(old.users)) /\ in.users \in Seq(Range(in.users))
      BY <2>7 DEF StateOK
    <2>9. \A j, k \in DOMAIN old.users : old.users[j].id = old.users[k].id => j = k
      BY <2>7 DEF StateOK
    <2>10. \A w \in Range(in.users) :
              \E u \in Range(old.users) : u.id = w.id /\ UserEqual(u, w) /\ u.enabled = w.enabled
      BY <2>1, <2>8, <2>9, EqualBothWays
    <2>11. old.protocol = in.protocol
      BY <2>1 DEF BaseEqual
    <2>12. ASSUME NEW c \in Clients(in) PROVE c \in Clients(old)
      <3>1. PICK w \in EnabledUsers(in) : c = Client(in, w) /\ Manages(in.protocol)
        BY DEF Clients
      <3>2. PICK u \in Range(old.users) : u.id = w.id /\ UserEqual(u, w) /\ u.enabled = w.enabled
        BY <2>10 DEF EnabledUsers
      <3>3. c = Client(old, u)
        BY <2>7, <3>1, <3>2, SameClient
      <3>4. QED
        BY <2>11, <3>1, <3>2, <3>3 DEF Clients, EnabledUsers
    <2>13. ASSUME NEW c \in Clients(old) PROVE c \in Clients(in)
      <3>1. PICK u \in EnabledUsers(old) : c = Client(old, u) /\ Manages(old.protocol)
        BY DEF Clients
      <3>2. PICK w \in ById(in.users, u.id) : UserEqual(u, w) /\ u.enabled = w.enabled
        BY <2>1 DEF UsersEqual, EnabledUsers
      <3>3. w \in Range(in.users) /\ w.id = u.id
        BY <3>2 DEF ById
      <3>4. c = Client(in, w)
        BY <2>7, <3>1, <3>2, <3>3, SameClient
      <3>5. QED
        BY <2>11, <3>1, <3>2, <3>3, <3>4 DEF Clients, EnabledUsers
    <2>14. Clients(in) = Clients(old)
      BY <2>12, <2>13
    <2>15. Document(in, Clients(in)) = BuildInbound(old)
      BY <2>1, <2>14 DEF BaseEqual, Document, BuildInbound
    <2>16. QED
      BY <1>5, <2>0, <2>4, <2>6, <2>15 DEF Shown
  <1>6. QED
    BY <1>2, <1>3, <1>4, <1>5

LEMMA PlanStarts ==
    ASSUME NEW P, NEW a, NEW b, StateOK(a), StateOK(b), P = PlanRuntime(a, b)
    PROVE  /\ PlanOK(P, a, b) /\ Apart(P, a, b)
           /\ Holding({BuildInbound(in) : in \in Range(a.inbounds)}, P, a, b)
  <1>1. \A o \in P : Between(o, a, b)
    BY PlanIs
  <1>2. PlanOK(P, a, b)
    <2>1. ASSUME NEW o \in P, NEW p \in P, o.kind = "add_inbound", p.kind = "replace_inbound",
                 o.in.id = p.in.id
          PROVE  FALSE
      <3>1. p.in \in Range(b.inbounds) /\ Replaces(a, p.in)
        BY <1>1, <2>1, KindIs
      <3>2. PICK i \in DOMAIN b.inbounds :
               \A q \in P : q.kind # "remove_inbound" /\ q.in.id = p.in.id
                              => q \in InboundOps(i, a.inbounds, p.in)
        BY <3>1, Planned
      <3>3. InboundOps(i, a.inbounds, p.in) = {Replacement(<<i, 0>>, Old(a, p.in), p.in)}
        BY <3>1 DEF InboundOps, Replaces, Old
      <3>4. o = Replacement(<<i, 0>>, Old(a, p.in), p.in)
        BY <2>1, <3>2, <3>3
      <3>5. o.kind = "replace_inbound"
        BY <3>4, OpFields DEF Replacement
      <3>6. QED
        BY <2>1, <3>5
    <2>2. ASSUME NEW o \in P, o.kind = "remove_user",
                 NEW in \in Range(b.inbounds), NEW w \in EnabledUsers(in),
                 in.id = o.in.id, w.id = o.user.id
          PROVE  \E p \in P : p.kind = "add_user" /\ p.in = in /\ p.user = w
      <3>1. PICK x \in Range(b.inbounds) :
               /\ o.in = Old(a, x) /\ o.in.id = x.id /\ Alters(a, x)
               /\ o.user \in Range(o.in.users) /\ Removed(o.user, x.users)
        BY <1>1, <2>2, KindIs
      <3>2. x = in
        BY <2>2, <3>1, Distinct
      <3>3. PICK old : old = o.in
        OBVIOUS
      <3>4. old \in Range(a.inbounds) /\ old = Old(a, in) /\ Alters(a, in)
        BY <3>1, <3>2, <3>3, OfHas DEF Old, Alters
      <3>5. w \in Range(in.users) /\ w.enabled
        BY DEF EnabledUsers
      <3>6. ~UserEqual(o.user, w)
        BY <2>2, <3>1, <3>2, <3>5 DEF Removed, ById
      <3>7. ASSUME NEW u \in ById(old.users, w.id), UserEqual(w, u) PROVE FALSE
        <4>1. u = o.user
          BY <2>2, <3>1, <3>3, <3>4, Distinct DEF ById
        <4>2. QED
          BY <3>6, <3>7, <4>1 DEF UserEqual
      <3>8. Added(w, old.users)
        BY <3>5, <3>7 DEF Added
      <3>9. PICK i \in DOMAIN b.inbounds : InboundOps(i, a.inbounds, in) \subseteq P
        BY Planned
      <3>10. InboundOps(i, a.inbounds, in) = UserOps(i, old, in)
        BY <3>4 DEF InboundOps, Alters, Old
      <3>11. Contains(UserOps(i, old, in), "add_user", in, w)
        BY <3>5, <3>8, AddedIn
      <3>12. QED
        BY <3>9, <3>10, <3>11 DEF Contains
    <2>3. QED
      BY <1>1, <2>1, <2>2 DEF PlanOK
  <1>3. \A in \in Range(b.inbounds) : \A d \in Shown(P, a, in) :
           /\ Has(a.inbounds, in.id) /\ Old(a, in) \in Range(a.inbounds) /\ Old(a, in).id = in.id
           /\ d = BuildInbound(Old(a, in))
    <2>1. ASSUME NEW in \in Range(b.inbounds), NEW d \in Shown(P, a, in)
          PROVE  Has(a.inbounds, in.id) /\ d = BuildInbound(Old(a, in))
      <3>1. Shown(P, a, in) = IF Has(a.inbounds, in.id) THEN {BuildInbound(Old(a, in))} ELSE {}
        BY PlanShows
      <3>2. QED
        BY <2>1, <3>1
    <2>2. ASSUME NEW id, Has(a.inbounds, id)
          PROVE  Of(a.inbounds, id) \in Range(a.inbounds) /\ Of(a.inbounds, id).id = id
      BY <2>2, OfHas
    <2>3. QED
      BY <2>1, <2>2 DEF Old
  <1>4. Apart(P, a, b)
    <2>1. ASSUME NEW o \in P, o.kind = "remove_inbound",
                 NEW in \in Range(b.inbounds), NEW d \in Shown(P, a, in)
          PROVE  d.tag # o.tag
      <3>1. o.in \in Range(a.inbounds) /\ o.tag = o.in.tag
        BY <1>1, <2>1, KindIs
      <3>2. o.in.id # in.id
        BY <1>2, <2>1, OfOne
      <3>3. PICK old \in Range(a.inbounds) : old.id = in.id /\ d = BuildInbound(old)
        BY <1>3, <2>1
      <3>4. old.tag # o.in.tag
        BY <3>1, <3>2, <3>3, Distinct
      <3>5. QED
        BY <3>1, <3>3, <3>4, DocumentIs
    <2>2. ASSUME NEW x \in Range(b.inbounds), NEW y \in Range(b.inbounds), x # y,
                 NEW c \in Shown(P, a, x), NEW d \in Shown(P, a, y)
          PROVE  c.tag # d.tag
      <3>1. x.id # y.id
        BY <2>2, Distinct
      <3>2. PICK v \in Range(a.inbounds) : v.id = x.id /\ c = BuildInbound(v)
        BY <1>3, <2>2
      <3>3. PICK w \in Range(a.inbounds) : w.id = y.id /\ d = BuildInbound(w)
        BY <1>3, <2>2
      <3>4. v.tag # w.tag
        BY <3>1, <3>2, <3>3, Distinct
      <3>5. QED
        BY <3>2, <3>3, <3>4, DocumentIs
    <2>3. QED
      BY <2>1, <2>2 DEF Apart
  <1>5. Holding({BuildInbound(in) : in \in Range(a.inbounds)}, P, a, b)
    <2>1. ASSUME NEW old \in Range(a.inbounds)
          PROVE  \/ BuildInbound(old) \in Gone(P)
                 \/ \E in \in Range(b.inbounds) : BuildInbound(old) \in Shown(P, a, in)
      <3>1. CASE Has(b.inbounds, old.id)
        <4>1. PICK in \in Range(b.inbounds) : in.id = old.id
          BY <3>1 DEF Has, ById
        <4>2. Has(a.inbounds, in.id) /\ Old(a, in) = old
          BY <4>1, OfIs DEF Old
        <4>3. Shown(P, a, in) = {BuildInbound(old)}
          BY <4>2, PlanShows
        <4>4. QED
          BY <4>3
      <3>2. CASE ~Has(b.inbounds, old.id)
        <4>1. PICK k \in DOMAIN a.inbounds : old = a.inbounds[k]
          BY DEF Range
        <4>2. PICK o : o = Removal(<<0, k>>, a.inbounds[k])
          OBVIOUS
        <4>3. o \in P
          BY <3>2, <4>1, <4>2 DEF PlanRuntime
        <4>4. o.kind = "remove_inbound" /\ o.in = old
          BY <4>1, <4>2, OpFields DEF Removal
        <4>5. QED
          BY <4>3, <4>4 DEF Gone
      <3>3. QED
        BY <3>1, <3>2
    <2>2. ASSUME NEW x \in Gone(P) PROVE \E old \in Range(a.inbounds) : x = BuildInbound(old)
      <3>1. PICK o \in P : o.kind = "remove_inbound" /\ x = BuildInbound(o.in)
        BY DEF Gone
      <3>2. QED
        BY <1>1, <3>1, KindIs
    <2>3. ASSUME NEW x
          PROVE  x \in {BuildInbound(in) : in \in Range(a.inbounds)}
                   <=> x \in Gone(P) \union UNION {Shown(P, a, in) : in \in Range(b.inbounds)}
      BY <1>3, <2>1, <2>2
    <2>4. QED
      BY <2>3 DEF Holding
  <1>6. QED
    BY <1>2, <1>4, <1>5

LEMMA PlanEnds ==
    ASSUME NEW C, NEW a, NEW b, Holding(C, {}, a, b)
    PROVE  C = {BuildInbound(in) : in \in Range(b.inbounds)}
  <1>1. ASSUME NEW in PROVE Shown({}, a, in) = {BuildInbound(in)}
    <2>1. ~Waits({}, "add_inbound", in) /\ ~Waits({}, "replace_inbound", in)
      BY DEF Waits
    <2>2. Joining({}, in) = {} /\ Leaving({}, in) = {}
      BY DEF Joining, Leaving
    <2>3. Ongoing({}, in) = BuildInbound(in)
      BY <2>2 DEF Ongoing, BuildInbound
    <2>4. QED
      BY <2>1, <2>3 DEF Shown
  <1>2. Gone({}) = {}
    BY DEF Gone
  <1>3. ASSUME NEW x
        PROVE  x \in C <=> x \in {BuildInbound(in) : in \in Range(b.inbounds)}
    BY <1>1, <1>2 DEF Holding
  <1>4. QED
    BY <1>3

-----------------------------------------------------------------------------
(* The state file and the evaluation                                       *)

LEMMA KeptIs ==
    ASSUME NEW in
    PROVE  /\ Kept(in).id = in.id /\ Kept(in).tag = in.tag /\ Kept(in).protocol = in.protocol
           /\ Kept(in).mode = in.mode /\ Kept(in).users = in.users
           /\ Kept(in).settings = IF in.settings = "empty" THEN "nil" ELSE in.settings
           /\ BuildInbound(Kept(in)) = BuildInbound(in)
  <1>1. /\ Kept(in).id = in.id /\ Kept(in).tag = in.tag /\ Kept(in).protocol = in.protocol
        /\ Kept(in).mode = in.mode /\ Kept(in).users = in.users
        /\ Kept(in).settings = IF in.settings = "empty" THEN "nil" ELSE in.settings
    BY DEF Kept, With
  <1>2. \A u : Client(Kept(in), u) = Client(in, u)
    BY <1>1 DEF Client
  <1>3. Clients(Kept(in)) = Clients(in)
    BY <1>1, <1>2 DEF Clients, EnabledUsers
  <1>4. QED
    BY <1>1, <1>3 DEF BuildInbound, Document

RoutesOf(in) ==
    {[email |-> <<u.id, in.id>>, to |-> u.route, on |-> u.enabled] :
        u \in {w \in Range(in.users) : w.route # ""}}

\* The documents of a state are those of what the file keeps of it.
LEMMA RoundTripIs ==
    ASSUME NEW s, StateOK(s)
    PROVE  /\ StateOK(RoundTrip(s))
           /\ RoundTrip(s).global = s.global
           /\ \A x : x \in Range(RoundTrip(s).inbounds)
                       <=> \E in \in Range(s.inbounds) : x = Kept(in)
           /\ {BuildInbound(in) : in \in Range(RoundTrip(s).inbounds)}
                = {BuildInbound(in) : in \in Range(s.inbounds)}
           /\ Levels(RoundTrip(s)) = Levels(s) /\ Rules(RoundTrip(s)) = Rules(s)
  <1>0. PICK t : t = RoundTrip(s)
    OBVIOUS
  <1>1. t.global = s.global /\ t.inbounds = [i \in DOMAIN s.inbounds |-> Kept(s.inbounds[i])]
    BY <1>0 DEF RoundTrip
  <1>2. \A x : x \in Range(t.inbounds) <=> \E in \in Range(s.inbounds) : x = Kept(in)
    BY <1>1 DEF Range
  <1>3. StateOK(t)
    <2>1. t.inbounds \in Seq(Range(t.inbounds))
      <3>1. PICK n \in Nat : DOMAIN s.inbounds = 1..n
        BY DEF StateOK
      <3>2. t.inbounds \in [1..n -> Range(t.inbounds)]
        BY <1>1, <3>1 DEF Range
      <3>3. QED
        BY <3>2, SeqDef
    <2>2. \A i \in DOMAIN t.inbounds :
             i \in DOMAIN s.inbounds /\ t.inbounds[i].id = s.inbounds[i].id
               /\ t.inbounds[i].tag = s.inbounds[i].tag
      BY <1>1, KeptIs
    <2>3. \A i, j \in DOMAIN t.inbounds :
             t.inbounds[i].id = t.inbounds[j].id \/ t.inbounds[i].tag = t.inbounds[j].tag => i = j
      BY <2>2 DEF StateOK
    <2>4. \A x \in Range(t.inbounds) : \E in \in Range(s.inbounds) : x.users = in.users
      BY <1>2, KeptIs
    <2>5. QED
      BY <2>1, <2>3, <2>4 DEF StateOK
  <1>4. {BuildInbound(in) : in \in Range(t.inbounds)} = {BuildInbound(in) : in \in Range(s.inbounds)}
    BY <1>2, KeptIs
  <1>5. Levels(t) = Levels(s)
    <2>1. \A in : EnabledUsers(Kept(in)) = EnabledUsers(in)
      BY KeptIs DEF EnabledUsers
    <2>2. \A x : x \in UNION {{u.level : u \in EnabledUsers(in)} : in \in Range(t.inbounds)}
                   <=> x \in UNION {{u.level : u \in EnabledUsers(in)} : in \in Range(s.inbounds)}
      BY <1>2, <2>1
    <2>3. QED
      BY <2>2 DEF Levels
  <1>6. Rules(t) = Rules(s)
    <2>1. \A in : Kept(in).id = in.id /\ Kept(in).users = in.users
      BY KeptIs
    <2>a. \A in : RoutesOf(Kept(in)) = RoutesOf(in)
      BY <2>1 DEF RoutesOf
    <2>b. \A state : Routes(state) = UNION {RoutesOf(in) : in \in Range(state.inbounds)}
      BY DEF Routes, RoutesOf
    <2>2. \A x : x \in Routes(t) <=> x \in Routes(s)
      BY <1>2, <2>a, <2>b
    <2>3. QED
      BY <2>2 DEF Rules
  <1>7. QED
    BY <1>0, <1>1, <1>2, <1>3, <1>4, <1>5, <1>6

\* Evaluate changes nothing of a user but whether he is served.
LEMMA EvaluateIs ==
    ASSUME NEW users, users \in Seq(Range(users)), NEW mode, NEW v,
           \A u \in Range(users) : UserFields \subseteq DOMAIN u,
           NEW e, e = Evaluate(users, mode, v)
    PROVE  /\ e \in Seq(Range(e)) /\ DOMAIN e = DOMAIN users
           /\ \A j \in DOMAIN users :
                 /\ DOMAIN e[j] = DOMAIN users[j]
                 /\ e[j].id = users[j].id /\ e[j].account = users[j].account
                 /\ e[j].deviceLimit = users[j].deviceLimit
                 /\ e[j].enabled = (Reason(users, mode, v, j) = "none")
  <1>1. e = [j \in DOMAIN users |->
               [users[j] EXCEPT !.enabled = Reason(users, mode, v, j) = "none"]]
    BY DEF Evaluate
  <1>2. e \in Seq(Range(e))
    <2>1. PICK n \in Nat : DOMAIN users = 1..n
      OBVIOUS
    <2>2. e \in [1..n -> Range(e)]
      BY <1>1, <2>1 DEF Range
    <2>3. QED
      BY <2>2, SeqDef
  <1>3. ASSUME NEW j \in DOMAIN users
        PROVE  /\ DOMAIN e[j] = DOMAIN users[j]
               /\ e[j].id = users[j].id /\ e[j].account = users[j].account
               /\ e[j].deviceLimit = users[j].deviceLimit
               /\ e[j].enabled = (Reason(users, mode, v, j) = "none")
    <2>1. users[j] \in Range(users)
      BY DEF Range
    <2>2. {"id", "account", "deviceLimit", "enabled"} \subseteq DOMAIN users[j]
      BY <2>1 DEF UserFields
    <2>3. e[j] = [users[j] EXCEPT !.enabled = Reason(users, mode, v, j) = "none"]
      BY <1>1
    <2>4. QED
      BY <2>2, <2>3
  <1>4. QED
    BY <1>1, <1>2, <1>3

LEMMA EvaluateStateIs ==
    ASSUME NEW d, StateOK(d), NEW v
    PROVE  StateOK(EvaluateState(d, v))
  <1>0. PICK t : t = EvaluateState(d, v)
    OBVIOUS
  <1>1. t.inbounds = [i \in DOMAIN d.inbounds |-> Evaluated(d.inbounds[i], v)]
    BY <1>0 DEF EvaluateState
  <1>2. \A in : /\ Evaluated(in, v).id = in.id /\ Evaluated(in, v).tag = in.tag
                /\ Evaluated(in, v).users = Evaluate(in.users, in.mode, v)
    BY DEF Evaluated, With
  <1>3. t.inbounds \in Seq(Range(t.inbounds))
    <2>1. PICK n \in Nat : DOMAIN d.inbounds = 1..n
      BY DEF StateOK
    <2>2. t.inbounds \in [1..n -> Range(t.inbounds)]
      BY <1>1, <2>1 DEF Range
    <2>3. QED
      BY <2>2, SeqDef
  <1>4. \A i, j \in DOMAIN t.inbounds :
           t.inbounds[i].id = t.inbounds[j].id \/ t.inbounds[i].tag = t.inbounds[j].tag => i = j
    <2>1. \A i \in DOMAIN t.inbounds :
             i \in DOMAIN d.inbounds /\ t.inbounds[i].id = d.inbounds[i].id
               /\ t.inbounds[i].tag = d.inbounds[i].tag
      BY <1>1, <1>2
    <2>2. QED
      BY <2>1 DEF StateOK
  <1>5. ASSUME NEW in \in Range(t.inbounds)
        PROVE  /\ in.users \in Seq(Range(in.users))
               /\ \A u \in Range(in.users) :
                     UserFields \subseteq DOMAIN u /\ u.enabled \in BOOLEAN /\ u.deviceLimit \in Nat
               /\ \A j, k \in DOMAIN in.users : in.users[j].id = in.users[k].id => j = k
    <2>1. PICK i \in DOMAIN d.inbounds : in = Evaluated(d.inbounds[i], v)
      BY <1>1 DEF Range
    <2>2. PICK x : x = d.inbounds[i]
      OBVIOUS
    <2>3. x \in Range(d.inbounds) /\ in.users = Evaluate(x.users, x.mode, v)
      BY <1>2, <2>1, <2>2 DEF Range
    <2>4. /\ x.users \in Seq(Range(x.users))
          /\ \A u \in Range(x.users) : UserFields \subseteq DOMAIN u /\ u.deviceLimit \in Nat
          /\ \A j, k \in DOMAIN x.users : x.users[j].id = x.users[k].id => j = k
      BY <2>3 DEF StateOK
    <2>5. /\ in.users \in Seq(Range(in.users)) /\ DOMAIN in.users = DOMAIN x.users
          /\ \A j \in DOMAIN x.users :
                /\ DOMAIN in.users[j] = DOMAIN x.users[j]
                /\ in.users[j].id = x.users[j].id
                /\ in.users[j].deviceLimit = x.users[j].deviceLimit
                /\ in.users[j].enabled \in BOOLEAN
      <3>1. \A u \in Range(x.users) : UserFields \subseteq DOMAIN u
        BY <2>4
      <3>2. PICK e : e = in.users
        OBVIOUS
      <3>3. e = Evaluate(x.users, x.mode, v)
        BY <2>3, <3>2
      <3>4. /\ e \in Seq(Range(e)) /\ DOMAIN e = DOMAIN x.users
            /\ \A j \in DOMAIN x.users :
                  /\ DOMAIN e[j] = DOMAIN x.users[j]
                  /\ e[j].id = x.users[j].id
                  /\ e[j].deviceLimit = x.users[j].deviceLimit
                  /\ e[j].enabled = (Reason(x.users, x.mode, v, j) = "none")
        BY <2>4, <3>1, <3>3, EvaluateIs
      <3>5. QED
        BY <3>2, <3>4
    <2>6. \A j \in DOMAIN x.users : x.users[j] \in Range(x.users)
      BY DEF Range
    <2>7. \A u \in Range(in.users) : \E j \in DOMAIN x.users : u = in.users[j]
      BY <2>5 DEF Range
    <2>8. QED
      BY <2>4, <2>5, <2>6, <2>7
  <1>6. QED
    BY <1>0, <1>3, <1>4, <1>5 DEF StateOK

-----------------------------------------------------------------------------
(* The types                                                               *)

CoreIs == core = [inbounds |-> core.inbounds, levels |-> core.levels,
                  global |-> core.global, rules |-> core.rules]

\* One step of the plan: the operation goes through, or the plan has failed.
Goes(op) ==
    /\ \/ op.kind = "remove_inbound" /\ At(op.tag) # {} /\ core'.inbounds = Without(op.tag)
             /\ ops' = ops \ {op}
       \/ op.kind = "add_inbound" /\ At(op.in.tag) = {}
             /\ core'.inbounds = core.inbounds \union {BuildInbound(op.in)} /\ ops' = ops \ {op}
       \/ op.kind = "replace_inbound" /\ At(op.tag) # {} /\ core'.inbounds = Without(op.tag)
             /\ ops' = (ops \ {op}) \union {Addition(op.at, op.in)}
       \/ op.kind = "add_user" /\ ~Knows(op) /\ (\E b \in At(op.tag) : HotUsers(b.protocol))
             /\ core'.inbounds = {IF b.tag = op.tag
                                  THEN [b EXCEPT !.clients = @ \union {Client(op.in, op.user)}]
                                  ELSE b : b \in core.inbounds}
             /\ ops' = ops \ {op}
       \/ op.kind = "remove_user" /\ Knows(op)
             /\ core'.inbounds = {IF b.tag = op.tag
                                  THEN [b EXCEPT !.clients = {c \in @ : c.email # <<op.user.id, op.in.id>>}]
                                  ELSE b : b \in core.inbounds}
             /\ ops' = ops \ {op}
    /\ core' = [core EXCEPT !.inbounds = core'.inbounds]
    /\ pc' = pc /\ failed' = failed

\* What the core refuses.
Refuses(op) ==
    \/ op.kind = "remove_inbound" /\ At(op.tag) = {}
    \/ op.kind = "add_inbound" /\ At(op.in.tag) # {}
    \/ op.kind = "replace_inbound" /\ At(op.tag) = {}
    \/ op.kind = "add_user" /\ (Knows(op) \/ ~\E b \in At(op.tag) : HotUsers(b.protocol))
    \/ op.kind = "remove_user" /\ ~Knows(op)

LEMMA CoreAltered ==
    ASSUME CoreIs, NEW X, core' = [core EXCEPT !.inbounds = X]
    PROVE  /\ core'.inbounds = X /\ core'.levels = core.levels
           /\ core'.global = core.global /\ core'.rules = core.rules
           /\ core' = [core EXCEPT !.inbounds = core'.inbounds]
           /\ CoreIs'
  BY DEF CoreIs

LEMMA StepIs ==
    ASSUME CoreIs, ApplyRuntime
    PROVE  /\ pc = "apply" /\ UNCHANGED <<asked, view, prev, target>>
           /\ \E op \in ops :
                 /\ \A o \in ops \ {op} : Before(op.at, o.at)
                 /\ Goes(op) \/ (Refuses(op) /\ Fails)
  <1>1. PICK op \in ops :
           /\ \A o \in ops \ {op} : Before(op.at, o.at)
           /\ RemoveInbound(op) \/ AddInbound(op) \/ ReplaceInbound(op) \/ AddUser(op) \/ RemoveUser(op)
    BY DEF ApplyRuntime
  <1>2. ASSUME RemoveInbound(op) PROVE Goes(op) \/ (Refuses(op) /\ Fails)
    <2>1. PICK X : X = Without(op.tag)
      OBVIOUS
    <2>2. CASE At(op.tag) # {}
      <3>1. core' = [core EXCEPT !.inbounds = X]
        BY <1>2, <2>1, <2>2 DEF RemoveInbound, Running
      <3>2. core'.inbounds = X /\ core' = [core EXCEPT !.inbounds = core'.inbounds]
        BY <3>1, CoreAltered
      <3>3. op.kind = "remove_inbound" /\ ops' = ops \ {op} /\ pc' = pc /\ failed' = failed
        BY <1>2, <2>2 DEF RemoveInbound, Done
      <3>4. QED
        BY <2>1, <2>2, <3>2, <3>3 DEF Goes
    <2>3. CASE ~(At(op.tag) # {})
      BY <1>2, <2>3 DEF RemoveInbound, Refuses
    <2>4. QED
      BY <2>2, <2>3
  <1>3. ASSUME AddInbound(op) PROVE Goes(op) \/ (Refuses(op) /\ Fails)
    <2>1. PICK X : X = core.inbounds \union {BuildInbound(op.in)}
      OBVIOUS
    <2>2. CASE At(op.in.tag) = {}
      <3>1. core' = [core EXCEPT !.inbounds = X]
        BY <1>3, <2>1, <2>2 DEF AddInbound, Running
      <3>2. core'.inbounds = X /\ core' = [core EXCEPT !.inbounds = core'.inbounds]
        BY <3>1, CoreAltered
      <3>3. op.kind = "add_inbound" /\ ops' = ops \ {op} /\ pc' = pc /\ failed' = failed
        BY <1>3, <2>2 DEF AddInbound, Done
      <3>4. QED
        BY <2>1, <2>2, <3>2, <3>3 DEF Goes
    <2>3. CASE ~(At(op.in.tag) = {})
      BY <1>3, <2>3 DEF AddInbound, Refuses
    <2>4. QED
      BY <2>2, <2>3
  <1>4. ASSUME ReplaceInbound(op) PROVE Goes(op) \/ (Refuses(op) /\ Fails)
    <2>1. PICK X : X = Without(op.tag)
      OBVIOUS
    <2>2. CASE At(op.tag) # {}
      <3>1. core' = [core EXCEPT !.inbounds = X]
        BY <1>4, <2>1, <2>2 DEF ReplaceInbound, Running
      <3>2. core'.inbounds = X /\ core' = [core EXCEPT !.inbounds = core'.inbounds]
        BY <3>1, CoreAltered
      <3>3. op.kind = "replace_inbound" /\ ops' = (ops \ {op}) \union {Addition(op.at, op.in)} /\ pc' = pc /\ failed' = failed
        BY <1>4, <2>2 DEF ReplaceInbound, Done
      <3>4. QED
        BY <2>1, <2>2, <3>2, <3>3 DEF Goes
    <2>3. CASE ~(At(op.tag) # {})
      BY <1>4, <2>3 DEF ReplaceInbound, Refuses
    <2>4. QED
      BY <2>2, <2>3
  <1>5. ASSUME AddUser(op) PROVE Goes(op) \/ (Refuses(op) /\ Fails)
    <2>1. PICK X : X = {IF b.tag = op.tag
                             THEN [b EXCEPT !.clients = @ \union {Client(op.in, op.user)}]
                             ELSE b : b \in core.inbounds}
      OBVIOUS
    <2>2. CASE ~Knows(op) /\ \E b \in At(op.tag) : HotUsers(b.protocol)
      <3>1. core' = [core EXCEPT !.inbounds = X]
        BY <1>5, <2>1, <2>2 DEF AddUser, Running, AlterInbound
      <3>2. core'.inbounds = X /\ core' = [core EXCEPT !.inbounds = core'.inbounds]
        BY <3>1, CoreAltered
      <3>3. op.kind = "add_user" /\ ops' = ops \ {op} /\ pc' = pc /\ failed' = failed
        BY <1>5, <2>2 DEF AddUser, Done
      <3>4. QED
        BY <2>1, <2>2, <3>2, <3>3 DEF Goes
    <2>3. CASE ~(~Knows(op) /\ \E b \in At(op.tag) : HotUsers(b.protocol))
      BY <1>5, <2>3 DEF AddUser, Refuses
    <2>4. QED
      BY <2>2, <2>3
  <1>6. ASSUME RemoveUser(op) PROVE Goes(op) \/ (Refuses(op) /\ Fails)
    <2>1. PICK X : X = {IF b.tag = op.tag
                             THEN [b EXCEPT !.clients = {c \in @ : c.email # <<op.user.id, op.in.id>>}]
                             ELSE b : b \in core.inbounds}
      OBVIOUS
    <2>2. CASE Knows(op)
      <3>1. core' = [core EXCEPT !.inbounds = X]
        BY <1>6, <2>1, <2>2 DEF RemoveUser, Running, AlterInbound
      <3>2. core'.inbounds = X /\ core' = [core EXCEPT !.inbounds = core'.inbounds]
        BY <3>1, CoreAltered
      <3>3. op.kind = "remove_user" /\ ops' = ops \ {op} /\ pc' = pc /\ failed' = failed
        BY <1>6, <2>2 DEF RemoveUser, Done
      <3>4. QED
        BY <2>1, <2>2, <3>2, <3>3 DEF Goes
    <2>3. CASE ~(Knows(op))
      BY <1>6, <2>3 DEF RemoveUser, Refuses
    <2>4. QED
      BY <2>2, <2>3
  <1>7. Goes(op) \/ (Refuses(op) /\ Fails)
    BY <1>1, <1>2, <1>3, <1>4, <1>5, <1>6
  <1>8. QED
    BY <1>1, <1>7 DEF ApplyRuntime

\* The part of the types that is about the core, and the form of its documents.
IsDocument(b) ==
    b = [tag |-> b.tag, protocol |-> b.protocol, settings |-> b.settings, clients |-> b.clients]

Typed(C) ==
    /\ \A b, c \in C : b.tag = c.tag => b = c
    /\ \A b \in C : b.clients # {} => Manages(b.protocol)
    /\ \A b \in C : IsDocument(b)

LEMMA BuiltDocument ==
    ASSUME NEW in
    PROVE  IsDocument(BuildInbound(in)) /\ (BuildInbound(in).clients # {} => Manages(in.protocol))
  BY DEF IsDocument, BuildInbound, Document, Clients

LEMMA AlteredUsers ==
    ASSUME NEW b, IsDocument(b), NEW more
    PROVE  LET d == [b EXCEPT !.clients = more]
           IN d.tag = b.tag /\ d.protocol = b.protocol /\ d.clients = more /\ IsDocument(d)
  BY DEF IsDocument

LEMMA BuiltTyped ==
    ASSUME NEW s, StateOK(s)
    PROVE  /\ BuildConfig(s).inbounds = {BuildInbound(in) : in \in Range(s.inbounds)}
           /\ BuildConfig(s).levels = Levels(s) /\ BuildConfig(s).rules = Rules(s)
           /\ BuildConfig(s).global = s.global
           /\ Typed(BuildConfig(s).inbounds)
  <1>1. BuildConfig(s) = [inbounds |-> {BuildInbound(in) : in \in Range(s.inbounds)},
                          levels |-> Levels(s), global |-> s.global, rules |-> Rules(s)]
    BY DEF BuildConfig
  <1>2. \A in : BuildInbound(in).tag = in.tag /\ BuildInbound(in).protocol = in.protocol
    BY DocumentIs
  <1>3. \A b, c \in {BuildInbound(in) : in \in Range(s.inbounds)} : b.tag = c.tag => b = c
    BY <1>2, Distinct
  <1>4. \A b \in {BuildInbound(in) : in \in Range(s.inbounds)} :
           IsDocument(b) /\ (b.clients # {} => Manages(b.protocol))
    BY <1>2, BuiltDocument
  <1>5. QED
    BY <1>1, <1>3, <1>4 DEF Typed

LEMMA RenewedTyped ==
    ASSUME NEW C, Typed(C), NEW D, NEW d,
           IsDocument(d), d.clients # {} => Manages(d.protocol),
           \A x \in D : x = d \/ (x \in C /\ x.tag # d.tag)
    PROVE  Typed(D)
  BY DEF Typed

LEMMA GoesTyped ==
    ASSUME CoreIs, Typed(core.inbounds), NEW op, Goes(op)
    PROVE  CoreIs' /\ Typed(core'.inbounds)
  <1>1. CoreIs'
    BY CoreAltered DEF Goes
  <1>2. CASE core'.inbounds = Without(op.tag)
    BY <1>1, <1>2 DEF Typed, Without
  <1>3. CASE At(op.in.tag) = {} /\ core'.inbounds = core.inbounds \union {BuildInbound(op.in)}
    <2>1. BuildInbound(op.in).tag = op.in.tag /\ BuildInbound(op.in).protocol = op.in.protocol
      BY DocumentIs
    <2>2. \A x \in core.inbounds : x.tag # op.in.tag
      BY <1>3 DEF At
    <2>3. \A x \in core'.inbounds :
             x = BuildInbound(op.in) \/ (x \in core.inbounds /\ x.tag # BuildInbound(op.in).tag)
      BY <1>3, <2>1, <2>2
    <2>4. QED
      BY <1>1, <2>1, <2>3, BuiltDocument, RenewedTyped
  <1>4. CASE /\ \E b \in At(op.tag) : HotUsers(b.protocol)
             /\ core'.inbounds = {IF b.tag = op.tag
                                  THEN [b EXCEPT !.clients = @ \union {Client(op.in, op.user)}]
                                  ELSE b : b \in core.inbounds}
    <2>1. PICK b \in core.inbounds : b.tag = op.tag /\ HotUsers(b.protocol)
      BY <1>4 DEF At
    <2>2. PICK more : more = b.clients \union {Client(op.in, op.user)}
      OBVIOUS
    <2>3. PICK d : d = [b EXCEPT !.clients = more]
      OBVIOUS
    <2>4. d.tag = op.tag /\ IsDocument(d) /\ Manages(d.protocol)
      BY <2>1, <2>3, AlteredUsers DEF Typed, HotUsers, Manages
    <2>5. \A x \in core.inbounds : x.tag = op.tag => x = b
      BY <2>1 DEF Typed
    <2>6. \A x \in core'.inbounds : x = d \/ (x \in core.inbounds /\ x.tag # d.tag)
      BY <1>4, <2>2, <2>3, <2>4, <2>5
    <2>7. QED
      BY <1>1, <2>4, <2>6, RenewedTyped
  <1>5. CASE /\ Knows(op)
             /\ core'.inbounds = {IF b.tag = op.tag
                                  THEN [b EXCEPT !.clients = {c \in @ : c.email # <<op.user.id, op.in.id>>}]
                                  ELSE b : b \in core.inbounds}
    <2>1. PICK b \in core.inbounds : b.tag = op.tag /\ b.clients # {}
      BY <1>5 DEF At, Knows
    <2>2. PICK more : more = {c \in b.clients : c.email # <<op.user.id, op.in.id>>}
      OBVIOUS
    <2>3. PICK d : d = [b EXCEPT !.clients = more]
      OBVIOUS
    <2>4. d.tag = op.tag /\ IsDocument(d) /\ Manages(d.protocol)
      BY <2>1, <2>3, AlteredUsers DEF Typed
    <2>5. \A x \in core.inbounds : x.tag = op.tag => x = b
      BY <2>1 DEF Typed
    <2>6. \A x \in core'.inbounds : x = d \/ (x \in core.inbounds /\ x.tag # d.tag)
      BY <1>5, <2>2, <2>3, <2>4, <2>5
    <2>7. QED
      BY <1>1, <2>4, <2>6, RenewedTyped
  <1>6. QED
    BY <1>1, <1>2, <1>3, <1>4, <1>5 DEF Goes

-----------------------------------------------------------------------------
(* The invariant                                                           *)

Serves(state) ==
    /\ core.inbounds = {BuildInbound(in) : in \in Range(state.inbounds)}
    /\ core.rules = Rules(state) /\ core.global = state.global
    /\ Levels(state) \subseteq core.levels

\* What the state file says the core runs, unless a plan has failed since.
Starts ==
    /\ prev # None => StateOK(prev)
    /\ pc = "idle" /\ ~failed /\ prev # None => Serves(prev)
    /\ pc = "persist" /\ ~failed => Serves(target)

During ==
    pc = "apply" =>
        /\ prev # None /\ ~RequiresRestart(prev, target)
        /\ \A o \in ops : Between(o, prev, target)
        /\ ~failed =>
              /\ PlanOK(ops, prev, target) /\ Apart(ops, prev, target)
              /\ Holding(core.inbounds, ops, prev, target)
              /\ core.rules = Rules(prev) /\ core.global = prev.global
              /\ Levels(prev) \subseteq core.levels

Invariant == CoreIs /\ Typed(core.inbounds) /\ TypeOK /\ Starts /\ During

LEMMA InitInvariant == Init => Invariant
  <1> SUFFICES ASSUME Init PROVE Invariant
    OBVIOUS
  <1>0. PICK s : s = [inbounds |-> <<>>, global |-> "none"]
    OBVIOUS
  <1>1. s.inbounds = <<>> /\ Range(s.inbounds) = {}
    BY <1>0 DEF Range
  <1>2. core.inbounds = {}
    BY <1>0, <1>1 DEF Init, BuildConfig
  <1>3. CoreIs
    BY DEF Init, BuildConfig, CoreIs
  <1>4. Typed(core.inbounds)
    BY <1>2 DEF Typed
  <1>5. TypeOK
    BY <1>2 DEF Init, TypeOK
  <1>6. Starts /\ During
    BY DEF Init, Starts, During
  <1>7. QED
    BY <1>3, <1>4, <1>5, <1>6 DEF Invariant

LEMMA TargetOK ==
    ASSUME TypeOK, pc # "idle"
    PROVE  StateOK(target)
  <1>1. asked \in Desired /\ target = EvaluateState(asked, view)
    BY DEF TypeOK
  <1>2. QED
    BY <1>1, DesiredAssumption, EvaluateStateIs

LEMMA SyncKeeps ==
    ASSUME Invariant, NEW d \in Desired, NEW v \in Views, Sync(d, v)
    PROVE  Invariant'
  <1>0. PICK next : next = EvaluateState(d, v)
    OBVIOUS
  <1>1. StateOK(next)
    BY <1>0, DesiredAssumption, EvaluateStateIs
  <1>2. /\ pc = "idle" /\ asked' = d /\ view' = v /\ target' = next /\ prev' = prev
    BY <1>0 DEF Sync
  <1>3. prev # None => StateOK(prev)
    BY DEF Invariant, Starts
  <1>4. CASE prev = None \/ RequiresRestart(prev, next)
    <2>1. pc' = "persist" /\ core' = BuildConfig(next) /\ ops' = {} /\ failed' = FALSE
      BY <1>2, <1>4 DEF Sync
    <2>2. CoreIs' /\ Typed(core'.inbounds)
      <3>1. CoreIs'
        BY <2>1 DEF CoreIs, BuildConfig
      <3>2. Typed(core'.inbounds)
        BY <1>1, <2>1, BuiltTyped
      <3>3. QED
        BY <3>1, <3>2
    <2>3. TypeOK'
      BY <1>0, <1>2, <2>1, <2>2 DEF TypeOK, Typed
    <2>4. Serves(target)'
      BY <1>1, <1>2, <2>1, BuiltTyped DEF Serves
    <2>5. Starts' /\ During'
      BY <1>2, <1>3, <2>1, <2>4 DEF Starts, During
    <2>6. QED
      BY <2>2, <2>3, <2>5 DEF Invariant
  <1>5. CASE ~(prev = None \/ RequiresRestart(prev, next))
    <2>1. /\ pc' = "apply" /\ ops' = PlanRuntime(prev, next)
          /\ core' = core /\ failed' = failed
      BY <1>2, <1>5 DEF Sync
    <2>2. CoreIs' /\ Typed(core'.inbounds)
      BY <2>1 DEF Invariant, CoreIs
    <2>3. TypeOK'
      BY <1>0, <1>2, <2>1, <2>2 DEF TypeOK, Typed, Invariant
    <2>4. Starts'
      BY <1>2, <1>3, <2>1 DEF Starts
    <2>5. /\ PlanOK(ops', prev, next) /\ Apart(ops', prev, next)
          /\ Holding({BuildInbound(in) : in \in Range(prev.inbounds)}, ops', prev, next)
      BY <1>1, <1>3, <1>5, <2>1, PlanStarts
    <2>6. ~failed => Serves(prev)
      BY <1>2, <1>5 DEF Invariant, Starts
    <2>7. \A o \in ops' : Between(o, prev, next)
      BY <2>5 DEF PlanOK
    <2>8. During'
      BY <1>2, <1>5, <2>1, <2>5, <2>6, <2>7 DEF During, Serves
    <2>9. QED
      BY <2>2, <2>3, <2>4, <2>8 DEF Invariant
  <1>6. QED
    BY <1>4, <1>5

\* An operation that goes through keeps the core what the rest of the plan says.
LEMMA GoesKeeps ==
    ASSUME NEW a, NEW b, StateOK(a), StateOK(b), CoreIs, NEW op \in ops, Goes(op),
           PlanOK(ops, a, b), Apart(ops, a, b), Holding(core.inbounds, ops, a, b)
    PROVE  PlanOK(ops', a, b) /\ Apart(ops', a, b) /\ Holding(core'.inbounds, ops', a, b)
  <1>1. CASE /\ op.kind = "remove_inbound" /\ core'.inbounds = Without(op.tag)
             /\ ops' = ops \ {op}
    BY <1>1, RemoveInboundKeeps DEF Without
  <1>2. CASE /\ op.kind = "add_inbound" /\ At(op.in.tag) = {}
             /\ core'.inbounds = core.inbounds \union {BuildInbound(op.in)} /\ ops' = ops \ {op}
    <2>1. \A x \in core.inbounds : x.tag # op.in.tag
      BY <1>2 DEF At
    <2>2. QED
      BY <1>2, <2>1, AddInboundKeeps
  <1>3. CASE /\ op.kind = "replace_inbound" /\ core'.inbounds = Without(op.tag)
             /\ ops' = (ops \ {op}) \union {Addition(op.at, op.in)}
    BY <1>3, ReplaceInboundKeeps DEF Without
  <1>4. CASE /\ op.kind = "add_user" /\ ~Knows(op)
             /\ core'.inbounds = {IF b_1.tag = op.tag
                                  THEN [b_1 EXCEPT !.clients = @ \union {Client(op.in, op.user)}]
                                  ELSE b_1 : b_1 \in core.inbounds}
             /\ ops' = ops \ {op}
    <2>1. ~\E x \in core.inbounds : x.tag = op.tag
             /\ \E c \in x.clients : c.email = <<op.user.id, op.in.id>>
      BY <1>4 DEF Knows, At
    <2>2. QED
      BY <1>4, <2>1, AddUserKeeps
  <1>5. CASE /\ op.kind = "remove_user"
             /\ core'.inbounds = {IF b_1.tag = op.tag
                                  THEN [b_1 EXCEPT !.clients = {c \in @ : c.email # <<op.user.id, op.in.id>>}]
                                  ELSE b_1 : b_1 \in core.inbounds}
             /\ ops' = ops \ {op}
    BY <1>5, RemoveUserKeeps
  <1>6. QED
    BY <1>1, <1>2, <1>3, <1>4, <1>5 DEF Goes

LEMMA ApplyKeeps ==
    ASSUME Invariant, ApplyRuntime
    PROVE  Invariant'
  <1>1. CoreIs /\ Typed(core.inbounds) /\ TypeOK /\ Starts /\ During
    BY DEF Invariant
  <1>2. /\ pc = "apply" /\ asked' = asked /\ view' = view /\ prev' = prev /\ target' = target
    BY <1>1, StepIs
  <1>3. PICK op \in ops : Goes(op) \/ Fails
    BY <1>1, StepIs
  <1>4. StateOK(prev) /\ StateOK(target)
    BY <1>1, <1>2, TargetOK DEF Starts, During
  <1>5. CASE Goes(op)
    <2>1. pc' = pc /\ failed' = failed /\ core' = [core EXCEPT !.inbounds = core'.inbounds]
      BY <1>5 DEF Goes
    <2>2. CoreIs' /\ Typed(core'.inbounds)
      BY <1>1, <1>5, GoesTyped
    <2>3. TypeOK'
      BY <1>1, <1>2, <2>1, <2>2 DEF TypeOK, Typed
    <2>4. Starts'
      BY <1>2, <1>4, <2>1 DEF Starts
    <2>5. \A o \in ops' : Between(o, prev, target)
      <3>1. \A o \in ops : Between(o, prev, target)
        BY <1>1, <1>2 DEF During
      <3>2. op.kind = "replace_inbound" => Between(Addition(op.at, op.in), prev, target)
        BY <1>4, <3>1, SecondHalf
      <3>3. \A o \in ops' : o \in ops \/ (op.kind = "replace_inbound" /\ o = Addition(op.at, op.in))
        BY <1>5 DEF Goes
      <3>4. QED
        BY <3>1, <3>2, <3>3
    <2>6. ASSUME ~failed
          PROVE  /\ PlanOK(ops', prev, target) /\ Apart(ops', prev, target)
                 /\ Holding(core'.inbounds, ops', prev, target)
      <3>1. /\ PlanOK(ops, prev, target) /\ Apart(ops, prev, target)
            /\ Holding(core.inbounds, ops, prev, target)
        BY <1>1, <1>2, <2>6 DEF During
      <3>2. QED
        BY <1>1, <1>4, <1>5, <3>1, GoesKeeps
    <2>7. core'.levels = core.levels /\ core'.global = core.global /\ core'.rules = core.rules
      BY <1>1, <2>1, CoreAltered
    <2>8. During'
      BY <1>1, <1>2, <2>1, <2>5, <2>6, <2>7 DEF During
    <2>9. QED
      BY <2>2, <2>3, <2>4, <2>8 DEF Invariant
  <1>6. CASE Fails
    <2>1. ops' = {} /\ pc' = "persist" /\ failed' = TRUE /\ core' = core
      BY <1>6 DEF Fails
    <2>2. TypeOK'
      BY <1>1, <1>2, <2>1 DEF TypeOK
    <2>3. Starts' /\ During'
      BY <1>2, <1>4, <2>1 DEF Starts, During
    <2>4. CoreIs' /\ Typed(core'.inbounds)
      BY <1>1, <2>1 DEF CoreIs
    <2>5. QED
      BY <2>2, <2>3, <2>4 DEF Invariant
  <1>7. QED
    BY <1>3, <1>5, <1>6

LEMMA AppliedKeeps ==
    ASSUME Invariant, Applied
    PROVE  Invariant'
  <1>1. CoreIs /\ Typed(core.inbounds) /\ TypeOK /\ Starts /\ During
    BY DEF Invariant
  <1>2. /\ pc = "apply" /\ ops = {} /\ pc' = "persist" /\ failed' = failed
        /\ asked' = asked /\ view' = view /\ prev' = prev /\ target' = target
        /\ core' = core /\ ops' = ops
    BY DEF Applied
  <1>3. TypeOK'
    BY <1>1, <1>2 DEF TypeOK
  <1>4. ASSUME ~failed PROVE Serves(target)
    <2>1. /\ Holding(core.inbounds, {}, prev, target) /\ ~RequiresRestart(prev, target)
          /\ core.rules = Rules(prev) /\ core.global = prev.global /\ Levels(prev) \subseteq core.levels
      BY <1>1, <1>2, <1>4 DEF During
    <2>2. core.inbounds = {BuildInbound(in) : in \in Range(target.inbounds)}
      BY <2>1, PlanEnds
    <2>3. Rules(prev) = Rules(target) /\ prev.global = target.global /\ Levels(target) \subseteq Levels(prev)
      BY <2>1 DEF RequiresRestart, GlobalEqual, Rules
    <2>4. QED
      BY <2>1, <2>2, <2>3 DEF Serves
  <1>5. Serves(target)' <=> Serves(target)
    BY <1>2 DEF Serves
  <1>6. Starts' /\ During'
    BY <1>1, <1>2, <1>4, <1>5 DEF Starts, During
  <1>7. CoreIs' /\ Typed(core'.inbounds)
    BY <1>1, <1>2 DEF CoreIs
  <1>8. QED
    BY <1>3, <1>6, <1>7 DEF Invariant

LEMMA PersistKeeps ==
    ASSUME Invariant, PersistState
    PROVE  Invariant'
  <1>1. CoreIs /\ Typed(core.inbounds) /\ TypeOK /\ Starts
    BY DEF Invariant
  <1>2. /\ pc = "persist" /\ prev' = RoundTrip(target) /\ pc' = "idle" /\ failed' = failed
        /\ asked' = None /\ view' = None /\ target' = None /\ core' = core /\ ops' = ops
    BY DEF PersistState
  <1>3. StateOK(target)
    BY <1>1, <1>2, TargetOK
  <1>4. TypeOK'
    BY <1>1, <1>2 DEF TypeOK
  <1>5. StateOK(RoundTrip(target))
    BY <1>3, RoundTripIs
  <1>6. ASSUME ~failed PROVE Serves(prev)'
    <2>1. Serves(target)
      BY <1>1, <1>2, <1>6 DEF Starts
    <2>2. QED
      BY <1>2, <1>3, <2>1, RoundTripIs DEF Serves
  <1>7. Starts' /\ During'
    BY <1>2, <1>5, <1>6 DEF Starts, During
  <1>8. CoreIs' /\ Typed(core'.inbounds)
    BY <1>1, <1>2 DEF CoreIs
  <1>9. QED
    BY <1>4, <1>7, <1>8 DEF Invariant

LEMMA StepInvariant ==
    ASSUME Invariant, [Next]_vars
    PROVE  Invariant'
  <1>1. CASE UNCHANGED vars
    BY <1>1 DEF Invariant, vars, CoreIs, Typed, TypeOK, Starts, During, Serves
  <1>2. CASE Next
    BY <1>2, SyncKeeps, ApplyKeeps, AppliedKeeps, PersistKeeps DEF Next
  <1>3. QED
    BY <1>1, <1>2

\* Whatever the panel asks for and whatever Evaluate blocks, before a sync the
\* core holds what the state the agent remembers builds, and while the plan runs
\* it holds that state with the operations still to come taken out of the new
\* one (PlanHotUpdate, applyHotPlan).
THEOREM InvariantHolds == Spec => []Invariant
  <1>1. Init => Invariant
    BY InitInvariant
  <1>2. Invariant /\ [Next]_vars => Invariant'
    BY StepInvariant
  <1>3. QED
    BY <1>1, <1>2, PTL DEF Spec

-----------------------------------------------------------------------------
(* What follows of it                                                      *)

LEMMA TypesHold == Invariant => TypeOK
  BY DEF Invariant

LEMMA ReachesHold == Invariant => PlanReaches
  <1> SUFFICES ASSUME Invariant, pc = "persist", ~failed
               PROVE  /\ core.inbounds = BuildConfig(target).inbounds
                      /\ core.rules = Rules(target)
                      /\ core.global = target.global
                      /\ Levels(target) \subseteq core.levels
    BY DEF PlanReaches
  <1>1. Serves(target) /\ StateOK(target)
    BY TargetOK DEF Invariant, Starts
  <1>2. QED
    BY <1>1, BuiltTyped DEF Serves

LEMMA UndisturbedHolds == Invariant => Undisturbed
  <1> SUFFICES ASSUME Invariant, pc = "apply", ~failed,
                      NEW in \in Range(target.inbounds), HotUsers(in.protocol),
                      NEW u \in EnabledUsers(in), Unchanged(in, u)
               PROVE  \E b \in At(in.tag) : Client(in, u) \in b.clients
    BY DEF Undisturbed
  <1>1. StateOK(prev) /\ StateOK(target)
    BY TargetOK DEF Invariant, Starts, During
  <1>2. PlanOK(ops, prev, target) /\ Holding(core.inbounds, ops, prev, target)
    BY DEF Invariant, During
  <1>3. PICK old \in Range(prev.inbounds) :
           /\ old.id = in.id /\ BaseEqual(old, in)
           /\ Client(in, u) \in {Client(old, w) : w \in EnabledUsers(old)}
    BY DEF Unchanged
  <1>4. Has(prev.inbounds, in.id) /\ Old(prev, in) = old
    BY <1>1, <1>3, OfIs DEF Old
  <1>5. ~Replaces(prev, in)
    BY <1>3, <1>4 DEF Replaces
  <1>6. ~Waits(ops, "add_inbound", in) /\ ~Waits(ops, "replace_inbound", in)
    BY <1>1, <1>2, <1>4, <1>5, KindIs DEF Waits, PlanOK
  <1>7. Ongoing(ops, in) \in core.inbounds /\ Ongoing(ops, in).tag = in.tag
    BY <1>2, <1>6, DocumentIs DEF Holding, Shown, Ongoing
  <1>8. PICK w \in EnabledUsers(old) : Client(in, u) = Client(old, w)
    BY <1>3
  <1>9. Client(in, u) \notin Joining(ops, in)
    <2>1. SUFFICES ASSUME NEW o \in ops, o.kind = "add_user", o.in = in,
                          Client(in, u) = Client(o.in, o.user)
                   PROVE  FALSE
      BY DEF Joining
    <2>2. o.user \in Range(in.users) /\ Added(o.user, old.users)
      BY <1>1, <1>2, <1>4, <2>1, KindIs DEF PlanOK
    <2>3. w.id = o.user.id /\ UserEqual(o.user, w)
      <3>1. Client(o.in, o.user) = Client(old, w)
        BY <1>8, <2>1
      <3>2. QED
        BY <3>1, SameClient
    <2>4. w \in ById(old.users, o.user.id) /\ w.enabled
      BY <2>3 DEF ById, EnabledUsers
    <2>5. QED
      BY <2>2, <2>3, <2>4 DEF Added
  <1>10. Client(in, u) \in Clients(in)
    BY DEF Clients, HotUsers, Manages
  <1>11. Client(in, u) \in Ongoing(ops, in).clients
    BY <1>9, <1>10, DocumentIs DEF Ongoing
  <1>12. QED
    BY <1>7, <1>11 DEF At

LEMMA QuietHolds == Invariant => QuietPlan
  <1> SUFFICES ASSUME Invariant, pc = "apply", prev = RoundTrip(target), NEW o \in ops
               PROVE  o.in.settings = "empty"
    BY DEF QuietPlan
  <1>1. StateOK(prev) /\ StateOK(target) /\ Between(o, prev, target)
    BY TargetOK DEF Invariant, Starts, During
  <1>2. \A in \in Range(target.inbounds) :
           Has(prev.inbounds, in.id) /\ Old(prev, in) = Kept(in)
    <2>1. ASSUME NEW in \in Range(target.inbounds)
          PROVE  Has(prev.inbounds, in.id) /\ Old(prev, in) = Kept(in)
      <3>1. Kept(in) \in Range(prev.inbounds)
        BY <1>1, RoundTripIs
      <3>2. Kept(in).id = in.id
        BY KeptIs
      <3>3. QED
        BY <1>1, <3>1, <3>2, OfIs DEF Old
    <2>2. QED
      BY <2>1
  <1>3. ASSUME NEW in \in Range(target.inbounds)
        PROVE  /\ UsersEqual(Kept(in).users, in.users)
               /\ in.settings # "empty" => BaseEqual(Kept(in), in)
    <2>1. Kept(in).users = in.users
      BY KeptIs
    <2>2. UsersEqual(in.users, in.users)
      BY DEF UsersEqual, ById, UserEqual
    <2>3. in.settings # "empty" => BaseEqual(Kept(in), in)
      BY KeptIs DEF BaseEqual
    <2>4. QED
      BY <2>1, <2>2, <2>3
  <1>4. \A in \in Range(target.inbounds) : ~Alters(prev, in)
    BY <1>2, <1>3 DEF Alters
  <1>5. \A in \in Range(target.inbounds) : Replaces(prev, in) => in.settings = "empty"
    BY <1>2, <1>3 DEF Replaces
  <1>6. \A x \in Range(prev.inbounds) : Has(target.inbounds, x.id)
    BY <1>1, RoundTripIs, KeptIs DEF Has, ById
  <1>7. CASE o.kind = "remove_inbound"
    BY <1>1, <1>6, <1>7, KindIs
  <1>8. CASE o.kind \in {"add_inbound", "replace_inbound"}
    BY <1>1, <1>2, <1>5, <1>8, KindIs
  <1>9. CASE o.kind \in {"add_user", "remove_user"}
    BY <1>1, <1>4, <1>9, KindIs
  <1>10. QED
    BY <1>1, <1>7, <1>8, <1>9, KindIs

\* Nothing but a tag that moves between inbounds that stay can be refused.
LEMMA RefusalIs ==
    ASSUME Invariant, ~failed, pc = "apply",
           NEW op \in ops, \A o \in ops \ {op} : Before(op.at, o.at), Refuses(op)
    PROVE  Handover(prev, target)
  <1>1. StateOK(prev) /\ StateOK(target)
    BY TargetOK DEF Invariant, Starts, During
  <1>2. /\ PlanOK(ops, prev, target) /\ Apart(ops, prev, target)
        /\ Holding(core.inbounds, ops, prev, target)
    BY DEF Invariant, During
  <1>3. Between(op, prev, target)
    BY <1>2 DEF PlanOK
  <1>4. CASE op.kind = "remove_inbound"
    <2>1. BuildInbound(op.in) \in core.inbounds /\ BuildInbound(op.in).tag = op.tag
      BY <1>1, <1>2, <1>4, AtGone
    <2>2. QED
      BY <1>4, <2>1 DEF Refuses, At
  <1>5. CASE op.kind = "add_inbound"
    <2>1. op.in \in Range(target.inbounds)
      BY <1>1, <1>3, <1>5, KindIs
    <2>2. PICK x \in core.inbounds : x.tag = op.in.tag
      BY <1>5 DEF Refuses, At
    <2>3. x \notin Gone(ops)
      <3>1. ASSUME NEW o \in ops, o.kind = "remove_inbound" PROVE FALSE
        <4>1. PICK k \in DOMAIN prev.inbounds : o.at = <<0, k>>
          BY <1>2, <3>1 DEF PlanOK, Between, Removes, Adds, Swaps, Joins, Leaves
        <4>2. PICK i \in DOMAIN target.inbounds : op.at = <<i, 0>>
          BY <1>3, <1>5 DEF Between, Removes, Adds, Swaps, Joins, Leaves
        <4>3. i \in Nat /\ i > 0 /\ op.at[1] = i /\ o.at[1] = 0
          BY <1>1, <4>1, <4>2 DEF StateOK
        <4>4. Before(op.at, o.at)
          BY <1>5, <3>1
        <4>5. QED
          BY <4>3, <4>4 DEF Before
      <3>2. QED
        BY <3>1 DEF Gone
    <2>4. PICK in \in Range(target.inbounds) : x \in Shown(ops, prev, in)
      BY <1>2, <2>3 DEF Holding
    <2>5. in # op.in
      BY <1>5, <2>4 DEF Shown, Waits
    <2>6. in.id # op.in.id /\ in.tag # op.in.tag
      BY <1>1, <2>1, <2>5, Distinct
    <2>7. ~Waits(ops, "add_inbound", in)
      BY <2>4 DEF Shown
    <2>8. Waits(ops, "replace_inbound", in)
      <3>1. x # Ongoing(ops, in)
        BY <2>2, <2>6, DocumentIs DEF Ongoing
      <3>2. QED
        BY <2>4, <2>7, <3>1 DEF Shown
    <2>9. x = BuildInbound(Old(prev, in))
      BY <2>4, <2>7, <2>8 DEF Shown
    <2>10. Old(prev, in).tag = op.in.tag
      BY <2>2, <2>9, DocumentIs
    <2>11. Has(prev.inbounds, in.id)
      BY <1>1, <1>2, <2>8, KindIs DEF Waits, PlanOK, Replaces
    <2>12. Old(prev, in) \in Range(prev.inbounds) /\ Old(prev, in).id = in.id
      BY <2>11, OfHas DEF Old
    <2>13. Has(target.inbounds, in.id)
      BY DEF Has, ById
    <2>14. QED
      BY <2>1, <2>6, <2>10, <2>12, <2>13 DEF Handover
  <1>6. CASE op.kind = "replace_inbound"
    <2>1. op.in \in Range(target.inbounds) /\ op.tag = Old(prev, op.in).tag
      BY <1>1, <1>3, <1>6, KindIs
    <2>2. ~Waits(ops, "add_inbound", op.in) /\ Waits(ops, "replace_inbound", op.in)
      BY <1>2, <1>6 DEF Waits, PlanOK
    <2>3. BuildInbound(Old(prev, op.in)) \in core.inbounds
      BY <1>2, <2>1, <2>2 DEF Holding, Shown
    <2>4. QED
      BY <1>6, <2>1, <2>3, DocumentIs DEF Refuses, At
  <1>7. CASE op.kind = "add_user"
    <2>1. /\ op.in \in Range(target.inbounds) /\ Alters(prev, op.in) /\ op.tag = op.in.tag
          /\ op.user \in Range(op.in.users) /\ Added(op.user, Old(prev, op.in).users)
      BY <1>1, <1>3, <1>7, KindIs
    <2>2. PICK new : new = op.in
      OBVIOUS
    <2>3. Shown(ops, prev, new) = {Ongoing(ops, new)}
      BY <1>1, <1>2, <2>1, <2>2, AltersShown
    <2>4. /\ Ongoing(ops, new) \in core.inbounds
          /\ Ongoing(ops, new).tag = new.tag /\ Ongoing(ops, new).protocol = new.protocol
          /\ \A x \in core.inbounds : x.tag = new.tag => x = Ongoing(ops, new)
      <3>1. Ongoing(ops, new).tag = new.tag /\ Ongoing(ops, new).protocol = new.protocol
        BY DocumentIs DEF Ongoing
      <3>2. QED
        BY <1>1, <1>2, <2>1, <2>2, <2>3, <3>1, AtShown
    <2>5. \E x \in At(op.tag) : HotUsers(x.protocol)
      BY <2>1, <2>2, <2>4 DEF At, Alters
    <2>6. Knows(op)
      BY <1>7, <2>5 DEF Refuses
    <2>7. PICK c \in Ongoing(ops, new).clients : c.email = <<op.user.id, new.id>>
      BY <2>1, <2>2, <2>4, <2>6 DEF Knows, At
    <2>8. CASE c \in Clients(new) /\ c \notin Joining(ops, new)
      <3>1. PICK w \in EnabledUsers(new) : c = Client(new, w)
        BY <2>8 DEF Clients
      <3>2. w.id = op.user.id
        BY <2>7, <3>1, EmailIs
      <3>3. w = op.user
        BY <1>1, <2>1, <2>2, <3>2, Distinct DEF EnabledUsers
      <3>4. c \in Joining(ops, new)
        BY <1>7, <2>2, <3>1, <3>3 DEF Joining
      <3>5. QED
        BY <2>8, <3>4
    <2>9. CASE c \in Leaving(ops, new)
      <3>1. PICK o \in ops : o.kind = "remove_user" /\ o.in.id = new.id
        BY <2>9 DEF Leaving
      <3>2. PICK j \in DOMAIN target.inbounds : Leaves(o, j, prev, target)
        BY <1>2, <3>1 DEF PlanOK, Between, Removes, Adds, Swaps, Joins
      <3>3. PICK i \in DOMAIN target.inbounds : Joins(op, i, prev, target)
        BY <1>3, <1>7 DEF Between, Removes, Adds, Swaps, Leaves
      <3>a. target.inbounds[i] = new
        BY <2>2, <3>3 DEF Joins
      <3>b. /\ o.in = Old(prev, target.inbounds[j])
            /\ Has(prev.inbounds, target.inbounds[j].id)
        BY <3>2 DEF Leaves, Alters
      <3>4. target.inbounds[j].id = o.in.id /\ target.inbounds[i] = new
        BY <1>1, <3>a, <3>b, PlaceIs
      <3>5. i = j
        BY <1>1, <3>1, <3>4, PlaceIs
      <3>6. PICK old : old = Old(prev, new)
        OBVIOUS
      <3>7. o.in = old /\ old \in Range(prev.inbounds)
        BY <1>1, <3>2, <3>4, <3>5, <3>6, PlaceIs DEF Leaves, Alters
      <3>8. PICK k \in DOMAIN old.users : o.at = <<i, k>>
        BY <3>2, <3>5, <3>7 DEF Leaves
      <3>9. PICK l \in DOMAIN new.users : op.at = <<i, Len(old.users) + l>>
        BY <2>2, <3>3, <3>6 DEF Joins
      <3>10. /\ i \in Nat /\ k \in Nat /\ l \in Nat /\ l > 0
             /\ Len(old.users) \in Nat /\ k <= Len(old.users)
        <4>1. target.inbounds \in Seq(Range(target.inbounds))
          BY <1>1 DEF StateOK
        <4>2. old.users \in Seq(Range(old.users))
          BY <1>1, <3>7 DEF StateOK
        <4>3. new.users \in Seq(Range(new.users))
          BY <1>1, <2>1, <2>2 DEF StateOK
        <4>4. i \in Nat
          BY <4>1
        <4>5. k \in Nat /\ Len(old.users) \in Nat /\ k <= Len(old.users)
          BY <3>8, <4>2
        <4>6. l \in Nat /\ l > 0
          BY <3>9, <4>3
        <4>7. QED
          BY <4>4, <4>5, <4>6
      <3>11. Before(op.at, o.at)
        BY <1>7, <3>1
      <3>12. QED
        BY <3>8, <3>9, <3>10, <3>11 DEF Before
    <2>10. QED
      BY <2>7, <2>8, <2>9, DocumentIs DEF Ongoing
  <1>8. CASE op.kind = "remove_user"
    <2>1. PICK new \in Range(target.inbounds) :
             op.in.id = new.id /\ Alters(prev, new) /\ op.tag = new.tag
      BY <1>1, <1>3, <1>8, KindIs
    <2>2. Shown(ops, prev, new) = {Ongoing(ops, new)}
      BY <1>1, <1>2, <2>1, AltersShown
    <2>3. Ongoing(ops, new) \in core.inbounds /\ Ongoing(ops, new).tag = op.tag
      BY <1>2, <2>1, <2>2, DocumentIs DEF Holding, Ongoing
    <2>4. Client(op.in, op.user) \in Ongoing(ops, new).clients
      BY <1>8, <2>1, DocumentIs DEF Ongoing, Leaving
    <2>5. Client(op.in, op.user).email = <<op.user.id, op.in.id>>
      BY EmailIs
    <2>6. Knows(op)
      BY <2>3, <2>4, <2>5 DEF Knows, At
    <2>7. QED
      BY <1>8, <2>6 DEF Refuses
  <1>9. QED
    BY <1>4, <1>5, <1>6, <1>7, <1>8 DEF Refuses

LEMMA FailureIs ==
    ASSUME Invariant, [Next]_vars, failed', ~failed
    PROVE  Handover(prev, target)
  <1>1. failed \in BOOLEAN /\ CoreIs
    BY DEF Invariant, TypeOK
  <1>2. ApplyRuntime
    BY DEF Next, vars, Sync, Applied, PersistState
  <1>3. PICK op \in ops :
           /\ \A o \in ops \ {op} : Before(op.at, o.at)
           /\ Goes(op) \/ (Refuses(op) /\ Fails)
    BY <1>1, <1>2, StepIs
  <1>4. Refuses(op) /\ pc = "apply"
    BY <1>1, <1>2, <1>3, StepIs DEF Goes
  <1>5. QED
    BY <1>3, <1>4, RefusalIs

LEMMA CountedOnce ==
    ASSUME NEW S, IsFiniteSet(S), NEW f, S \subseteq DOMAIN f,
           \A j, k \in S : f[j] = f[k] => j = k,
           NEW R, R = {f[j] : j \in S}
    PROVE  Cardinality(R) = Cardinality(S)
  <1>1. PICK g : g = [j \in S |-> f[j]]
    OBVIOUS
  <1>2. g \in Surjection(S, R)
    BY <1>1 DEF Surjection
  <1>3. g \in Injection(S, R)
    BY <1>1 DEF Injection, IsInjective
  <1>4. QED
    BY <1>2, <1>3, FS_Surjection

\* A user without an account counts for none.
Named(a) == a # ""

LEMMA OfNamed ==
    ASSUME NEW users, NEW mode, NEW v, NEW a, Named(a)
    PROVE  \A j : j \in OfAccount(users, mode, v, a)
                    <=> /\ j \in DOMAIN users
                        /\ OwnReason(users[j], mode, v) = "none" /\ users[j].account = a
  BY Zenon DEF OfAccount, Left, Named

FreeOf(users, mode, v, a) ==
    {u \in Range(users) : OwnReason(u, mode, v) = "none" /\ u.account = a}

LimitsOf(users, mode, v, a) == {u.deviceLimit : u \in FreeOf(users, mode, v, a)} \ {0}

ServedOf(users, a) == {u \in Range(users) : u.enabled /\ u.account = a}

\* Of one list of users.
LEMMA CapsOf ==
    ASSUME NEW users, users \in Seq(Range(users)), NEW mode, NEW v,
           \A u \in Range(users) : UserFields \subseteq DOMAIN u,
           \A u \in Range(users) : u.deviceLimit \in Nat,
           \A j, k \in DOMAIN users : users[j].id = users[k].id => j = k,
           NEW e, e = Evaluate(users, mode, v),
           NEW a, Named(a), NEW caps, caps = LimitsOf(users, mode, v, a)
    PROVE  /\ \A n \in caps : Cardinality(ServedOf(e, a)) <= n
           /\ \/ Cardinality(ServedOf(e, a)) = Cardinality(FreeOf(users, mode, v, a))
              \/ Cardinality(ServedOf(e, a)) \in caps
  <1>1. PICK N \in Nat : DOMAIN users = 1..N
    OBVIOUS
  <1>2. /\ DOMAIN e = DOMAIN users
        /\ \A j \in DOMAIN users :
              /\ e[j].id = users[j].id /\ e[j].account = users[j].account
              /\ e[j].enabled = (Reason(users, mode, v, j) = "none")
    BY EvaluateIs
  <1>3. PICK S : S = OfAccount(users, mode, v, a)
    OBVIOUS
  <1>4. PICK E : E = {j \in S : Reason(users, mode, v, j) = "none"}
    OBVIOUS
  <1>5. \A j : j \in S <=> /\ j \in DOMAIN users
                           /\ OwnReason(users[j], mode, v) = "none" /\ users[j].account = a
    BY <1>3, OfNamed
  <1>6. IsFiniteSet(S) /\ IsFiniteSet(E) /\ E \subseteq S /\ S \subseteq DOMAIN users
    <2>1. IsFiniteSet(1..N)
      BY <1>1, FS_Interval
    <2>2. S \in SUBSET (1..N)
      BY <1>1, <1>5
    <2>3. IsFiniteSet(S)
      BY <2>1, <2>2, FS_Subset
    <2>4. E \in SUBSET S
      BY <1>4
    <2>5. IsFiniteSet(E)
      BY <2>3, <2>4, FS_Subset
    <2>6. QED
      BY <1>1, <2>2, <2>3, <2>4, <2>5
  <1>7. FreeOf(users, mode, v, a) = {users[j] : j \in S}
    <2>1. \A u : u \in FreeOf(users, mode, v, a) <=> \E j \in S : u = users[j]
      BY <1>5 DEF FreeOf, Range
    <2>2. QED
      BY <2>1
  <1>8. caps = DeviceLimits(users, mode, v, a)
    <2>1. \A n : n \in caps <=> n # 0 /\ \E j \in S : n = users[j].deviceLimit
      BY <1>7 DEF LimitsOf
    <2>2. \A n : n \in DeviceLimits(users, mode, v, a) <=> n # 0 /\ \E j \in S : n = users[j].deviceLimit
      BY <1>3 DEF DeviceLimits
    <2>3. QED
      BY <2>1, <2>2
  <1>9. Cardinality(FreeOf(users, mode, v, a)) = Cardinality(S)
    <2>1. \A j, k \in S : users[j] = users[k] => j = k
      BY <1>6
    <2>2. QED
      BY <1>6, <1>7, <2>1, CountedOnce
  <1>10. ServedOf(e, a) = {e[j] : j \in E}
    <2>1. ASSUME NEW j \in DOMAIN users
          PROVE  j \in E <=> e[j].enabled /\ e[j].account = a
      <3>1. Reason(users, mode, v, j) = "none" => OwnReason(users[j], mode, v) = "none"
        BY DEF Reason
      <3>2. QED
        BY <1>2, <1>4, <1>5, <3>1
    <2>2. \A u : u \in ServedOf(e, a) <=> \E j \in DOMAIN users : u = e[j] /\ u.enabled /\ u.account = a
      BY <1>2 DEF ServedOf, Range
    <2>3. \A u : u \in ServedOf(e, a) <=> \E j \in E : u = e[j]
      BY <1>6, <2>1, <2>2
    <2>4. QED
      BY <2>3
  <1>11. Cardinality(ServedOf(e, a)) = Cardinality(E)
    <2>1. \A j, k \in E : j \in DOMAIN users /\ k \in DOMAIN users
      BY <1>6
    <2>2. \A j, k \in E : e[j] = e[k] => j = k
      BY <1>2, <2>1
    <2>3. E \subseteq DOMAIN e
      BY <1>2, <1>6
    <2>4. QED
      BY <1>6, <1>10, <2>2, <2>3, CountedOnce
  <1>12. \A j \in 1..N : users[j].deviceLimit \in Nat
    BY <1>1 DEF Range
  <1>13. \A n \in caps : Cardinality(E) <= n
    <2>1. WithinEveryCap(users, mode, v)
      BY <1>1, <1>12, CapsAreKept
    <2>2. QED
      BY <1>3, <1>4, <1>8, <2>1 DEF WithinEveryCap
  <1>14. E = S \/ Cardinality(E) \in DeviceLimits(users, mode, v, a)
    BY <1>1, <1>3, <1>4, <1>12, CapsAreUsed
  <1>15. QED
    BY <1>8, <1>9, <1>11, <1>13, <1>14

Free(in, v) ==
    {u \in Range(in.users) : u.account # "" /\ OwnReason(u, in.mode, v) = "none"}

LEMMA CapsHold == Invariant => DeviceCap
  <1> SUFFICES ASSUME Invariant, pc # "idle", NEW i \in DOMAIN asked.inbounds
               PROVE  LET free == Free(asked.inbounds[i], view)
                      IN \A a \in {u.account : u \in free} :
                           LET caps == {u.deviceLimit : u \in {w \in free : w.account = a}} \ {0}
                               have == Cardinality({u \in free : u.account = a})
                               got  == Cardinality(Served(target.inbounds[i], a))
                           IN /\ \A n \in caps : got <= n
                              /\ got = have \/ got \in caps
    BY Zenon DEF DeviceCap, Free
  <1>1. asked \in Desired /\ target = EvaluateState(asked, view) /\ StateOK(asked)
    BY DesiredAssumption DEF Invariant, TypeOK
  <1>2. PICK in : in = asked.inbounds[i]
    OBVIOUS
  <1>3. in \in Range(asked.inbounds)
    BY <1>2 DEF Range
  <1>4. /\ in.users \in Seq(Range(in.users))
        /\ \A u \in Range(in.users) : UserFields \subseteq DOMAIN u
        /\ \A u \in Range(in.users) : u.deviceLimit \in Nat
        /\ \A j, k \in DOMAIN in.users : in.users[j].id = in.users[k].id => j = k
    BY <1>1, <1>3 DEF StateOK
  <1>5. target.inbounds[i].users = Evaluate(in.users, in.mode, view)
    BY <1>1, <1>2 DEF EvaluateState, Evaluated, With
  <1>6. \A a : Served(target.inbounds[i], a) = ServedOf(Evaluate(in.users, in.mode, view), a)
    BY <1>5 DEF Served, ServedOf, EnabledUsers
  <1>7. PICK free : free = Free(in, view)
    OBVIOUS
  <1>a. \A u : u \in free <=> /\ u \in Range(in.users) /\ Named(u.account)
                              /\ OwnReason(u, in.mode, view) = "none"
    BY <1>7, Zenon DEF Free, Named
  <1>8. ASSUME NEW a \in {u.account : u \in free}
        PROVE  /\ \A n \in {u.deviceLimit : u \in {w \in free : w.account = a}} \ {0} :
                     Cardinality(Served(target.inbounds[i], a)) <= n
               /\ \/ Cardinality(Served(target.inbounds[i], a)) = Cardinality({u \in free : u.account = a})
                  \/ Cardinality(Served(target.inbounds[i], a))
                       \in {u.deviceLimit : u \in {w \in free : w.account = a}} \ {0}
    <2>1. Named(a)
      BY <1>a
    <2>2. {u \in free : u.account = a} = FreeOf(in.users, in.mode, view, a)
      BY <1>a, <2>1 DEF FreeOf
    <2>3. PICK caps : caps = LimitsOf(in.users, in.mode, view, a)
      OBVIOUS
    <2>4. PICK e : e = Evaluate(in.users, in.mode, view)
      OBVIOUS
    <2>5. /\ \A n \in caps : Cardinality(ServedOf(e, a)) <= n
          /\ \/ Cardinality(ServedOf(e, a)) = Cardinality(FreeOf(in.users, in.mode, view, a))
             \/ Cardinality(ServedOf(e, a)) \in caps
      BY <1>4, <2>1, <2>3, <2>4, CapsOf
    <2>6. Served(target.inbounds[i], a) = ServedOf(e, a)
      BY <1>6, <2>4
    <2>7. QED
      BY <2>2, <2>3, <2>5, <2>6 DEF LimitsOf
  <1>9. QED
    BY <1>2, <1>7, <1>8

-----------------------------------------------------------------------------
(* The theorems                                                            *)

\* The phases of a sync: what was asked for is known while it is carried out,
\* operations are left only while the plan runs, the core has a tag once and
\* users only where the builder writes them.
THEOREM TypeCorrect == Spec => []TypeOK
  BY InvariantHolds, TypesHold, PTL

\* A plan that goes through leaves the core as a restart with the same
\* configuration would.
THEOREM PlanIsRestart == Spec => []PlanReaches
  BY InvariantHolds, ReachesHold, PTL

\* Who is left alone by the panel is left alone by the plan, at every step.
THEOREM NobodyIsDisturbed == Spec => []Undisturbed
  BY InvariantHolds, UndisturbedHolds, PTL

\* A state that only went through the file asks nothing of the core, but for
\* settings maps that are empty.
THEOREM NothingNewNothingDone == Spec => []QuietPlan
  BY InvariantHolds, QuietHolds, PTL

\* Evaluate serves of an account as many devices as its strictest limit allows.
THEOREM CapsAreExact == Spec => []DeviceCap
  BY InvariantHolds, CapsHold, PTL

\* The core refuses an operation only when a tag moves between inbounds that
\* stay.
THEOREM OrderIsAccepted == Spec => RefusedOnHandover
  <1>1. Invariant /\ [Next]_vars => [failed' /\ ~failed => Handover(prev, target)]_vars
    BY FailureIs
  <1>2. QED
    BY <1>1, InvariantHolds, PTL DEF Spec, RefusedOnHandover
=============================================================================
