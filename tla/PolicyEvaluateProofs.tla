------------------------ MODULE PolicyEvaluateProofs ------------------------
(***************************************************************************)
(* The device limit of policy.Evaluate, for any number of credentials.     *)
(***************************************************************************)
EXTENDS PolicyEvaluate, FiniteSetTheorems, TLAPS

\* A set of natural numbers has a least one, as < is well-founded on them.
LEMMA Least ==
    ASSUME NEW T \in SUBSET Nat, T # {}
    PROVE  \E m \in T : \A k \in T : m <= k
  <1> DEFINE R == OpToRel(<, Nat)
  <1>1. IsWellFoundedOn(R, Nat)
    BY NatLessThanWellFounded
  <1>2. PICK m \in T : \A k \in T : <<k, m>> \notin R
    BY <1>1, WFMin
  <1>3. \A k \in T : ~(k < m)
    BY <1>2 DEF OpToRel
  <1>4. QED
    BY <1>3

\* A set of numbers up to N has a greatest one.
LEMMA Greatest ==
    ASSUME NEW N \in Nat, NEW T \in SUBSET (1..N), T # {}
    PROVE  \E m \in T : \A k \in T : k <= m
  <1> DEFINE U == {n \in Nat : \E k \in T : n = N - k}
  <1>1. U # {}
    <2>1. PICK k \in T : TRUE
      OBVIOUS
    <2>2. N - k \in U
      BY <2>1
    <2>3. QED
      BY <2>2
  <1>2. PICK n \in U : \A l \in U : n <= l
    BY <1>1, Least
  <1>3. PICK m \in T : n = N - m
    BY <1>2
  <1>4. ASSUME NEW k \in T
        PROVE  k <= m
    <2>1. N - k \in U
      OBVIOUS
    <2>2. n <= N - k
      BY <1>2, <2>1
    <2>3. QED
      BY <1>3, <2>2
  <1>5. QED
    BY <1>3, <1>4

\* Of a set of numbers, those that at most n are not behind are at most n.
LEMMA Rank ==
    ASSUME NEW N \in Nat, NEW S \in SUBSET (1..N), NEW n \in Nat
    PROVE  Cardinality({j \in S : Cardinality({k \in S : k <= j}) <= n}) <= n
  <1> DEFINE T == {j \in S : Cardinality({k \in S : k <= j}) <= n}
  <1>1. IsFiniteSet(1..N)
    BY FS_Interval
  <1>2. IsFiniteSet(S)
    BY <1>1, FS_Subset
  <1>3. CASE T = {}
    <2>1. Cardinality(T) = 0
      BY <1>3, FS_EmptySet
    <2>2. QED
      BY <2>1
  <1>4. CASE T # {}
    <2>1. PICK m \in T : \A k \in T : k <= m
      BY <1>4, Greatest
    <2> DEFINE B == {k \in S : k <= m}
    <2>2. T \subseteq B /\ B \subseteq S
      BY <2>1
    <2>3. IsFiniteSet(B)
      BY <1>2, <2>2, FS_Subset
    <2>4. Cardinality(T) <= Cardinality(B)
      BY <2>2, <2>3, FS_Subset
    <2>5. Cardinality(B) <= n
      BY <2>1
    <2>6. Cardinality(T) \in Nat /\ Cardinality(B) \in Nat
      BY <2>2, <2>3, FS_Subset, FS_CardinalityType
    <2>7. QED
      BY <2>4, <2>5, <2>6
  <1>5. QED
    BY <1>3, <1>4

\* Evaluate keeps an account within every device limit of the credentials that
\* nothing else blocks, for every list of users, mode and view.
THEOREM CapsAreKept ==
    ASSUME NEW users, NEW N \in Nat, DOMAIN users = 1..N,
           \A j \in 1..N : users[j].deviceLimit \in Nat,
           NEW mode, NEW view
    PROVE  WithinEveryCap(users, mode, view)
  <1> SUFFICES ASSUME NEW a, NEW n \in DeviceLimits(users, mode, view, a)
               PROVE  Cardinality({j \in OfAccount(users, mode, view, a) :
                                      Reason(users, mode, view, j) = "none"}) <= n
    BY DEF WithinEveryCap
  <1> DEFINE S == OfAccount(users, mode, view, a)
             limits == DeviceLimits(users, mode, view, a)
             limit == LimitByAccount(users, mode, view, a)
  <1>1. S \in SUBSET (1..N)
    BY DEF OfAccount, Left
  <1>2. limits \in SUBSET (Nat \ {0}) /\ n \in limits
    BY <1>1 DEF DeviceLimits
  <1>3. PICK l \in limits : \A m \in limits : l <= m
    BY <1>2, Least
  <1>4. limit \in limits /\ limit <= n
    BY <1>2, <1>3 DEF LimitByAccount
  <1>5. ASSUME NEW j \in S, Reason(users, mode, view, j) = "none"
        PROVE  Cardinality({k \in S : k <= j}) <= limit
    <2>1. users[j].account = a /\ OwnReason(users[j], mode, view) = "none"
      BY <1>5 DEF OfAccount, Left
    <2>2. Active(users, mode, view, j) = Cardinality({k \in S : k <= j})
      BY <2>1 DEF Active
    <2>3. ~(limit > 0 /\ Active(users, mode, view, j) > limit)
      BY <1>5, <2>1 DEF Reason
    <2>4. {k \in S : k <= j} \subseteq 1..N /\ IsFiniteSet(1..N)
      BY <1>1, FS_Interval
    <2>5. Cardinality({k \in S : k <= j}) \in Nat
      BY <2>4, FS_Subset, FS_CardinalityType
    <2>6. limit > 0 /\ limit \in Nat
      BY <1>2, <1>4
    <2>7. QED
      BY <2>2, <2>3, <2>5, <2>6
  <1> DEFINE T == {j \in S : Cardinality({k \in S : k <= j}) <= limit}
             E == {j \in S : Reason(users, mode, view, j) = "none"}
  <1>6. E \subseteq T /\ T \subseteq 1..N
    BY <1>1, <1>5
  <1>7. limit \in Nat
    BY <1>2, <1>4
  <1>8. Cardinality(T) <= limit
    BY <1>1, <1>7, Rank
  <1>9. IsFiniteSet(T) /\ Cardinality(E) <= Cardinality(T)
    <2> HIDE DEF T, E
    <2>1. IsFiniteSet(1..N)
      BY FS_Interval
    <2>2. IsFiniteSet(T)
      BY <1>6, <2>1, FS_Subset
    <2>3. QED
      BY <1>6, <2>2, FS_Subset
  <1>10. Cardinality(E) \in Nat /\ Cardinality(T) \in Nat
    BY <1>6, <1>9, FS_Subset, FS_CardinalityType
  <1>11. QED
    BY <1>2, <1>4, <1>7, <1>8, <1>9, <1>10

\* Of a set of numbers that are not all of its first n, n are.
LEMMA RankReached ==
    ASSUME NEW N \in Nat, NEW S \in SUBSET (1..N), NEW n \in Nat,
           NEW T, T = {j \in S : Cardinality({k \in S : k <= j}) <= n}, T # S
    PROVE  Cardinality(T) = n
  <1>1. PICK D : D = S \ T
    OBVIOUS
  <1>a. T \subseteq S
    OBVIOUS
  <1>b. S \subseteq Nat
    OBVIOUS
  <1>2. D # {} /\ D \in SUBSET Nat
    BY <1>1, <1>a, <1>b
  <1>3. PICK m \in D : \A k \in D : m <= k
    BY <1>2, Least
  <1>4. PICK B : B = {k \in S : k <= m}
    OBVIOUS
  <1>5. B \subseteq T \union {m}
    <2>1. ASSUME NEW k \in B, k \notin T PROVE k = m
      <3>1. k \in D /\ k <= m
        BY <1>1, <1>4, <2>1
      <3>2. m <= k /\ k \in Nat /\ m \in Nat
        BY <1>2, <1>3, <3>1
      <3>3. QED
        BY <3>1, <3>2
    <2>2. QED
      BY <2>1
  <1>6. IsFiniteSet(S)
    <2>1. IsFiniteSet(1..N)
      BY FS_Interval
    <2>2. QED
      BY <2>1, FS_Subset
  <1>7. IsFiniteSet(T) /\ IsFiniteSet(B)
    BY <1>a, <1>4, <1>6, FS_Subset
  <1>8. m \notin T /\ m \in S
    BY <1>1, <1>3
  <1>9. IsFiniteSet(T \union {m}) /\ Cardinality(T \union {m}) = Cardinality(T) + 1
    BY <1>7, <1>8, FS_AddElement
  <1>10. Cardinality(B) <= Cardinality(T \union {m})
    BY <1>5, <1>9, FS_Subset
  <1>11. ~(Cardinality(B) <= n)
    BY <1>4, <1>8
  <1>12. Cardinality(T) <= n
    BY Rank
  <1>13. Cardinality(T) \in Nat /\ Cardinality(B) \in Nat
    BY <1>7, FS_CardinalityType
  <1>14. QED
    BY <1>9, <1>10, <1>11, <1>12, <1>13

\* Evaluate blocks no credential for its account's limits but to keep them: all
\* of them are served that nothing else blocks, or as many as a limit allows.
THEOREM CapsAreUsed ==
    ASSUME NEW users, NEW N \in Nat, DOMAIN users = 1..N,
           \A j \in 1..N : users[j].deviceLimit \in Nat,
           NEW mode, NEW view, NEW a, NEW S, S = OfAccount(users, mode, view, a),
           NEW E, E = {j \in S : Reason(users, mode, view, j) = "none"}
    PROVE  E = S \/ Cardinality(E) \in DeviceLimits(users, mode, view, a)
  <1>0. PICK limits : limits = DeviceLimits(users, mode, view, a)
    OBVIOUS
  <1>1. PICK limit : limit = LimitByAccount(users, mode, view, a)
    OBVIOUS
  <1>2. S \in SUBSET (1..N)
    BY DEF OfAccount, Left
  <1>3. \A j \in S : users[j].account = a /\ OwnReason(users[j], mode, view) = "none"
    BY DEF OfAccount, Left
  <1>4. \A j \in S : j \in E <=> ~(limit > 0 /\ Active(users, mode, view, j) > limit)
    BY <1>1, <1>3 DEF Reason
  <1>5. \A j \in S : Active(users, mode, view, j) = Cardinality({k \in S : k <= j})
    BY <1>3 DEF Active
  <1>6. CASE limits = {}
    <2>1. limit = 0
      BY <1>0, <1>1, <1>6 DEF LimitByAccount
    <2>2. QED
      BY <1>4, <2>1
  <1>7. CASE limits # {}
    <2>1. limits \in SUBSET (Nat \ {0})
      BY <1>0, <1>2 DEF DeviceLimits
    <2>2. PICK l \in limits : \A m \in limits : l <= m
      BY <1>7, <2>1, Least
    <2>3. limit \in limits
      BY <1>0, <1>1, <1>7, <2>2 DEF LimitByAccount
    <2>4. limit \in Nat /\ limit > 0
      BY <2>1, <2>3
    <2>5. \A j \in S : Cardinality({k \in S : k <= j}) \in Nat
      <3>1. IsFiniteSet(1..N)
        BY FS_Interval
      <3>2. ASSUME NEW j \in S PROVE Cardinality({k \in S : k <= j}) \in Nat
        <4>1. {k \in S : k <= j} \in SUBSET (1..N)
          BY <1>2
        <4>2. QED
          BY <3>1, <4>1, FS_Subset, FS_CardinalityType
      <3>3. QED
        BY <3>2
    <2>6. \A j \in S : j \in E <=> Cardinality({k \in S : k <= j}) <= limit
      BY <1>4, <1>5, <2>4, <2>5
    <2>7. E = {j \in S : Cardinality({k \in S : k <= j}) <= limit}
      BY <2>6
    <2>8. E = S \/ Cardinality(E) = limit
      BY <1>2, <2>4, <2>7, RankReached
    <2>9. QED
      BY <1>0, <2>3, <2>8
  <1>8. QED
    BY <1>6, <1>7
=============================================================================
