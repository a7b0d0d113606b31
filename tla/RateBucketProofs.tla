-------------------------- MODULE RateBucketProofs --------------------------
(***************************************************************************)
(* Proofs about RateBucket for any connections, durations and bounds: the  *)
(* time of a write is its own, none is wasted, and the writes of a user    *)
(* together keep to the rate.                                              *)
(***************************************************************************)
EXTENDS RateBucket, FiniteSetTheorems, TLAPS

\* What is waited for or has passed was granted, nothing is reserved behind
\* nextFree, and a number names one reservation.
Reserved ==
    /\ \A r \in granted : r.to <= nextFree /\ r.from <= r.to
    /\ \A q, r \in granted : q.n = r.n => q = r
    /\ passed \subseteq {r.n : r \in granted}

Inv == TypeOK /\ Reserved /\ OneAtATime /\ NeverIdle

\* A new reservation has a number of its own.
LEMMA NewNumber ==
    ASSUME TypeOK, NEW r, ReservationOK(r), r.n = Cardinality(granted) + 1,
           granted' = granted \union {r}
    PROVE  /\ r \notin granted
           /\ Cardinality(granted) \in Nat
           /\ Cardinality(granted') = Cardinality(granted) + 1
           /\ IsFiniteSet(granted')
           /\ \A q \in granted : q.n < r.n
  <1>1. IsFiniteSet(granted)
    BY DEF TypeOK
  <1>2. Cardinality(granted) \in Nat
    BY <1>1, FS_CardinalityType
  <1>3. \A q \in granted : q.n < r.n
    BY <1>2 DEF TypeOK, ReservationOK
  <1>4. r \notin granted
    BY <1>2, <1>3
  <1>5. QED
    BY <1>1, <1>2, <1>3, <1>4, FS_AddElement

LEMMA FromIsNat == TypeOK => From \in Nat /\ From >= clock /\ From >= nextFree
  BY DEF TypeOK, From, Later

LEMMA InitInv == Init => Inv
  <1> SUFFICES ASSUME Init PROVE Inv
    OBVIOUS
  <1>1. IsFiniteSet({}) /\ Cardinality({}) = 0
    BY FS_EmptySet
  <1>2. QED
    BY <1>1 DEF Init, Inv, TypeOK, Reserved, OneAtATime, NeverIdle

LEMMA InvTick == Inv /\ Tick => Inv'
  <1> SUFFICES ASSUME Inv, Tick PROVE Inv'
    OBVIOUS
  <1> USE DEF Inv
  <1>1. TypeOK'
    BY DEF Tick, TypeOK, ReservationOK
  <1>2. Reserved'
    BY DEF Tick, Reserved
  <1>3. OneAtATime'
    BY DEF Tick, OneAtATime, TypeOK, ReservationOK
  <1>4. NeverIdle'
    <2>1. clock'..(nextFree' - 1) \subseteq clock..(nextFree - 1)
      BY DEF Tick, TypeOK
    <2>2. QED
      BY <2>1 DEF Tick, NeverIdle
  <1>5. QED
    BY <1>1, <1>2, <1>3, <1>4

LEMMA InvReserve ==
    ASSUME Inv, NEW c \in Conn, NEW d \in Durations, Reserve(c, d)
    PROVE  Inv'
  <1> USE DEF Inv
  <1> DEFINE r == [n |-> Cardinality(granted) + 1, at |-> clock, from |-> From, to |-> From + d]
  <1>1. d \in Nat
    BY DurationsAssumption
  <1>2. /\ granted' = granted \union {r} /\ nextFree' = From + d
        /\ waiting' = [waiting EXCEPT ![c] = {r}]
        /\ clock' = clock /\ passed' = passed
    BY DEF Reserve
  <1>3. Cardinality(granted) \in Nat /\ clock \in Nat /\ nextFree \in Nat
    BY FS_CardinalityType DEF TypeOK
  <1>4. ReservationOK(r)
    BY <1>1, <1>3, FromIsNat DEF ReservationOK
  <1>5. /\ r \notin granted
        /\ Cardinality(granted') = Cardinality(granted) + 1
        /\ IsFiniteSet(granted')
        /\ \A q \in granted : q.n < r.n
    BY <1>2, <1>4, NewNumber
  <1>6. TypeOK'
    <2>1. \A q \in granted' : ReservationOK(q) /\ q.n \in 1..Cardinality(granted')
      BY <1>2, <1>3, <1>4, <1>5 DEF TypeOK, ReservationOK
    <2>2. \A e \in Conn : waiting'[e] \subseteq granted'
      BY <1>2 DEF TypeOK
    <2>3. clock' \in Nat /\ nextFree' \in Nat
      BY <1>1, <1>2, FromIsNat, <1>3
    <2>4. QED
      BY <1>5, <2>1, <2>2, <2>3 DEF TypeOK
  <1>7. Reserved'
    <2>1. \A q \in granted' : q.to <= nextFree' /\ q.from <= q.to
      BY <1>1, <1>2, <1>3, FromIsNat DEF Reserved, TypeOK, ReservationOK
    <2>2. \A p, q \in granted' : p.n = q.n => p = q
      BY <1>2, <1>4, <1>5 DEF Reserved, TypeOK, ReservationOK
    <2>3. passed' \subseteq {q.n : q \in granted'}
      BY <1>2 DEF Reserved
    <2>4. QED
      BY <2>1, <2>2, <2>3 DEF Reserved
  <1>8. r.n \notin passed
    BY <1>4, <1>5 DEF Reserved, TypeOK, ReservationOK
  <1>9. OneAtATime'
    <2>1. \A p, q \in granted' : p.n < q.n => p.to <= q.from
      <3> SUFFICES ASSUME NEW p \in granted', NEW q \in granted', p.n < q.n
                   PROVE  p.to <= q.from
        OBVIOUS
      <3>1. CASE p \in granted /\ q \in granted
        BY <3>1 DEF OneAtATime
      <3>2. CASE p \in granted /\ q = r
        BY <3>2, <1>3, FromIsNat DEF Reserved, TypeOK, ReservationOK
      <3>3. CASE p = r
        BY <3>3, <1>2, <1>4, <1>5 DEF TypeOK, ReservationOK
      <3>4. QED
        BY <3>1, <3>2, <3>3, <1>2
    <2>2. \A q \in granted' : q.at <= q.from /\ (q.n \in passed' => q.to <= clock')
      BY <1>2, <1>3, <1>8, FromIsNat DEF OneAtATime
    <2>3. QED
      BY <2>1, <2>2 DEF OneAtATime
  <1>10. NeverIdle'
    <2> SUFFICES ASSUME NEW t \in clock'..(nextFree' - 1)
                 PROVE  \E q \in granted' : q.from <= t /\ t < q.to /\ q.n \notin passed'
      BY DEF NeverIdle
    <2>1. CASE t < nextFree
      <3>1. t \in clock..(nextFree - 1)
        BY <1>1, <1>2, <1>3, <2>1, FromIsNat
      <3>2. QED
        BY <1>2, <3>1 DEF NeverIdle
    <2>2. CASE t >= nextFree
      <3>1. From <= t
        BY <1>1, <1>2, <1>3, <2>2, FromIsNat DEF From, Later
      <3>2. r.from <= t /\ t < r.to
        BY <1>1, <1>2, <1>3, <3>1, FromIsNat
      <3>3. QED
        BY <1>2, <1>8, <3>2
    <2>3. QED
      BY <1>1, <1>2, <1>3, <2>1, <2>2, FromIsNat
  <1>11. QED
    BY <1>6, <1>7, <1>9, <1>10

LEMMA InvPass == ASSUME Inv, NEW c \in Conn, Pass(c) PROVE Inv'
  <1> USE DEF Inv
  <1>1. PICK r \in waiting[c] :
          /\ Over(r)
          /\ waiting' = [waiting EXCEPT ![c] = {}]
          /\ passed' = passed \union {r.n}
          /\ UNCHANGED <<clock, nextFree, granted, cancelled>>
    BY DEF Pass
  <1>2. r \in granted /\ ReservationOK(r) /\ r.to <= clock
    BY <1>1 DEF TypeOK, Over, ReservationOK
  <1>3. TypeOK'
    BY <1>1 DEF TypeOK, ReservationOK
  <1>4. Reserved'
    BY <1>1, <1>2 DEF Reserved
  <1>5. OneAtATime'
    <2>1. \A q \in granted : q.n = r.n => q = r
      BY <1>2 DEF Reserved
    <2>2. QED
      BY <1>1, <1>2, <2>1 DEF OneAtATime
  <1>6. NeverIdle'
    <2> SUFFICES ASSUME NEW t \in clock..(nextFree - 1)
                 PROVE  \E q \in granted : q.from <= t /\ t < q.to /\ q.n \notin passed'
      BY <1>1 DEF NeverIdle
    <2>1. PICK q \in granted : q.from <= t /\ t < q.to /\ q.n \notin passed
      BY DEF NeverIdle
    <2>2. q.n # r.n
      <3>1. q # r
        BY <1>2, <2>1 DEF TypeOK, ReservationOK
      <3>2. QED
        BY <1>2, <3>1 DEF Reserved
    <2>3. QED
      BY <1>1, <2>1, <2>2
  <1>7. QED
    BY <1>3, <1>4, <1>5, <1>6

LEMMA InvCancel == ASSUME Inv, NEW c \in Conn, Cancel(c) PROVE Inv'
  <1>1. /\ waiting' = [waiting EXCEPT ![c] = {}]
        /\ UNCHANGED <<clock, nextFree, granted, passed>>
    BY DEF Cancel
  <1>2. QED
    BY <1>1 DEF Inv, TypeOK, ReservationOK, Reserved, OneAtATime, NeverIdle

LEMMA InvNext == Inv /\ [Next]_vars => Inv'
  <1> SUFFICES ASSUME Inv, [Next]_vars PROVE Inv'
    OBVIOUS
  <1>1. CASE Tick
    BY <1>1, InvTick
  <1>2. CASE \E c \in Conn : \E d \in Durations : Reserve(c, d)
    BY <1>2, InvReserve
  <1>3. CASE \E c \in Conn : Pass(c)
    BY <1>3, InvPass
  <1>4. CASE \E c \in Conn : Cancel(c)
    BY <1>4, InvCancel
  <1>5. CASE UNCHANGED vars
    BY <1>5 DEF vars, Inv, TypeOK, ReservationOK, Reserved, OneAtATime, NeverIdle
  <1>6. QED
    BY <1>1, <1>2, <1>3, <1>4, <1>5 DEF Next

\* The bucket's invariant holds whatever the connections do.
LEMMA BucketInv == Spec => []Inv
  BY InitInv, InvNext, PTL DEF Spec

\* However many connections write, end or are late, the times of their writes
\* do not overlap, and none goes before its time is over (xnodeWait).
THEOREM RateIsShared == Spec => []OneAtATime
  <1>1. Inv => OneAtATime
    BY DEF Inv
  <1>2. QED
    BY BucketInv, <1>1, PTL

\* The bucket is never ahead of the clock but for writes that wait or whose
\* connection ended while they did (xnodeWait).
THEOREM NothingIsWasted == Spec => []NeverIdle
  <1>1. Inv => NeverIdle
    BY DEF Inv
  <1>2. QED
    BY BucketInv, <1>1, PTL

\* The seconds of writes that went through are told apart by the clock alone,
\* and lie between the moment they were asked for and now.
LEMMA SecondsOnce ==
    ASSUME TypeOK, OneAtATime, NEW s \in 0..clock
    PROVE  LET S == Seconds({r \in granted : r.n \in passed /\ r.at >= s})
           IN [p \in S |-> p[2]] \in Injection(S, s..(clock - 1))
  <1> DEFINE R == {r \in granted : r.n \in passed /\ r.at >= s}
             S == Seconds(R)
             f == [p \in S |-> p[2]]
  <1>1. ASSUME NEW p \in S
        PROVE  \E r \in R : /\ p = <<r.n, p[2]>> /\ p[2] \in Int
                            /\ r.from <= p[2] /\ p[2] < r.to
    <2>1. PICK r \in R : p \in {r.n} \X (r.from..(r.to - 1))
      BY DEF Seconds
    <2>2. r.from \in Nat /\ r.to \in Nat
      BY DEF TypeOK, ReservationOK
    <2>3. p = <<r.n, p[2]>> /\ p[2] \in r.from..(r.to - 1)
      BY <2>1
    <2>4. QED
      BY <2>2, <2>3
  <1>2. ASSUME NEW p \in S PROVE f[p] \in s..(clock - 1)
    <2>1. PICK r \in R : p[2] \in Int /\ r.from <= p[2] /\ p[2] < r.to
      BY <1>1
    <2>2. r.at \in Nat /\ r.from \in Nat /\ r.to \in Nat /\ clock \in Nat
      BY DEF TypeOK, ReservationOK
    <2>3. s <= r.at /\ r.at <= r.from /\ r.to <= clock
      BY DEF OneAtATime
    <2>4. QED
      BY <2>1, <2>2, <2>3
  <1>3. ASSUME NEW p \in S, NEW q \in S, f[p] = f[q] PROVE p = q
    <2>1. PICK r \in R : /\ p = <<r.n, p[2]>> /\ p[2] \in Int
                         /\ r.from <= p[2] /\ p[2] < r.to
      BY <1>1
    <2>2. PICK w \in R : /\ q = <<w.n, q[2]>> /\ q[2] \in Int
                         /\ w.from <= q[2] /\ q[2] < w.to
      BY <1>1
    <2>3. p[2] = q[2]
      BY <1>3
    <2>4. /\ r.n \in Nat /\ r.from \in Nat /\ r.to \in Nat
          /\ w.n \in Nat /\ w.from \in Nat /\ w.to \in Nat
      BY DEF TypeOK, ReservationOK
    <2>5. ~(r.n < w.n) /\ ~(w.n < r.n)
      BY <2>1, <2>2, <2>3, <2>4 DEF OneAtATime
    <2>6. QED
      BY <2>1, <2>2, <2>3, <2>4, <2>5
  <1>4. QED
    <2>1. f \in [S -> s..(clock - 1)]
      BY <1>2
    <2>2. QED
      BY <1>3, <2>1 DEF Injection, IsInjective

\* RateKept for every number of connections, writes and seconds: what a user
\* sends takes no longer than the time there was (xnodeWait).
THEOREM RateIsKept == Spec => []RateKept
  <1>1. ASSUME TypeOK, OneAtATime PROVE RateKept
    <2> SUFFICES ASSUME NEW s \in 0..clock
                 PROVE  Cardinality(Seconds({r \in granted : r.n \in passed /\ r.at >= s}))
                          <= clock - s
      BY DEF RateKept
    <2> DEFINE S == Seconds({r \in granted : r.n \in passed /\ r.at >= s})
    <2>1. clock \in Nat /\ s \in Nat /\ s <= clock
      BY <1>1 DEF TypeOK
    <2>2. /\ IsFiniteSet(s..(clock - 1))
          /\ Cardinality(s..(clock - 1)) = IF s > clock - 1 THEN 0 ELSE clock - 1 - s + 1
      BY <2>1, FS_Interval
    <2>3. [p \in S |-> p[2]] \in Injection(S, s..(clock - 1))
      BY <1>1, SecondsOnce
    <2>4. Cardinality(S) <= Cardinality(s..(clock - 1))
      BY <2>2, <2>3, FS_Injection
    <2>5. Cardinality(s..(clock - 1)) = clock - s
      BY <2>1, <2>2
    <2>6. QED
      BY <2>4, <2>5
  <1>2. Inv => RateKept
    BY <1>1 DEF Inv
  <1>3. QED
    BY BucketInv, <1>2, PTL
=============================================================================
