----------------------------- MODULE RateBucket -----------------------------
(***************************************************************************)
(* The leaky bucket of one user and direction (xnodeBucketFor and the      *)
(* second half of xnodeWait, xnode_limiter.go.txt).  Every connection that *)
(* writes reserves time from it and waits until its time is over.          *)
(*                                                                         *)
(* A write is known by the time it takes at the rate of the policy it was  *)
(* read under, n / rate; without a rate xnodeWait returns before it gets   *)
(* here.  What precedes (block, generation, connection limit) is           *)
(* DispatcherLimiter's.                                                    *)
(***************************************************************************)
EXTENDS Integers, FiniteSets

CONSTANTS
    Conn,          \* connections of the user
    Durations,     \* n / rate
    MaxWrites,     \* bounds: writes,
    MaxTime        \*   the clock, but for who waits

ASSUME DurationsAssumption == Durations \subseteq Nat
ASSUME RateBounds == MaxWrites \in Nat /\ MaxTime \in Nat

VARIABLES
    clock,
    nextFree,      \* b.next
    waiting,       \* per connection the reservation it waits for, or {}
    granted,       \* history: every reservation, numbered: [n, at, from, to]
    passed,        \* history: numbers of the writes that went through,
    cancelled      \*   and of those whose connection ended first

vars == <<clock, nextFree, waiting, granted, passed, cancelled>>

Later(a, b) == IF a < b THEN b ELSE a

Init ==
    /\ clock = 0
    /\ nextFree = 0
    /\ waiting = [c \in Conn |-> {}]
    /\ granted = {} /\ passed = {} /\ cancelled = {}

Waiting == UNION {waiting[c] : c \in Conn}

Tick ==
    /\ clock < MaxTime \/ \E r \in Waiting : clock < r.to
    /\ clock' = clock + 1
    /\ UNCHANGED <<nextFree, waiting, granted, passed, cancelled>>

\* Mutants: every write has the bucket to itself; idle time is saved up.
FromAlone == clock

FromLast == nextFree

From == Later(nextFree, clock)

\* Under b.mu.
Reserve(c, d) ==
    /\ waiting[c] = {}
    /\ Cardinality(granted) < MaxWrites
    /\ nextFree' = From + d
    /\ LET r == [n |-> Cardinality(granted) + 1, at |-> clock, from |-> From, to |-> From + d]
       IN /\ waiting' = [waiting EXCEPT ![c] = {r}]
          /\ granted' = granted \union {r}
    /\ UNCHANGED <<clock, passed, cancelled>>

\* Mutant: a write goes when its time begins.
OverAtStart(r) == clock >= r.from

Over(r) == clock >= r.to

\* wait <= 0 or the timer; the timer may be late.
Pass(c) ==
    \E r \in waiting[c] :
        /\ Over(r)
        /\ waiting' = [waiting EXCEPT ![c] = {}]
        /\ passed' = passed \union {r.n}
        /\ UNCHANGED <<clock, nextFree, granted, cancelled>>

\* ctx.Done(); the reservation stays.  Another connection may come.
Cancel(c) ==
    \E r \in waiting[c] :
        /\ waiting' = [waiting EXCEPT ![c] = {}]
        /\ cancelled' = cancelled \union {r.n}
        /\ UNCHANGED <<clock, nextFree, granted, passed>>

Next ==
    \/ Tick
    \/ \E c \in Conn : (\E d \in Durations : Reserve(c, d)) \/ Pass(c) \/ Cancel(c)

Spec == Init /\ [][Next]_vars
-----------------------------------------------------------------------------
(* Properties                                                              *)

ReservationOK(r) == r.n \in Nat /\ r.at \in Nat /\ r.from \in Nat /\ r.to \in Nat

TypeOK ==
    /\ clock \in Nat /\ nextFree \in Nat
    /\ IsFiniteSet(granted)
    /\ \A r \in granted : ReservationOK(r) /\ r.n \in 1..Cardinality(granted)
    /\ \A c \in Conn : waiting[c] \subseteq granted

\* The seconds of some writes, each counted for the write it belongs to.
Seconds(writes) == UNION {{r.n} \X (r.from..(r.to - 1)) : r \in writes}

\* "The configured rate is not multiplied by connection count": since any
\* moment, the writes that were begun and went through took no longer than the
\* time that has passed.
RateKept ==
    \A s \in 0..clock :
        Cardinality(Seconds({r \in granted : r.n \in passed /\ r.at >= s})) <= clock - s

\* The time of a write is its own, in the order of the reservations, begins
\* when it asks or later, and is over when it goes.
OneAtATime ==
    /\ \A q, r \in granted : q.n < r.n => q.to <= r.from
    /\ \A r \in granted : r.at <= r.from /\ (r.n \in passed => r.to <= clock)

\* A write waits for nothing but writes that wait like it or whose connection
\* ended while they did: those keep their time (xnodeWait).
NeverIdle ==
    \A t \in clock..(nextFree - 1) :
        \E r \in granted : r.from <= t /\ t < r.to /\ r.n \notin passed
=============================================================================
