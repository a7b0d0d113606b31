--------------------------- MODULE NodeStatusProofs ---------------------------
(***************************************************************************)
(* What the samples of the node say, for every set of interfaces, however  *)
(* they come and go, and whichever reads fail.  The counters together      *)
(* never show more than has arrived, and their lead over what was last     *)
(* kept is not yet in the reported sum: so no byte is in it twice.         *)
(***************************************************************************)
EXTENDS NodeStatus, FiniteSetTheorems, TLAPS

TypeInv ==
    /\ clock \in 0..MaxTime
    /\ rx \in [Iface -> 0..MaxTime] /\ \A i \in Iface : rx[i] <= clock
    /\ links \subseteq Iface
    /\ last \in [primed : BOOLEAN, time : Nat, net : Nat]
    /\ truth \in [arrived : Nat, before : Nat, read : BOOLEAN, sum : Nat]
    /\ rate \in [bytes : Nat, secs : Int, busy : Int, of : Int]

SampleInv ==
    /\ Network <= truth.arrived
    /\ truth.sum <= truth.arrived /\ truth.before <= truth.arrived
    /\ truth.sum + Network <= truth.arrived + last.net
    /\ ~last.primed => last.net = 0 /\ truth.sum = 0
    /\ truth.read => Network + truth.before <= last.net + truth.arrived
    /\ rate.busy <= rate.of

-----------------------------------------------------------------------------
(* The sum of the counters                                                 *)

BytesOf(r, L) == UNION {{<<i, n>> : n \in 1..r[i]} : i \in L}

LEMMA BytesAre ==
    ASSUME NEW r, NEW L, NEW x
    PROVE  x \in BytesOf(r, L) <=> \E i \in L : \E n \in 1..r[i] : x = <<i, n>>
  BY DEF BytesOf

LEMMA BytesFinite ==
    ASSUME NEW r \in [Iface -> 0..MaxTime], NEW L \in SUBSET Iface
    PROVE  IsFiniteSet(BytesOf(r, L)) /\ Cardinality(BytesOf(r, L)) \in Nat
  <1>1. IsFiniteSet(Iface \X (1..MaxTime))
    <2>1. IsFiniteSet(1..MaxTime)
      BY StatusBounds, FS_Interval
    <2>2. QED
      BY <2>1, IfaceAssumption, FS_Product
  <1>2. ASSUME NEW x \in BytesOf(r, L) PROVE x \in Iface \X (1..MaxTime)
    <2>a. PICK i \in L : \E n \in 1..r[i] : x = <<i, n>>
      BY <1>2, BytesAre
    <2>1. PICK n \in 1..r[i] : x = <<i, n>>
      BY <2>a
    <2>2. r[i] \in 0..MaxTime
      BY <2>1
    <2>3. n \in 1..MaxTime
      BY <2>1, <2>2, StatusBounds
    <2>4. QED
      BY <2>1, <2>3
  <1>3. IsFiniteSet(BytesOf(r, L))
    BY <1>1, <1>2, FS_Subset
  <1>4. QED
    BY <1>3, FS_CardinalityType

LEMMA NetworkIs ==
    ASSUME TypeInv
    PROVE  Network = Cardinality(BytesOf(rx, Counted)) /\ Network \in Nat
  <1>1. Network = Cardinality(BytesOf(rx, Counted))
    BY DEF Network, Bytes, BytesOf
  <1>2. Counted \in SUBSET Iface /\ rx \in [Iface -> 0..MaxTime]
    BY DEF Counted, TypeInv
  <1>3. QED
    BY <1>1, <1>2, BytesFinite

\* A byte more is a byte more at most, whether its interface counts or not.
LEMMA ByteComes ==
    ASSUME NEW r \in [Iface -> 0..MaxTime], NEW L \in SUBSET Iface, NEW i \in Iface,
           NEW b \in 0..1, NEW q \in [Iface -> 0..MaxTime],
           \A j \in Iface : q[j] = IF j = i THEN r[i] + b ELSE r[j]
    PROVE  Cardinality(BytesOf(q, L)) <= Cardinality(BytesOf(r, L)) + b
  <1> DEFINE B == BytesOf(r, L)
             C == BytesOf(q, L)
             new == <<i, r[i] + 1>>
  <1>1. IsFiniteSet(B) /\ Cardinality(B) \in Nat
    BY BytesFinite
  <1>2. r[i] \in 0..MaxTime
    OBVIOUS
  <1>3. CASE b = 0
    <2>1. q = r
      BY <1>2, <1>3
    <2>2. QED
      BY <1>1, <1>3, <2>1
  <1>4. CASE b = 1
    <2>1. ASSUME NEW x \in C PROVE x \in B \cup {new}
      <3>0. x \in BytesOf(q, L)
        BY <2>1
      <3>a. PICK j \in L : \E n \in 1..q[j] : x = <<j, n>>
        BY <3>0, BytesAre
      <3>1. PICK n \in 1..q[j] : x = <<j, n>>
        BY <3>a
      <3>2. n \in 1..r[j] \/ (j = i /\ n = r[i] + 1)
        BY <1>2, <1>4, <3>1
      <3>3. QED
        BY <3>1, <3>2, BytesAre
    <2>2. IsFiniteSet(B \cup {new}) /\ Cardinality(B \cup {new}) <= Cardinality(B) + 1
      <3>1. Cardinality(B \cup {new}) = IF new \in B THEN Cardinality(B) ELSE Cardinality(B) + 1
        BY <1>1, FS_AddElement
      <3>2. IsFiniteSet(B \cup {new})
        BY <1>1, FS_AddElement
      <3>3. QED
        BY <1>1, <3>1, <3>2
    <2>3. Cardinality(C) <= Cardinality(B \cup {new})
      BY <2>1, <2>2, FS_Subset
    <2>4. Cardinality(C) \in Nat /\ Cardinality(B \cup {new}) \in Nat
      BY <2>2, BytesFinite, FS_CardinalityType
    <2>5. QED
      BY <1>1, <1>4, <2>2, <2>3, <2>4
  <1>5. QED
    BY <1>3, <1>4

\* An interface that goes or comes has nothing to add.
LEMMA LinkAdds ==
    ASSUME NEW r \in [Iface -> 0..MaxTime], NEW L \in SUBSET Iface, NEW i \in Iface,
           NEW q \in [Iface -> 0..MaxTime], NEW M \in SUBSET Iface, M \subseteq L \cup {i},
           \A j \in Iface : q[j] = IF j = i THEN 0 ELSE r[j]
    PROVE  Cardinality(BytesOf(q, M)) <= Cardinality(BytesOf(r, L))
  <1>1. ASSUME NEW x \in BytesOf(q, M) PROVE x \in BytesOf(r, L)
    <2>a. PICK j \in M : \E n \in 1..q[j] : x = <<j, n>>
      BY <1>1, BytesAre
    <2>1. PICK n \in 1..q[j] : x = <<j, n>>
      BY <2>a
    <2>2. j \in L /\ n \in 1..r[j]
      BY <2>1
    <2>3. QED
      BY <2>1, <2>2, BytesAre
  <1>2. QED
    BY <1>1, BytesFinite, FS_Subset

-----------------------------------------------------------------------------
(* One step per action                                                     *)

StatusInv == TypeInv /\ SampleInv

LEMMA Unseen ==
    ASSUME StatusInv, UNCHANGED <<clock, rx, links, last, truth, rate>>
    PROVE  StatusInv'
  BY DEF StatusInv, TypeInv, SampleInv, Network, Bytes, Counted

LEMMA SecondStep ==
    ASSUME StatusInv, NEW i \in Iface, Second(i)
    PROVE  StatusInv'
  <1>1. PICK b \in 0..1 : rx' = [rx EXCEPT ![i] = @ + b] /\ truth' = [truth EXCEPT !.arrived = @ + b]
    BY DEF Second
  <1>2. /\ clock' = clock + 1 /\ clock < MaxTime
        /\ links' = links /\ last' = last /\ rate' = rate
    BY DEF Second, status
  <1>3. /\ rx' \in [Iface -> 0..MaxTime]
        /\ \A j \in Iface : rx'[j] = IF j = i THEN rx[i] + b ELSE rx[j]
    BY <1>1, <1>2, StatusBounds DEF StatusInv, TypeInv
  <1>4. TypeInv'
    BY <1>1, <1>2, <1>3, StatusBounds DEF StatusInv, TypeInv
  <1>5. Network' <= Network + b
    <2>1. Counted' = Counted /\ Counted \in SUBSET Iface
      BY <1>2 DEF Counted, StatusInv, TypeInv
    <2>2. Cardinality(BytesOf(rx', Counted)) <= Cardinality(BytesOf(rx, Counted)) + b
      BY <1>3, <2>1, ByteComes DEF StatusInv, TypeInv
    <2>3. Network = Cardinality(BytesOf(rx, Counted))
      BY NetworkIs DEF StatusInv
    <2>4. Network' = Cardinality(BytesOf(rx', Counted))
      BY <2>1 DEF Network, Bytes, BytesOf
    <2>5. QED
      BY <2>2, <2>3, <2>4
  <1>6. Network \in Nat /\ Network' \in Nat
    <2>1. Counted' \in SUBSET Iface
      BY <1>4 DEF TypeInv, Counted
    <2>2. QED
      BY <1>3, <2>1, NetworkIs, BytesFinite DEF StatusInv, Network, Bytes, BytesOf
  <1>7. /\ truth'.arrived = truth.arrived + b /\ truth'.before = truth.before
        /\ truth'.read = truth.read /\ truth'.sum = truth.sum
    BY <1>1 DEF StatusInv, TypeInv
  <1>8. SampleInv'
    BY <1>1, <1>2, <1>4, <1>5, <1>6, <1>7 DEF SampleInv, StatusInv, TypeInv
  <1>9. QED
    BY <1>4, <1>8 DEF StatusInv

LEMMA LinkStep ==
    ASSUME StatusInv, NEW i \in Iface, Link(i)
    PROVE  StatusInv'
  <1>1. /\ links' \subseteq links \cup {i} /\ links' \subseteq Iface
        /\ UNCHANGED <<clock, last, truth, rate>>
    BY DEF Link, status, StatusInv, TypeInv
  <1>2. /\ rx' \in [Iface -> 0..MaxTime]
        /\ \A j \in Iface : rx'[j] = IF j = i THEN 0 ELSE rx[j]
    BY StatusBounds DEF Link, StatusInv, TypeInv
  <1>3. TypeInv'
    BY <1>1, <1>2 DEF StatusInv, TypeInv
  <1>4. Network' <= Network /\ Network \in Nat /\ Network' \in Nat
    <2>1. /\ Counted \in SUBSET Iface /\ Counted' \in SUBSET Iface
          /\ Counted' \subseteq Counted \cup {i}
      BY <1>1 DEF Counted, StatusInv, TypeInv
    <2>2. Cardinality(BytesOf(rx', Counted')) <= Cardinality(BytesOf(rx, Counted))
      BY <1>2, <2>1, LinkAdds DEF StatusInv, TypeInv
    <2>3. Network = Cardinality(BytesOf(rx, Counted)) /\ Network \in Nat
      BY NetworkIs DEF StatusInv
    <2>4. Network' = Cardinality(BytesOf(rx', Counted'))
      BY DEF Network, Bytes, BytesOf
    <2>5. QED
      BY <1>2, <2>1, <2>2, <2>3, <2>4, BytesFinite
  <1>5. SampleInv'
    BY <1>1, <1>3, <1>4 DEF SampleInv, StatusInv, TypeInv
  <1>6. QED
    BY <1>3, <1>5 DEF StatusInv

\* What a sample reports is no more than the lead of the counters.
LEMMA SampleStep ==
    ASSUME StatusInv, SendHeartbeat
    PROVE  /\ StatusInv'
           /\ truth.read /\ truth'.read => rate'.bytes <= truth.arrived - truth.before
  <1>1. PICK read \in BOOLEAN, j \in Jiffies : Snapshot(read, j)
    BY DEF SendHeartbeat, Sample
  <1>2. UNCHANGED <<clock, rx, links>>
    BY DEF SendHeartbeat, host
  <1>3. Network' = Network /\ Network \in Nat
    BY <1>2, NetworkIs DEF StatusInv, Network, Bytes, Counted
  <1>4. PICK flow : flow = IF read THEN NetworkRate ELSE [bytes |-> 0, secs |-> 0]
    OBVIOUS
  <1>5. PICK usage : usage = CPUUsage(j)
    OBVIOUS
  <1>6. /\ rate' = [bytes |-> flow.bytes, secs |-> flow.secs, busy |-> usage.busy, of |-> usage.of]
        /\ last' = [primed |-> TRUE, time |-> clock, net |-> NetKept(read)]
        /\ truth' = [truth EXCEPT !.before = truth.arrived, !.read = read, !.sum = @ + flow.bytes]
    BY <1>1, <1>4, <1>5 DEF Snapshot
  <1>7. usage.busy \in Int /\ usage.of \in Int /\ usage.busy <= usage.of
    <2>1. j.total \in Nat /\ j.idle \in Int
      BY JiffiesAssumption
    <2>2. j.idle % Modulus \in Nat
      BY <2>1, StatusBounds
    <2>3. QED
      BY <1>5, <2>1, <2>2 DEF CPUUsage
  <1>8. /\ flow.bytes \in Nat /\ flow.secs \in Int
        /\ flow.bytes = 0 \/ (read /\ last.primed /\ flow.bytes = Network - last.net)
    BY <1>3, <1>4 DEF NetworkRate, StatusInv, TypeInv
  <1>9. /\ last'.primed = TRUE /\ last'.net = IF read THEN Network ELSE last.net
        /\ truth'.arrived = truth.arrived /\ truth'.before = truth.arrived
        /\ truth'.read = read /\ truth'.sum = truth.sum + flow.bytes
        /\ rate'.bytes = flow.bytes /\ rate'.busy = usage.busy /\ rate'.of = usage.of
    BY <1>6 DEF NetKept, StatusInv, TypeInv
  <1>10. TypeInv'
    <2>1. last' \in [primed : BOOLEAN, time : Nat, net : Nat]
      BY <1>3, <1>6 DEF NetKept, StatusInv, TypeInv
    <2>2. truth' \in [arrived : Nat, before : Nat, read : BOOLEAN, sum : Nat]
      <3>1. truth.sum + flow.bytes \in Nat /\ truth.arrived \in Nat
        BY <1>8 DEF StatusInv, TypeInv
      <3>2. QED
        BY <1>6, <3>1 DEF StatusInv, TypeInv
    <2>3. rate' \in [bytes : Nat, secs : Int, busy : Int, of : Int]
      BY <1>6, <1>7, <1>8
    <2>4. QED
      BY <1>2, <2>1, <2>2, <2>3 DEF StatusInv, TypeInv
  <1>11. SampleInv'
    BY <1>3, <1>7, <1>8, <1>9 DEF SampleInv, StatusInv, TypeInv
  <1>12. truth.read /\ truth'.read => rate'.bytes <= truth.arrived - truth.before
    BY <1>3, <1>8, <1>9 DEF SampleInv, StatusInv, TypeInv
  <1>13. QED
    BY <1>10, <1>11, <1>12 DEF StatusInv

LEMMA LoopStep ==
    ASSUME StatusInv, SyncEnds \/ Ticker \/ Cancelled \/ AdminEnds \/ Restart
    PROVE  StatusInv'
  <1>1. CASE SyncEnds
    BY <1>1, Unseen DEF SyncEnds, host, status
  <1>2. CASE Cancelled \/ AdminEnds
    BY <1>2, Unseen DEF Cancelled, AdminEnds, host, status
  <1>3. CASE Ticker
    <2>1. Network' = Network
      BY <1>3 DEF Ticker, host, Network, Bytes, Counted
    <2>2. rate'.busy <= rate'.of /\ rate' \in [bytes : Nat, secs : Int, busy : Int, of : Int]
      BY <1>3 DEF Ticker, NoRate
    <2>3. QED
      BY <1>3, <2>1, <2>2 DEF Ticker, host, StatusInv, TypeInv, SampleInv
  <1>4. CASE Restart
    <2>1. Network' = Network /\ Network \in Nat
      BY <1>4, NetworkIs DEF Restart, host, StatusInv, Network, Bytes, Counted
    <2>2. /\ last' = Unprimed /\ rate' = NoRate /\ UNCHANGED <<clock, rx, links>>
          /\ truth' = [truth EXCEPT !.read = FALSE, !.sum = 0]
      BY <1>4 DEF Restart, host
    <2>a. truth' \in [arrived : Nat, before : Nat, read : BOOLEAN, sum : Nat]
      BY <2>2 DEF StatusInv, TypeInv
    <2>b. /\ last' \in [primed : BOOLEAN, time : Nat, net : Nat]
          /\ rate' \in [bytes : Nat, secs : Int, busy : Int, of : Int]
      BY <2>2 DEF Unprimed, NoRate
    <2>3. TypeInv'
      BY <2>2, <2>a, <2>b DEF StatusInv, TypeInv
    <2>4. SampleInv'
      BY <2>1, <2>2 DEF Unprimed, NoRate, StatusInv, TypeInv, SampleInv
    <2>5. QED
      BY <2>3, <2>4 DEF StatusInv
  <1>5. QED
    BY <1>1, <1>2, <1>3, <1>4

LEMMA StatusStep ==
    ASSUME StatusInv, [Next]_vars
    PROVE  StatusInv'
  <1>1. CASE UNCHANGED vars
    BY <1>1, Unseen DEF vars, host, status
  <1>2. CASE CoreFails \/ Signal \/ AdminFails \/ AdminShutdown \/ UnitStops
    BY <1>2, Unseen DEF CoreFails, Signal, AdminFails, AdminShutdown, UnitStops, host, status
  <1>3. QED
    BY <1>1, <1>2, SecondStep, LinkStep, SampleStep, LoopStep DEF Next, Loop, Host

LEMMA StatusStarts == Init => StatusInv
  <1> SUFFICES ASSUME Init PROVE StatusInv
    OBVIOUS
  <1>1. Network = 0
    <2>0. Bytes = BytesOf(rx, Counted) /\ \A i \in Counted : rx[i] = 0
      BY DEF Init, Bytes, BytesOf, Counted
    <2>1. ASSUME NEW x \in Bytes PROVE FALSE
      <3>1. PICK i \in Counted : \E n \in 1..rx[i] : x = <<i, n>>
        BY <2>0, <2>1, BytesAre
      <3>2. PICK n \in 1..rx[i] : x = <<i, n>>
        BY <3>1
      <3>3. QED
        BY <2>0, <3>2
    <2>2. Bytes = {}
      BY <2>1
    <2>3. QED
      BY <2>2, FS_EmptySet DEF Network
  <1>2. QED
    BY <1>1, StatusBounds DEF Init, StatusInv, TypeInv, SampleInv, Unprimed, NoRate

\* No byte is reported twice, a rate is no more than what came in between two
\* samples, and the CPU is busy for no more than all of the time, however
\* interfaces come and go, reads fail and counters go back (Snapshot).
THEOREM SamplesAreReal == Spec => RatesAreReal
  <1>1. Init => StatusInv
    BY StatusStarts
  <1>2. StatusInv /\ [Next]_vars => StatusInv'
    BY StatusStep
  <1>3. StatusInv /\ StatusInv' /\ [Next]_vars
          => /\ truth'.sum <= truth'.arrived
             /\ rate'.busy <= rate'.of
             /\ run = "report" /\ run' = "select" /\ truth.read /\ truth'.read =>
                  rate'.bytes <= truth.arrived - truth.before
    <2> SUFFICES ASSUME StatusInv, StatusInv', [Next]_vars
                 PROVE  run = "report" /\ run' = "select" /\ truth.read /\ truth'.read =>
                          rate'.bytes <= truth.arrived - truth.before
      BY DEF StatusInv, SampleInv
    <2>1. SUFFICES ASSUME run = "report", run' = "select" PROVE SendHeartbeat
      BY <2>1, SampleStep
    <2>2. ~Loop \/ SendHeartbeat
      BY <2>1 DEF Loop, SyncEnds, Ticker, Cancelled, AdminEnds, Ends
    <2>3. ~Host /\ ~Signal /\ ~AdminFails /\ ~AdminShutdown /\ ~UnitStops /\ ~Restart
             /\ ~UNCHANGED vars
      BY <2>1 DEF Host, Second, Link, CoreFails, Signal, AdminFails, AdminShutdown,
                  UnitStops, Restart, agent, vars
    <2>4. QED
      BY <2>2, <2>3 DEF Next
  <1>4. QED
    BY <1>1, <1>2, <1>3, PTL DEF Spec, RatesAreReal
=============================================================================
