------------------------ MODULE TrafficDeliveryProofs ------------------------
(***************************************************************************)
(* Proofs about TrafficDelivery, for every set of units and event ids and  *)
(* every number of crashes.                                                *)
(***************************************************************************)
EXTENDS TrafficDelivery, TLAPS

-----------------------------------------------------------------------------
(* Type correctness.  One step per action; Accept and ProcessesDie are the *)
(* two sub-actions several of them share.                                  *)

LEMMA AcceptType ==
    ASSUME TypeOK, NEW e \in Event, Accept(e)
    PROVE  claimed' \subseteq Event /\ billed' \in [Unit -> Nat]
  BY DEF TypeOK, Accept

LEMMA FailsType ==
    ASSUME TypeOK, NEW e \in Event, TrafficBatchFails(e)
    PROVE  /\ claimed' \subseteq Event
           /\ billed' \in [Unit -> Nat]
           /\ late' \subseteq Event
  <1>1. CASE UNCHANGED panelVars
    BY <1>1 DEF TypeOK, panelVars
  <1>2. CASE Accept(e) /\ UNCHANGED late
    BY <1>2, AcceptType DEF TypeOK
  <1>3. CASE late' = late \cup {e} /\ UNCHANGED <<claimed, billed>>
    BY <1>3 DEF TypeOK
  <1>4. QED
    BY <1>1, <1>2, <1>3 DEF TrafficBatchFails

LEMMA RetryType == TypeOK /\ RetryTraffic => TypeOK'
  <1> SUFFICES ASSUME TypeOK, RetryTraffic PROVE TypeOK'
    OBVIOUS
  <1> USE NoneAssumption DEF TypeOK, PC, InScope, coreVars, diskVars, panelVars
  <1>1. CASE StartSync \/ StartSyncListFails
    BY <1>1 DEF StartSync, StartSyncListFails, Listed
  <1>2. ASSUME NEW e \in Event, RetryAccepted(e) PROVE TypeOK'
    BY <1>2, AcceptType DEF RetryAccepted, TrafficBatchOk
  <1>3. ASSUME NEW e \in Event, RetryFails(e) PROVE TypeOK'
    BY <1>3, FailsType DEF RetryFails
  <1>4. CASE RetryDelete
    BY <1>4 DEF RetryDelete, Removed, Entry
  <1>5. CASE RetryDeleteFails
    BY <1>5 DEF RetryDeleteFails
  <1>6. CASE RetryDone
    BY <1>6 DEF RetryDone
  <1>7. QED
    BY <1>1, <1>2, <1>3, <1>4, <1>5, <1>6 DEF RetryTraffic

LEMMA CollectType == TypeOK /\ CollectTraffic => TypeOK'
  <1> SUFFICES ASSUME TypeOK, CollectTraffic PROVE TypeOK'
    OBVIOUS
  <1> USE NoneAssumption DEF TypeOK, PC, InScope, coreVars, diskVars, panelVars
  <1>1. CASE CollectNothing
    BY <1>1 DEF CollectNothing
  <1>2. ASSUME NEW e \in Event, QueryStats(e) PROVE TypeOK'
    BY <1>2 DEF QueryStats
  <1>3. CASE QueryStatsLost
    BY <1>3 DEF QueryStatsLost
  <1>4. CASE EnqueueWrite
    BY <1>4 DEF EnqueueWrite, Entry
  <1>5. CASE EnqueueFails
    BY <1>5 DEF EnqueueFails, Entry
  <1>6. CASE EnqueueRename
    BY <1>6 DEF EnqueueRename, Entry
  <1>7. CASE PostAccepted
    BY <1>7, AcceptType DEF PostAccepted, TrafficBatchOk
  <1>8. CASE PostFails
    BY <1>8, FailsType DEF PostFails
  <1>9. CASE DeletePosted
    BY <1>9 DEF DeletePosted, Removed, Entry
  <1>10. CASE DeletePostedFails
    BY <1>10 DEF DeletePostedFails
  <1>11. QED
    BY <1>1, <1>2, <1>3, <1>4, <1>5, <1>6, <1>7, <1>8, <1>9, <1>10
       DEF CollectTraffic

LEMMA EnvironmentType == TypeOK /\ Environment => TypeOK'
  <1> SUFFICES ASSUME TypeOK, Environment PROVE TypeOK'
    OBVIOUS
  <1> USE NoneAssumption, BoundAssumption
      DEF TypeOK, PC, InScope, coreVars, diskVars, panelVars
  <1>1. ASSUME NEW u \in Unit, UserTraffic(u) PROVE TypeOK'
    BY <1>1 DEF UserTraffic
  <1>2. CASE XrayDies
    BY <1>2 DEF XrayDies
  <1>3. ASSUME NEW e \in Event, LateArrival(e) PROVE TypeOK'
    BY <1>3, AcceptType DEF LateArrival
  <1>4. ASSUME NEW e \in Event, Writeback(e) PROVE TypeOK'
    BY <1>4 DEF Writeback, Entry
  <1>5. CASE Crash
    BY <1>5 DEF Crash, ProcessesDie, NoView
  <1>6. CASE PowerLoss
    BY <1>6 DEF PowerLoss, ProcessesDie, NoView
  <1>7. QED
    BY <1>1, <1>2, <1>3, <1>4, <1>5, <1>6 DEF Environment

LEMMA TypeStep == TypeOK /\ [Next]_vars => TypeOK'
  <1> SUFFICES ASSUME TypeOK, [Next]_vars PROVE TypeOK'
    OBVIOUS
  <1> USE DEF TypeOK, PC, InScope, coreVars, diskVars, panelVars
  <1>1. CASE PendingUsage
    <2>1. UnitsOf(Listed) \in SUBSET Unit
      BY DEF UnitsOf, Listed
    <2>2. view' \in [pending : SUBSET Unit, panel : SUBSET Unit, known : BOOLEAN]
      BY <1>1, <2>1 DEF PendingUsage
    <2>3. QED
      BY <1>1, <2>2 DEF PendingUsage
  <1>8. CASE PendingUsageFails
    BY <1>8 DEF PendingUsageFails
  <1>2. CASE FetchDesired
    BY <1>2 DEF FetchDesired
  <1>3. CASE FetchDesiredFails
    BY <1>3 DEF FetchDesiredFails, NoView
  <1>4. CASE Reconcile
    BY <1>4 DEF Reconcile, NoView
  <1>5. CASE Restart
    BY <1>5 DEF Restart
  <1>6. CASE UNCHANGED vars
    BY <1>6 DEF vars
  <1>7. QED
    BY <1>1, <1>2, <1>3, <1>4, <1>5, <1>6, <1>8, RetryType, CollectType,
       EnvironmentType DEF Next, Agent

LEMMA TypeInit == Init => TypeOK
  BY NoneAssumption, BoundAssumption
     DEF Init, TypeOK, PC, InScope, Entry, NoView

\* Every reachable state is well typed, and a batch is in scope exactly in
\* the steps of retryTraffic and collectTraffic that handle one.
THEOREM TypeCorrect == Spec => []TypeOK
  BY TypeInit, TypeStep, PTL DEF Spec

-----------------------------------------------------------------------------
(* The inductive invariant.  UnitsInv: a unit is in one place only, the    *)
(* core or one batch.  SpoolInv: what the network and the panel know was   *)
(* spooled, and a file that can be listed was put there by an Enqueue that *)
(* returned nil.  BilledExactly ties the panel's sum to the claimed ids.   *)

UnitsInv ==
    /\ counters \subseteq used
    /\ \A e \in Event : content[e] \subseteq used
    /\ \A e \in Event : content[e] \cap counters = {}
    /\ \A e, f \in Event : \A u \in content[e] : u \in content[f] => e = f

SpoolInv ==
    /\ claimed \subseteq spooled
    /\ late \subseteq spooled
    /\ todo \subseteq spooled
    /\ \A e \in spooled : content[e] # {}
    /\ \A e \in Event : file[e] \in {"json", "torn"} => e \in spooled
    /\ \A e \in Event : stable[e] \in {"json", "torn"} => e \in spooled
    /\ pc \in {"post", "delete", "retryDelete"} => cur \in spooled
    /\ pc \in {"delete", "retryDelete"} => cur \in claimed
    /\ pc \in {"write", "rename"} => cur \notin spooled /\ content[cur] # {}

BilledExactly ==
    \A u \in Unit :
        billed[u] = IF \E e \in claimed : u \in content[e] THEN 1 ELSE 0

LEMMA UnitsStep == TypeOK /\ UnitsInv /\ [Next]_vars => UnitsInv'
  <1> SUFFICES ASSUME TypeOK, UnitsInv, [Next]_vars PROVE UnitsInv'
    OBVIOUS
  <1>1. ASSUME NEW u \in Unit, UserTraffic(u) PROVE UnitsInv'
    BY <1>1 DEF UserTraffic, UnitsInv, TypeOK
  <1>2. ASSUME NEW e \in Event, QueryStats(e) PROVE UnitsInv'
    BY <1>2 DEF QueryStats, UnitsInv, TypeOK, Fresh
  <1>3. ASSUME content' = content, used' = used,
               counters' = counters \/ counters' = {}
        PROVE  UnitsInv'
    BY <1>3 DEF UnitsInv
  <1>4. CASE RetryTraffic
    BY <1>3, <1>4 DEF RetryTraffic, StartSync, StartSyncListFails,
       RetryAccepted, RetryFails, RetryDelete, RetryDeleteFails, RetryDone,
       coreVars
  <1>5. CASE CollectTraffic
    BY <1>2, <1>3, <1>5 DEF CollectTraffic, CollectNothing, QueryStatsLost,
       EnqueueWrite, EnqueueFails, EnqueueRename, PostAccepted, PostFails,
       DeletePosted, DeletePostedFails, coreVars
  <1>6. CASE Environment
    BY <1>1, <1>3, <1>6 DEF Environment, XrayDies, LateArrival, Writeback,
       Crash, PowerLoss, ProcessesDie, coreVars
  <1>7. CASE PendingUsage \/ PendingUsageFails \/ FetchDesired
             \/ FetchDesiredFails \/ Reconcile
             \/ Restart \/ UNCHANGED vars
    BY <1>3, <1>7 DEF PendingUsage, PendingUsageFails, FetchDesired,
       FetchDesiredFails, Reconcile, Restart, vars, coreVars
  <1>8. QED
    BY <1>4, <1>5, <1>6, <1>7 DEF Next, Agent

LEMMA RetrySpool == TypeOK /\ SpoolInv /\ RetryTraffic => SpoolInv'
  <1> SUFFICES ASSUME TypeOK, SpoolInv, RetryTraffic PROVE SpoolInv'
    OBVIOUS
  <1> USE DEF TypeOK, SpoolInv, InScope, coreVars, diskVars, panelVars
  <1>1. CASE StartSync \/ StartSyncListFails
    BY <1>1 DEF StartSync, StartSyncListFails, Listed
  <1>2. ASSUME NEW e \in Event, RetryAccepted(e) PROVE SpoolInv'
    BY <1>2 DEF RetryAccepted, TrafficBatchOk, Accept, Oldest
  <1>3. ASSUME NEW e \in Event, RetryFails(e) PROVE SpoolInv'
    BY <1>3 DEF RetryFails, TrafficBatchFails, Accept, Oldest
  <1>4. CASE RetryDelete
    BY <1>4 DEF RetryDelete, Removed
  <1>5. CASE RetryDeleteFails
    BY <1>5 DEF RetryDeleteFails
  <1>6. CASE RetryDone
    BY <1>6 DEF RetryDone
  <1>7. QED
    BY <1>1, <1>2, <1>3, <1>4, <1>5, <1>6 DEF RetryTraffic

LEMMA CollectSpool == TypeOK /\ SpoolInv /\ CollectTraffic => SpoolInv'
  <1> SUFFICES ASSUME TypeOK, SpoolInv, CollectTraffic PROVE SpoolInv'
    OBVIOUS
  <1> USE DEF TypeOK, SpoolInv, InScope, coreVars, diskVars, panelVars
  <1>1. CASE CollectNothing
    BY <1>1 DEF CollectNothing
  <1>2. ASSUME NEW e \in Event, QueryStats(e) PROVE SpoolInv'
    BY <1>2 DEF QueryStats, Fresh
  <1>3. CASE QueryStatsLost
    BY <1>3 DEF QueryStatsLost
  <1>4. CASE EnqueueWrite
    BY <1>4 DEF EnqueueWrite
  <1>5. CASE EnqueueFails
    BY <1>5 DEF EnqueueFails
  <1>6. CASE EnqueueRename
    BY <1>6 DEF EnqueueRename
  <1>7. CASE PostAccepted
    BY <1>7 DEF PostAccepted, TrafficBatchOk, Accept
  <1>8. CASE PostFails
    BY <1>8 DEF PostFails, TrafficBatchFails, Accept
  <1>9. CASE DeletePosted
    BY <1>9 DEF DeletePosted, Removed
  <1>10. CASE DeletePostedFails
    BY <1>10 DEF DeletePostedFails
  <1>11. QED
    BY <1>1, <1>2, <1>3, <1>4, <1>5, <1>6, <1>7, <1>8, <1>9, <1>10
       DEF CollectTraffic

LEMMA SpoolStep == TypeOK /\ SpoolInv /\ [Next]_vars => SpoolInv'
  <1> SUFFICES ASSUME TypeOK, SpoolInv, [Next]_vars PROVE SpoolInv'
    OBVIOUS
  <1> USE DEF TypeOK, SpoolInv, InScope, coreVars, diskVars, panelVars
  <1>1. ASSUME NEW u \in Unit, UserTraffic(u) PROVE SpoolInv'
    BY <1>1 DEF UserTraffic
  <1>2. CASE XrayDies
    BY <1>2 DEF XrayDies
  <1>3. ASSUME NEW e \in Event, LateArrival(e) PROVE SpoolInv'
    BY <1>3 DEF LateArrival, Accept
  <1>4. ASSUME NEW e \in Event, Writeback(e) PROVE SpoolInv'
    BY <1>4 DEF Writeback
  <1>5. CASE Crash
    BY <1>5 DEF Crash, ProcessesDie
  <1>6. CASE PowerLoss
    BY <1>6 DEF PowerLoss, ProcessesDie
  <1>7. CASE PendingUsage \/ PendingUsageFails
    BY <1>7 DEF PendingUsage, PendingUsageFails
  <1>8. CASE FetchDesired \/ FetchDesiredFails \/ Reconcile \/ Restart
    BY <1>8 DEF FetchDesired, FetchDesiredFails, Reconcile, Restart
  <1>9. CASE UNCHANGED vars
    BY <1>9 DEF vars
  <1>10. QED
    BY <1>1, <1>2, <1>3, <1>4, <1>5, <1>6, <1>7, <1>8, <1>9, RetrySpool,
       CollectSpool DEF Next, Agent, Environment

-----------------------------------------------------------------------------
(* Billing.                                                                *)

BillingInv == TypeOK /\ UnitsInv /\ SpoolInv /\ BilledExactly

LEMMA AcceptBilled ==
    ASSUME BillingInv, NEW e \in Event, Accept(e), UNCHANGED content
    PROVE  BilledExactly'
  <1> SUFFICES ASSUME NEW u \in Unit
               PROVE  billed'[u] = IF \E f \in claimed' : u \in content[f]
                                   THEN 1 ELSE 0
    BY DEF BilledExactly
  <1> USE DEF BillingInv, TypeOK
  <1>1. CASE e \notin claimed /\ u \in content[e]
    <2>1. ~ \E f \in claimed : u \in content[f]
      BY <1>1 DEF UnitsInv
    <2>2. billed[u] = 0
      BY <2>1 DEF BilledExactly
    <2>3. QED
      BY <1>1, <2>2 DEF Accept
  <1>2. CASE e \in claimed \/ u \notin content[e]
    BY <1>2 DEF Accept, BilledExactly
  <1>3. QED
    BY <1>1, <1>2

LEMMA FailsBilled ==
    ASSUME BillingInv, NEW e \in Event, TrafficBatchFails(e), UNCHANGED content
    PROVE  BilledExactly'
  BY AcceptBilled DEF TrafficBatchFails, panelVars, BilledExactly, BillingInv

LEMMA BilledStep == BillingInv /\ [Next]_vars => BilledExactly'
  <1> SUFFICES ASSUME BillingInv, [Next]_vars PROVE BilledExactly'
    OBVIOUS
  <1>1. ASSUME UNCHANGED <<content, claimed, billed>> PROVE BilledExactly'
    BY <1>1 DEF BilledExactly, BillingInv
  <1>2. ASSUME NEW e \in Event, QueryStats(e) PROVE BilledExactly'
    <2>1. e \notin claimed
      BY <1>2 DEF QueryStats, Fresh, BillingInv, SpoolInv
    <2>2. UNCHANGED <<claimed, billed>>
      BY <1>2 DEF QueryStats, panelVars
    <2>3. \A f \in claimed : content'[f] = content[f]
      BY <1>2, <2>1 DEF QueryStats, BillingInv, TypeOK
    <2>4. QED
      BY <2>2, <2>3 DEF BilledExactly, BillingInv
  <1>3. CASE RetryTraffic
    <2>1. ASSUME NEW e \in Event, RetryAccepted(e) \/ RetryFails(e)
          PROVE  BilledExactly'
      BY <2>1, AcceptBilled, FailsBilled DEF RetryAccepted, RetryFails, TrafficBatchOk
    <2>2. QED
      BY <1>1, <1>3, <2>1 DEF RetryTraffic, StartSync, StartSyncListFails,
         RetryDelete, RetryDeleteFails, RetryDone, panelVars
  <1>4. CASE CollectTraffic
    <2>1. CASE PostAccepted \/ PostFails
      BY <2>1, NoneAssumption, AcceptBilled, FailsBilled
         DEF PostAccepted, PostFails, TrafficBatchOk, BillingInv, TypeOK, InScope
    <2>2. QED
      BY <1>1, <1>2, <1>4, <2>1 DEF CollectTraffic, CollectNothing,
         QueryStatsLost, EnqueueWrite, EnqueueFails, EnqueueRename,
         DeletePosted, DeletePostedFails, panelVars
  <1>5. CASE Environment
    <2>1. ASSUME NEW e \in Event, LateArrival(e) PROVE BilledExactly'
      BY <2>1, AcceptBilled DEF LateArrival
    <2>2. QED
      BY <1>1, <1>5, <2>1 DEF Environment, UserTraffic, XrayDies, Writeback,
         Crash, PowerLoss, panelVars
  <1>6. CASE PendingUsage \/ PendingUsageFails \/ FetchDesired
             \/ FetchDesiredFails \/ Reconcile
             \/ Restart \/ UNCHANGED vars
    BY <1>1, <1>6 DEF PendingUsage, PendingUsageFails, FetchDesired,
       FetchDesiredFails, Reconcile, Restart, vars, panelVars
  <1>7. QED
    BY <1>3, <1>4, <1>5, <1>6 DEF Next, Agent

LEMMA BillingInit == Init => BillingInv
  BY TypeInit DEF BillingInv, Init, UnitsInv, SpoolInv, BilledExactly

LEMMA BillingInvariant == Spec => []BillingInv
  <1>1. BillingInv /\ [Next]_vars => BillingInv'
    BY TypeStep, UnitsStep, SpoolStep, BilledStep DEF BillingInv
  <1>2. QED
    BY BillingInit, <1>1, PTL DEF Spec

\* The panel adds no unit twice: not through retries, late requests, crashes
\* or power losses.
THEOREM BillingIsExact == Spec => []BilledAtMostOnce
  <1>1. BillingInv => BilledAtMostOnce
    BY DEF BillingInv, BilledExactly, BilledAtMostOnce
  <1>2. QED
    BY BillingInvariant, <1>1, PTL

-----------------------------------------------------------------------------
(* Durability and the quota figures, on a machine that does not lose its   *)
(* page cache (PowerLossPossible = FALSE; with it, a run refutes both).    *)

DurableInv ==
    /\ \A e \in Event : file[e] # "torn"
    /\ SpooledUntilBilled

\* The pending figure is complete before the panel's is fetched.
PendingComplete ==
    pc = "fetch" /\ view.known =>
        \A e \in spooled :
            content[e] \subseteq view.pending \cup {u \in Unit : billed[u] > 0}

QuotaInv == PendingComplete /\ QuotaNeverUndercounts

NoPowerLoss == PowerLossPossible = FALSE

LEMMA DurableStep ==
    NoPowerLoss /\ BillingInv /\ DurableInv /\ [Next]_vars => DurableInv'
  <1> SUFFICES ASSUME NoPowerLoss, BillingInv, DurableInv, [Next]_vars
               PROVE  DurableInv'
    OBVIOUS
  <1> USE DEF DurableInv, SpooledUntilBilled, BillingInv, TypeOK, SpoolInv, InScope
  <1>1. ASSUME UNCHANGED <<file, spooled>>, claimed \subseteq claimed'
        PROVE  DurableInv'
    BY <1>1
  <1>2. CASE RetryDelete
    BY <1>2 DEF RetryDelete, Removed, panelVars
  <1>3. CASE EnqueueWrite
    BY <1>3 DEF EnqueueWrite, panelVars
  <1>4. CASE EnqueueFails
    BY <1>4 DEF EnqueueFails, panelVars
  <1>5. CASE EnqueueRename
    BY <1>5 DEF EnqueueRename, panelVars
  <1>6. CASE DeletePosted
    BY <1>6 DEF DeletePosted, Removed, panelVars
  <1>7. CASE RetryTraffic
    BY <1>1, <1>2, <1>7 DEF RetryTraffic, StartSync, StartSyncListFails,
       RetryAccepted, RetryFails, RetryDeleteFails, RetryDone, TrafficBatchOk,
       TrafficBatchFails, Accept,
       diskVars, panelVars
  <1>8. CASE CollectTraffic
    BY <1>1, <1>3, <1>4, <1>5, <1>6, <1>8 DEF CollectTraffic, CollectNothing,
       QueryStats, QueryStatsLost, PostAccepted, PostFails, DeletePostedFails,
       TrafficBatchOk, TrafficBatchFails, Accept, diskVars, panelVars
  <1>9. CASE Environment
    BY <1>1, <1>9 DEF NoPowerLoss, Environment, UserTraffic, XrayDies,
       LateArrival, Accept, Writeback, Crash, PowerLoss, diskVars, panelVars
  <1>10. CASE PendingUsage \/ PendingUsageFails \/ FetchDesired
             \/ FetchDesiredFails \/ Reconcile
              \/ Restart \/ UNCHANGED vars
    BY <1>1, <1>10 DEF PendingUsage, PendingUsageFails, FetchDesired,
       FetchDesiredFails, Reconcile, Restart, vars, diskVars, panelVars
  <1>11. QED
    BY <1>7, <1>8, <1>9, <1>10 DEF Next, Agent

LEMMA QuotaStep ==
    BillingInv /\ DurableInv /\ QuotaInv /\ [Next]_vars => QuotaInv'
  <1> SUFFICES ASSUME BillingInv, DurableInv, QuotaInv, [Next]_vars
               PROVE  QuotaInv'
    OBVIOUS
  <1> USE DEF QuotaInv, PendingComplete, QuotaNeverUndercounts
  <1>1. CASE PendingUsage
    <2>1. view'.pending = UNION {content[e] : e \in Listed}
      BY <1>1 DEF PendingUsage, UnitsOf, DurableInv, BillingInv, TypeOK
    <2>2. ASSUME NEW e \in spooled, NEW u \in content[e]
          PROVE  u \in view'.pending \/ (u \in Unit /\ billed[u] > 0)
      <3>1. e \in Event /\ u \in Unit
        BY DEF BillingInv, TypeOK
      <3>2. CASE file[e] = "json"
        BY <2>1, <3>1, <3>2 DEF Listed
      <3>3. CASE e \in claimed
        BY <3>1, <3>3 DEF BillingInv, BilledExactly
      <3>4. QED
        BY <3>2, <3>3 DEF DurableInv, SpooledUntilBilled
    <2>3. pc' = "fetch" /\ UNCHANGED <<content, billed, spooled>>
      BY <1>1 DEF PendingUsage, panelVars
    <2>4. QED
      BY <2>2, <2>3
  <1>2. CASE FetchDesired
    BY <1>2 DEF FetchDesired, BillingInv, TypeOK
  <1>3. ASSUME pc' \notin {"fetch", "evaluate"} PROVE QuotaInv'
    BY <1>3
  <1>11. CASE PendingUsageFails
    BY <1>11 DEF PendingUsageFails, BillingInv, TypeOK
  <1>4. ASSUME UNCHANGED <<pc, view, content, spooled>>,
               \A u \in Unit : billed[u] > 0 => billed'[u] > 0
        PROVE  QuotaInv'
    BY <1>4
  <1>5. ASSUME NEW e \in Event, LateArrival(e) PROVE QuotaInv'
    <2>1. \A u \in Unit : billed[u] > 0 => billed'[u] > 0
      BY <1>5 DEF LateArrival, Accept, BillingInv, TypeOK
    <2>2. QED
      BY <1>4, <1>5, <2>1 DEF LateArrival
  <1>6. CASE RetryTraffic \/ CollectTraffic
    BY <1>3, <1>6 DEF RetryTraffic, StartSync, StartSyncListFails,
       RetryAccepted, RetryFails, RetryDelete, RetryDeleteFails, RetryDone,
       CollectTraffic, CollectNothing, QueryStats, QueryStatsLost,
       EnqueueWrite, EnqueueFails, EnqueueRename, PostAccepted, PostFails, DeletePosted, DeletePostedFails
  <1>7. CASE Environment
    BY <1>3, <1>4, <1>5, <1>7 DEF Environment, UserTraffic, XrayDies,
       Writeback, Crash, PowerLoss, ProcessesDie, panelVars
  <1>8. CASE FetchDesiredFails \/ Reconcile \/ Restart
    BY <1>3, <1>8 DEF FetchDesiredFails, Reconcile, Restart
  <1>9. CASE UNCHANGED vars
    BY <1>4, <1>9 DEF vars
  <1>10. QED
    BY <1>1, <1>2, <1>6, <1>7, <1>8, <1>9, <1>11 DEF Next, Agent

LEMMA DeliveryInvariant ==
    ASSUME NoPowerLoss
    PROVE  Spec => [](BillingInv /\ DurableInv /\ QuotaInv)
  <1>1. Init => DurableInv /\ QuotaInv
    BY DEF Init, DurableInv, SpooledUntilBilled, QuotaInv, PendingComplete,
       QuotaNeverUndercounts
  <1>2. BillingInv /\ DurableInv /\ QuotaInv /\ [Next]_vars
           => BillingInv' /\ DurableInv' /\ QuotaInv'
    BY NoPowerLoss, DurableStep, QuotaStep, TypeStep, UnitsStep, SpoolStep,
       BilledStep DEF BillingInv
  <1>3. QED
    BY BillingInit, <1>1, <1>2, PTL DEF Spec

\* A batch whose Enqueue succeeded is readable until the panel claimed it.
THEOREM SpoolIsDurable ==
    ASSUME NoPowerLoss
    PROVE  Spec => []SpooledUntilBilled
  <1>1. DurableInv => SpooledUntilBilled
    BY DEF DurableInv
  <1>2. QED
    BY NoPowerLoss, DeliveryInvariant, <1>1, PTL

\* No spooled unit is missing from both figures the quota is judged by, in a
\* sync whose PendingUsage could list the spool.
THEOREM QuotaIsSafe ==
    ASSUME NoPowerLoss
    PROVE  Spec => []QuotaNeverUndercounts
  <1>1. QuotaInv => QuotaNeverUndercounts
    BY DEF QuotaInv
  <1>2. QED
    BY NoPowerLoss, DeliveryInvariant, <1>1, PTL

-----------------------------------------------------------------------------
(* The refinement.  Each step moves a set of units, possibly empty, from   *)
(* one status of the ledger to the next.                                   *)

LedgerInv == BillingInv /\ DurableInv

Moves(S, from, to) ==
    /\ \A u \in S : StatusOf(u) = from
    /\ \A u \in Unit : StatusOf(u)' = IF u \in S THEN to ELSE StatusOf(u)

LedgerStep == [Ledger!Next]_[u \in Unit |-> StatusOf(u)]

LEMMA MovesAreLedgerSteps ==
    ASSUME NEW S \in SUBSET Unit,
           \/ Moves(S, "idle", "metered") /\ \E u \in Unit : S = {u}
           \/ Moves(S, "metered", "spooled")
           \/ Moves(S, "spooled", "billed")
           \/ Moves(S, "metered", "lost")
    PROVE  LedgerStep
  <1> DEFINE st == [u \in Unit |-> StatusOf(u)]
  <1>1. CASE S = {}
    BY <1>1 DEF Moves, LedgerStep
  <1>2. ASSUME NEW from, NEW to, Moves(S, from, to), S # {}
        PROVE  Ledger!Move(S, from, to)
    BY <1>2 DEF Moves, Ledger!Move
  <1>3. CASE S # {}
    BY <1>2, <1>3 DEF LedgerStep, Ledger!Next, Ledger!Meter, Ledger!Spool,
       Ledger!Bill, Ledger!Lose
  <1>4. QED
    BY <1>1, <1>3

LEMMA StutterIsLedgerStep ==
    ASSUME \A u \in Unit : StatusOf(u)' = StatusOf(u)
    PROVE  LedgerStep
  BY DEF LedgerStep

\* A batch the panel accepts is queued, or was accepted before.
LEMMA AcceptIsBill ==
    ASSUME LedgerInv, NEW e \in spooled, Accept(e),
           UNCHANGED <<counters, used, content, file, spooled>>,
           InFlight' = InFlight
    PROVE  LedgerStep
  <1> DEFINE S == IF e \in claimed THEN {} ELSE content[e]
  <1>0. e \in Event /\ S \in SUBSET Unit
    BY DEF LedgerInv, BillingInv, TypeOK
  <1>1. ASSUME NEW u \in S PROVE StatusOf(u) = "spooled"
    <2>1. billed[u] = 0 /\ u \in Unit
      BY <1>0, <1>1 DEF LedgerInv, BillingInv, TypeOK, UnitsInv, BilledExactly
    <2>2. u \in Queued
      BY <1>0, <1>1 DEF LedgerInv, DurableInv, SpooledUntilBilled, Queued, UnitsOf
    <2>3. QED
      BY <2>1, <2>2 DEF StatusOf
  <1>2. ASSUME NEW u \in Unit
        PROVE  StatusOf(u)' = IF u \in S THEN "billed" ELSE StatusOf(u)
    <2>1. billed'[u] = IF u \in S THEN billed[u] + 1 ELSE billed[u]
      BY DEF Accept
    <2>2. billed[u] \in Nat
      BY DEF LedgerInv, BillingInv, TypeOK
    <2>3. Queued' = Queued
      BY DEF Queued, UnitsOf
    <2>4. QED
      BY <2>1, <2>2, <2>3 DEF StatusOf
  <1>3. QED
    BY <1>0, <1>1, <1>2, MovesAreLedgerSteps DEF Moves

LEMMA FailsIsLedgerStep ==
    ASSUME LedgerInv, NEW e \in spooled, TrafficBatchFails(e),
           UNCHANGED <<counters, used, content, file, spooled>>,
           InFlight' = InFlight
    PROVE  LedgerStep
  <1>1. CASE UNCHANGED <<claimed, billed>>
    BY <1>1, StutterIsLedgerStep DEF StatusOf, Queued, UnitsOf
  <1>2. CASE Accept(e)
    BY <1>2, AcceptIsBill
  <1>3. QED
    BY <1>1, <1>2 DEF TrafficBatchFails, panelVars

\* Units of the core, or of the batch in flight, that are dropped are lost.
LEMMA DropIsLose ==
    ASSUME LedgerInv, NEW L \in SUBSET (counters \cup InFlight),
           UNCHANGED <<used, claimed, billed>>, Queued' = Queued,
           counters' \cup InFlight' = (counters \cup InFlight) \ L
    PROVE  LedgerStep
  <1>0. pc \in {"write", "rename"} => cur \in Event
    BY DEF LedgerInv, BillingInv, TypeOK, InScope
  <1>1. /\ counters \cup InFlight \subseteq used
        /\ L \in SUBSET Unit
    BY <1>0 DEF LedgerInv, BillingInv, TypeOK, UnitsInv, InFlight
  <1>2. ASSUME NEW u \in counters \cup InFlight
        PROVE  StatusOf(u) = "metered"
    <2>1. u \notin UnitsOf(spooled)
      BY <1>0, <1>2 DEF LedgerInv, BillingInv, TypeOK, UnitsInv, SpoolInv,
         InFlight, UnitsOf
    <2>2. billed[u] = 0 /\ u \notin Queued
      BY <1>1, <1>2, <2>1 DEF LedgerInv, BillingInv, TypeOK, BilledExactly,
         SpoolInv, Queued, UnitsOf
    <2>3. QED
      BY <1>2, <2>2 DEF StatusOf
  <1>3. ASSUME NEW u \in Unit
        PROVE  StatusOf(u)' = IF u \in L THEN "lost" ELSE StatusOf(u)
    <2>1. CASE u \in L
      <3>1. StatusOf(u) = "metered" /\ u \in used
        BY <1>1, <1>2, <2>1
      <3>2. billed[u] <= 0 /\ ~ (billed[u] > 0) /\ u \notin Queued
        BY <3>1 DEF StatusOf, LedgerInv, BillingInv, TypeOK
      <3>3. QED
        BY <2>1, <3>1, <3>2 DEF StatusOf
    <2>2. CASE u \notin L
      BY <2>2 DEF StatusOf
    <2>3. QED
      BY <2>1, <2>2
  <1>4. QED
    BY <1>1, <1>2, <1>3, MovesAreLedgerSteps DEF Moves

\* A step that neither the units, the files nor the panel take part in.
LEMMA OtherIsStutter ==
    ASSUME UNCHANGED <<counters, used, content, file, spooled, claimed, billed>>,
           InFlight' = InFlight
    PROVE  LedgerStep
  BY StutterIsLedgerStep DEF StatusOf, Queued, UnitsOf

LEMMA RetryLedger == LedgerInv /\ RetryTraffic => LedgerStep
  <1> SUFFICES ASSUME LedgerInv, RetryTraffic PROVE LedgerStep
    OBVIOUS
  <1> USE DEF InFlight, coreVars, diskVars, panelVars
  <1>1. CASE StartSync \/ StartSyncListFails
    BY <1>1, OtherIsStutter DEF StartSync, StartSyncListFails
  <1>2. ASSUME NEW e \in Event, RetryAccepted(e) PROVE LedgerStep
    BY <1>2, AcceptIsBill DEF RetryAccepted, TrafficBatchOk, Oldest, LedgerInv,
       BillingInv, SpoolInv
  <1>3. ASSUME NEW e \in Event, RetryFails(e) PROVE LedgerStep
    BY <1>3, FailsIsLedgerStep DEF RetryFails, Oldest, LedgerInv, BillingInv,
       SpoolInv
  <1>4. CASE RetryDelete
    <2>1. \A u \in Unit : StatusOf(u)' = StatusOf(u)
      BY <1>4 DEF RetryDelete, Removed, StatusOf, Queued, UnitsOf, LedgerInv,
         BillingInv, TypeOK, SpoolInv, BilledExactly
    <2>2. QED
      BY <2>1, StutterIsLedgerStep
  <1>5. CASE RetryDeleteFails \/ RetryDone
    BY <1>5, OtherIsStutter DEF RetryDeleteFails, RetryDone
  <1>6. QED
    BY <1>1, <1>2, <1>3, <1>4, <1>5 DEF RetryTraffic

LEMMA CollectLedger == LedgerInv /\ CollectTraffic => LedgerStep
  <1> SUFFICES ASSUME LedgerInv, CollectTraffic PROVE LedgerStep
    OBVIOUS
  <1> USE DEF coreVars, diskVars, panelVars
  <1>0. pc \in InScope => cur \in Event
    BY DEF LedgerInv, BillingInv, TypeOK
  <1>1. CASE CollectNothing
    BY <1>1, OtherIsStutter DEF CollectNothing, InFlight
  <1>2. ASSUME NEW e \in Event, QueryStats(e) PROVE LedgerStep
    <2>1. e \notin spooled
      BY <1>2 DEF QueryStats, Fresh, LedgerInv, BillingInv, SpoolInv
    <2>2. Queued' = Queued
      BY <1>2, <2>1 DEF QueryStats, Queued, UnitsOf, LedgerInv, BillingInv, TypeOK
    <2>3. counters' \cup InFlight' = counters \cup InFlight
      BY <1>2 DEF QueryStats, InFlight, LedgerInv, BillingInv, TypeOK
    <2>4. QED
      BY <1>2, <2>2, <2>3, StutterIsLedgerStep DEF QueryStats, StatusOf
  <1>3. CASE QueryStatsLost
    <2>1. Queued' = Queued /\ InFlight = {} /\ InFlight' = {} /\ counters' = {}
      BY <1>3 DEF QueryStatsLost, Queued, UnitsOf, InFlight
    <2>2. QED
      BY <1>3, <2>1, DropIsLose DEF QueryStatsLost
  <1>4. CASE EnqueueWrite
    <2>1. cur \notin spooled
      BY <1>4 DEF EnqueueWrite, LedgerInv, BillingInv, SpoolInv
    <2>2. Queued' = Queued
      BY <1>4, <2>1 DEF EnqueueWrite, Queued, UnitsOf, LedgerInv, BillingInv, TypeOK
    <2>3. QED
      BY <1>4, <2>2, StutterIsLedgerStep DEF EnqueueWrite, StatusOf, InFlight
  <1>5. CASE EnqueueFails
    <2>1. cur \notin spooled
      BY <1>5 DEF EnqueueFails, LedgerInv, BillingInv, SpoolInv
    <2>2. Queued' = Queued
      BY <1>5, <2>1 DEF EnqueueFails, Queued, UnitsOf, LedgerInv, BillingInv, TypeOK
    <2>3. counters \cap InFlight = {} /\ InFlight' = {}
      BY <1>0, <1>5 DEF EnqueueFails, InFlight, LedgerInv, BillingInv, UnitsInv,
         InScope
    <2>4. QED
      BY <1>5, <2>2, <2>3, DropIsLose DEF EnqueueFails
  <1>6. CASE EnqueueRename
    <2> DEFINE S == content[cur]
    <2>0. cur \in Event /\ cur \notin spooled /\ S \in SUBSET Unit
      BY <1>0, <1>6 DEF EnqueueRename, InScope, LedgerInv, BillingInv, TypeOK,
         SpoolInv
    <2>1. InFlight = S /\ InFlight' = {}
      BY <1>6 DEF EnqueueRename, InFlight
    <2>2. Queued' = Queued \cup S
      BY <1>6, <2>0 DEF EnqueueRename, Queued, UnitsOf, LedgerInv, BillingInv, TypeOK
    <2>3. ASSUME NEW u \in S PROVE billed[u] = 0 /\ u \notin Queued
      BY <2>0 DEF LedgerInv, BillingInv, TypeOK, UnitsInv, SpoolInv,
         BilledExactly, Queued, UnitsOf
    <2>4. Moves(S, "metered", "spooled")
      BY <1>6, <2>0, <2>1, <2>2, <2>3 DEF EnqueueRename, Moves, StatusOf
    <2>5. QED
      BY <2>0, <2>4, MovesAreLedgerSteps
  <1>7. CASE PostAccepted
    BY <1>7, AcceptIsBill DEF PostAccepted, TrafficBatchOk, InFlight, LedgerInv,
       BillingInv, SpoolInv
  <1>8. CASE PostFails
    BY <1>8, FailsIsLedgerStep DEF PostFails, InFlight, LedgerInv, BillingInv,
       SpoolInv
  <1>9. CASE DeletePosted
    <2>1. \A u \in Unit : StatusOf(u)' = StatusOf(u)
      BY <1>9 DEF DeletePosted, Removed, StatusOf, InFlight, Queued, UnitsOf,
         LedgerInv, BillingInv, TypeOK, SpoolInv, BilledExactly
    <2>2. QED
      BY <2>1, StutterIsLedgerStep
  <1>10. CASE DeletePostedFails
    BY <1>10, OtherIsStutter DEF DeletePostedFails, InFlight
  <1>11. QED
    BY <1>1, <1>2, <1>3, <1>4, <1>5, <1>6, <1>7, <1>8, <1>9, <1>10
       DEF CollectTraffic

LEMMA EnvironmentLedger ==
    NoPowerLoss /\ LedgerInv /\ Environment => LedgerStep
  <1> SUFFICES ASSUME NoPowerLoss, LedgerInv, Environment PROVE LedgerStep
    OBVIOUS
  <1> USE DEF coreVars, diskVars, panelVars
  <1>1. ASSUME NEW u \in Unit, UserTraffic(u) PROVE LedgerStep
    <2>1. u \notin Queued /\ u \notin counters \cup InFlight /\ ~ (billed[u] > 0)
      BY <1>1 DEF UserTraffic, LedgerInv, BillingInv, TypeOK, UnitsInv, SpoolInv,
         BilledExactly, Queued, UnitsOf, InFlight, InScope
    <2>2. Queued' = Queued /\ InFlight' = InFlight
      BY <1>1 DEF UserTraffic, Queued, UnitsOf, InFlight
    <2>3. Moves({u}, "idle", "metered")
      BY <1>1, <2>1, <2>2 DEF UserTraffic, Moves, StatusOf
    <2>4. QED
      BY <2>3, MovesAreLedgerSteps
  <1>2. CASE XrayDies
    <2>1. Queued' = Queued /\ InFlight' = InFlight /\ counters' = {}
      BY <1>2 DEF XrayDies, Queued, UnitsOf, InFlight
    <2>2. counters \cap InFlight = {}
      BY DEF LedgerInv, BillingInv, TypeOK, UnitsInv, InFlight, InScope
    <2>3. QED
      BY <1>2, <2>1, <2>2, DropIsLose DEF XrayDies
  <1>3. ASSUME NEW e \in Event, LateArrival(e) PROVE LedgerStep
    BY <1>3, AcceptIsBill DEF LateArrival, InFlight, LedgerInv, BillingInv,
       SpoolInv
  <1>4. CASE Crash
    <2>1. Queued' = Queued /\ InFlight' = {} /\ counters' = {}
      BY <1>4 DEF Crash, ProcessesDie, Queued, UnitsOf, InFlight
    <2>2. QED
      BY <1>4, <2>1, DropIsLose DEF Crash
  <1>5. QED
    BY <1>1, <1>2, <1>3, <1>4 DEF Environment, Writeback, PowerLoss, NoPowerLoss

LEMMA NextLedger == NoPowerLoss /\ LedgerInv /\ [Next]_vars => LedgerStep
  <1> SUFFICES ASSUME NoPowerLoss, LedgerInv, [Next]_vars PROVE LedgerStep
    OBVIOUS
  <1> USE DEF coreVars, diskVars, panelVars
  <1>1. CASE PendingUsage \/ PendingUsageFails \/ FetchDesired
             \/ FetchDesiredFails \/ Restart
    BY <1>1, OtherIsStutter DEF PendingUsage, PendingUsageFails, FetchDesired,
       FetchDesiredFails, Restart, InFlight
  <1>2. CASE Reconcile
    <2>1. Queued' = Queued /\ InFlight = {} /\ InFlight' = {}
      BY <1>2 DEF Reconcile, Queued, UnitsOf, InFlight
    <2>2. counters' = counters \/ counters' = {}
      BY <1>2 DEF Reconcile
    <2>3. counters' \cup InFlight' = (counters \cup InFlight) \ (counters \ counters')
      BY <2>1, <2>2
    <2>4. QED
      BY <1>2, <2>1, <2>3, DropIsLose DEF Reconcile
  <1>3. CASE UNCHANGED vars
    BY <1>3, OtherIsStutter DEF vars, InFlight
  <1>4. QED
    BY <1>1, <1>2, <1>3, RetryLedger, CollectLedger, EnvironmentLedger
       DEF Next, Agent

\* The traffic path implements the ledger: a unit is lost only while no
\* spool file holds it, and billed only after one did.
THEOREM TrafficRefinement ==
    ASSUME NoPowerLoss
    PROVE  Spec => ImplementsLedger
  <1>1. Init => Ledger!Init
    BY DEF Init, Ledger!Init, StatusOf, Queued, UnitsOf, InFlight
  <1>2. LedgerInv /\ [Next]_vars => LedgerStep
    BY NoPowerLoss, NextLedger
  <1>3. BillingInv /\ DurableInv => LedgerInv
    BY DEF LedgerInv
  <1>4. QED
    BY NoPowerLoss, DeliveryInvariant, <1>1, <1>2, <1>3, PTL
       DEF Spec, ImplementsLedger, Ledger!Spec, LedgerStep
=============================================================================
