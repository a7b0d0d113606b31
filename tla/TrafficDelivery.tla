--------------------------- MODULE TrafficDelivery ---------------------------
(***************************************************************************)
(* The traffic path of one node: the counters of the Xray core, the spool  *)
(* directory of the agent (internal/traffic/spool.go), the part of         *)
(* Agent.sync that retries, collects and reports traffic and computes the  *)
(* usage the quota is judged by (internal/agent/agent.go), and the panel's *)
(* idempotent traffic endpoint, seen through internal/panel/client.go.     *)
(*                                                                         *)
(* Traffic is a set of units (a unit stands for the bytes of one user that *)
(* are counted and reset together).  A batch is named by its event_id; its *)
(* number is its place in the order Spool.List sorts by.                   *)
(*                                                                         *)
(* The agent is one thread.  Every system call or request whose failure    *)
(* the code distinguishes, and every point at which a crash leaves         *)
(* different files behind, is a step of its own.                           *)
(***************************************************************************)
EXTENDS Naturals, FiniteSets

CONSTANTS
    Unit,               \* units of user traffic
    Event,              \* event ids, ordered as List orders the batches
    MaxCrashes,         \* bound: process crashes and power losses
    PowerLossPossible,  \* whether the machine can lose its page cache
    None                \* no current batch

ASSUME EventAssumption == Event \subseteq Nat
ASSUME NoneAssumption == None \notin Event
ASSUME BoundAssumption == MaxCrashes \in Nat /\ PowerLossPossible \in BOOLEAN

VARIABLES
    xray,       \* the core process, "up" or "down"
    counters,   \* units counted by the core and not yet reset
    used,       \* units users have caused so far
    pc,         \* where the agent is in Agent.sync
    todo,       \* batches retryTraffic has listed and not yet retried
    cur,        \* the batch being written, posted or deleted
    content,    \* units in each batch drawn so far
    file,       \* spool directory entry of each batch
    stable,     \* what the disk itself would show after a power loss
    late,       \* requests that outlived the agent's wait for an answer
    claimed,    \* event ids the panel has processed
    billed,     \* how many times the panel has added each unit
    view,       \* the two usage figures Agent.sync has read; known (history):
                \* the pending one comes from a spool that could be listed
    spooled,    \* history: batches whose Enqueue returned nil
    crashes     \* crashes and power losses so far

coreVars  == <<xray, counters, used>>
diskVars  == <<file, stable>>
panelVars == <<late, claimed, billed>>
vars == <<xray, counters, used, pc, todo, cur, content, file, stable,
          late, claimed, billed, view, spooled, crashes>>

PC == {"down", "idle", "retry", "retryDelete", "collect", "write", "rename",
       "post", "delete", "usage", "fetch", "evaluate"}

\* Where a batch is in scope.
InScope == {"retryDelete", "write", "rename", "post", "delete"}

Entry == {"none", "tmp", "json", "torn"}

TypeOK ==
    /\ xray \in {"up", "down"}
    /\ counters \subseteq Unit
    /\ used \subseteq Unit
    /\ pc \in PC
    /\ todo \subseteq Event
    /\ cur \in Event \cup {None}
    /\ content \in [Event -> SUBSET Unit]
    /\ file \in [Event -> Entry]
    /\ stable \in [Event -> Entry]
    /\ late \subseteq Event
    /\ claimed \subseteq Event
    /\ billed \in [Unit -> Nat]
    /\ view \in [pending : SUBSET Unit, panel : SUBSET Unit, known : BOOLEAN]
    /\ spooled \subseteq Event
    /\ crashes \in 0..MaxCrashes
    /\ (cur = None) <=> (pc \notin InScope)

NoView == [pending |-> {}, panel |-> {}, known |-> FALSE]

Init ==
    /\ xray = "down"
    /\ counters = {}
    /\ used = {}
    /\ pc = "down"
    /\ todo = {}
    /\ cur = None
    /\ content = [e \in Event |-> {}]
    /\ file = [e \in Event |-> "none"]
    /\ stable = [e \in Event |-> "none"]
    /\ late = {}
    /\ claimed = {}
    /\ billed = [u \in Unit |-> 0]
    /\ view = NoView
    /\ spooled = {}
    /\ crashes = 0

-----------------------------------------------------------------------------
(* The core: users cause traffic, the process may die on its own.  Its     *)
(* counters live in memory.                                                *)

UserTraffic(u) ==
    /\ xray = "up"
    /\ u \notin used
    /\ used' = used \cup {u}
    /\ counters' = counters \cup {u}
    /\ UNCHANGED <<xray, pc, todo, cur, content, diskVars, panelVars, view,
                   spooled, crashes>>

XrayDies ==
    /\ xray = "up"
    /\ xray' = "down"
    /\ counters' = {}
    /\ UNCHANGED <<used, pc, todo, cur, content, diskVars, panelVars, view,
                   spooled, crashes>>

-----------------------------------------------------------------------------
(* The panel and the network.  The panel claims the event id in the        *)
(* transaction that adds the deltas.  A request the client gives up on     *)
(* (15 s timeout, refused connection, error status, cancelled context) was *)
(* never accepted, was accepted and its response lost, or is still under   *)
(* way.                                                                    *)

Accept(e) ==
    /\ claimed' = claimed \cup {e}
    /\ billed' = [u \in Unit |-> IF e \notin claimed /\ u \in content[e]
                                 THEN billed[u] + 1 ELSE billed[u]]

TrafficBatchOk(e) == Accept(e) /\ UNCHANGED late

TrafficBatchFails(e) ==
    \/ UNCHANGED panelVars
    \/ Accept(e) /\ UNCHANGED late
    \/ late' = late \cup {e} /\ UNCHANGED <<claimed, billed>>

LateArrival(e) ==
    /\ e \in late
    /\ late' = late \ {e}
    /\ Accept(e)
    /\ UNCHANGED <<coreVars, pc, todo, cur, content, diskVars, view, spooled,
                   crashes>>

-----------------------------------------------------------------------------
(* The spool.                                                              *)

\* List reads every *.json.  One that does not parse fails the whole call;
\* so does an error in reading the directory or a file, which can come at
\* any time (StartSyncListFails, PendingUsageFails).
Parses == \A e \in Event : file[e] # "torn"

\* Mutant: the suffix filter keeps the temporary files instead.
ListedTmp == {e \in Event : file[e] = "tmp"}

Listed == {e \in Event : file[e] = "json"}

\* Delete removes the entry; a missing one is no error.
Removed(e) == file' = [file EXCEPT ![e] = "none"]

UnitsOf(E) == UNION {content[e] : e \in E}

\* NewEventID: an id never drawn before.
Fresh == {e \in Event : content[e] = {}}

-----------------------------------------------------------------------------
(* retryTraffic                                                            *)

StartSync ==
    /\ pc = "idle"
    /\ Parses
    /\ todo' = Listed
    /\ pc' = "retry"
    /\ UNCHANGED <<coreVars, cur, content, diskVars, panelVars, view, spooled,
                   crashes>>

\* Nothing is retried in this sync.
StartSyncListFails ==
    /\ pc = "idle"
    /\ todo' = {}
    /\ pc' = "collect"
    /\ UNCHANGED <<coreVars, cur, content, diskVars, panelVars, view, spooled,
                   crashes>>

Oldest(e) == e \in todo /\ \A f \in todo : e <= f

\* Mutant: the event id is drawn when the batch is sent, not when it is
\* collected, so the panel cannot recognise a retry.
RetryAcceptedNewId(e) ==
    /\ pc = "retry"
    /\ Oldest(e)
    /\ billed' = [u \in Unit |-> IF u \in content[e] THEN billed[u] + 1 ELSE billed[u]]
    /\ cur' = e
    /\ pc' = "retryDelete"
    /\ UNCHANGED <<coreVars, todo, content, diskVars, claimed, late, view,
                   spooled, crashes>>

RetryAccepted(e) ==
    /\ pc = "retry"
    /\ Oldest(e)
    /\ TrafficBatchOk(e)
    /\ cur' = e
    /\ pc' = "retryDelete"
    /\ UNCHANGED <<coreVars, todo, content, diskVars, view, spooled, crashes>>

RetryFails(e) ==
    /\ pc = "retry"
    /\ Oldest(e)
    /\ TrafficBatchFails(e)
    /\ todo' = {}
    /\ pc' = "collect"
    /\ UNCHANGED <<coreVars, cur, content, diskVars, view, spooled, crashes>>

RetryDelete ==
    /\ pc = "retryDelete"
    /\ Removed(cur)
    /\ todo' = todo \ {cur}
    /\ cur' = None
    /\ pc' = "retry"
    /\ UNCHANGED <<coreVars, content, stable, panelVars, view, spooled, crashes>>

RetryDeleteFails ==
    /\ pc = "retryDelete"
    /\ todo' = {}
    /\ cur' = None
    /\ pc' = "collect"
    /\ UNCHANGED <<coreVars, content, diskVars, panelVars, view, spooled, crashes>>

RetryDone ==
    /\ pc = "retry"
    /\ todo = {}
    /\ pc' = "collect"
    /\ UNCHANGED <<coreVars, todo, cur, content, diskVars, panelVars, view,
                   spooled, crashes>>

-----------------------------------------------------------------------------
(* collectTraffic                                                          *)

\* Not running, no record, or a query that failed before the core saw it.
CollectNothing ==
    /\ pc = "collect"
    /\ pc' = "usage"
    /\ UNCHANGED <<coreVars, todo, cur, content, diskVars, panelVars, view,
                   spooled, crashes>>

\* Mutant: the query runs without -reset=true.
QueryStatsNoReset(e) ==
    /\ pc = "collect"
    /\ xray = "up"
    /\ counters # {}
    /\ e \in Fresh
    /\ content' = [content EXCEPT ![e] = counters]
    /\ cur' = e
    /\ pc' = "write"
    /\ UNCHANGED <<coreVars, todo, diskVars, panelVars, view, spooled, crashes>>

\* Mutant: the batch is posted first and spooled only if that fails.
QueryStatsPostFirst(e) ==
    /\ pc = "collect"
    /\ xray = "up"
    /\ counters # {}
    /\ e \in Fresh
    /\ content' = [content EXCEPT ![e] = counters]
    /\ counters' = {}
    /\ cur' = e
    /\ pc' \in {"write", "post"}
    /\ UNCHANGED <<xray, used, todo, diskVars, panelVars, view, spooled, crashes>>

\* statsquery -reset: the core hands its counters over and zeroes them.
QueryStats(e) ==
    /\ pc = "collect"
    /\ xray = "up"
    /\ counters # {}
    /\ e \in Fresh
    /\ content' = [content EXCEPT ![e] = counters]
    /\ counters' = {}
    /\ cur' = e
    /\ pc' = "write"
    /\ UNCHANGED <<xray, used, todo, diskVars, panelVars, view, spooled, crashes>>

\* The reset happened, but the command failed or its output did not parse.
QueryStatsLost ==
    /\ pc = "collect"
    /\ xray = "up"
    /\ counters # {}
    /\ counters' = {}
    /\ pc' = "usage"
    /\ UNCHANGED <<xray, used, todo, cur, content, diskVars, panelVars, view,
                   spooled, crashes>>

EnqueueWrite ==
    /\ pc = "write"
    /\ file' = [file EXCEPT ![cur] = "tmp"]
    /\ pc' = "rename"
    /\ UNCHANGED <<coreVars, todo, cur, content, stable, panelVars, view,
                   spooled, crashes>>

\* MkdirAll, WriteFile or Rename fails: the batch is dropped.
EnqueueFails ==
    /\ pc \in {"write", "rename"}
    /\ file' \in {file, [file EXCEPT ![cur] = "tmp"]}
    /\ cur' = None
    /\ pc' = "usage"
    /\ UNCHANGED <<coreVars, todo, content, stable, panelVars, view, spooled,
                   crashes>>

EnqueueRename ==
    /\ pc = "rename"
    /\ file' = [file EXCEPT ![cur] = "json"]
    /\ spooled' = spooled \cup {cur}
    /\ pc' = "post"
    /\ UNCHANGED <<coreVars, todo, cur, content, stable, panelVars, view, crashes>>

PostAccepted ==
    /\ pc = "post"
    /\ TrafficBatchOk(cur)
    /\ pc' = "delete"
    /\ UNCHANGED <<coreVars, todo, cur, content, diskVars, view, spooled, crashes>>

\* Mutant: a deferred Delete removes the file on the error path too.
PostFailsDeletes ==
    /\ pc = "post"
    /\ TrafficBatchFails(cur)
    /\ Removed(cur)
    /\ cur' = None
    /\ pc' = "usage"
    /\ UNCHANGED <<coreVars, todo, content, stable, view, spooled, crashes>>

\* Mutant: the failed batch is left in scope for the steps that follow.
PostFailsKeepsBatch ==
    /\ pc = "post"
    /\ TrafficBatchFails(cur)
    /\ pc' = "usage"
    /\ UNCHANGED <<coreVars, todo, cur, content, diskVars, view, spooled, crashes>>

PostFails ==
    /\ pc = "post"
    /\ TrafficBatchFails(cur)
    /\ cur' = None
    /\ pc' = "usage"
    /\ UNCHANGED <<coreVars, todo, content, diskVars, view, spooled, crashes>>

DeletePosted ==
    /\ pc = "delete"
    /\ Removed(cur)
    /\ cur' = None
    /\ pc' = "usage"
    /\ UNCHANGED <<coreVars, todo, content, stable, panelVars, view, spooled, crashes>>

DeletePostedFails ==
    /\ pc = "delete"
    /\ cur' = None
    /\ pc' = "usage"
    /\ UNCHANGED <<coreVars, todo, content, diskVars, panelVars, view, spooled,
                   crashes>>

-----------------------------------------------------------------------------
(* The usage figures of the quota, and the rest of sync.                   *)

\* Mutant: the batches retryTraffic listed are reused instead of listing the
\* spool again.
PendingUsageOfRetry ==
    /\ pc = "usage"
    /\ view' = [view EXCEPT !.pending = UnitsOf(todo), !.known = TRUE]
    /\ pc' = "fetch"
    /\ UNCHANGED <<coreVars, todo, cur, content, diskVars, panelVars, spooled,
                   crashes>>

PendingUsage ==
    /\ pc = "usage"
    /\ Parses
    /\ view' = [view EXCEPT !.pending = UnitsOf(Listed), !.known = TRUE]
    /\ pc' = "fetch"
    /\ UNCHANGED <<coreVars, todo, cur, content, diskVars, panelVars, spooled,
                   crashes>>

\* The error is logged, and sync goes on with an empty map.
PendingUsageFails ==
    /\ pc = "usage"
    /\ view' = [view EXCEPT !.pending = {}, !.known = FALSE]
    /\ pc' = "fetch"
    /\ UNCHANGED <<coreVars, todo, cur, content, diskVars, panelVars, spooled,
                   crashes>>

\* DesiredState carries traffic_used_bytes, what the panel has added so far.
FetchDesired ==
    /\ pc = "fetch"
    /\ view' = [view EXCEPT !.panel = {u \in Unit : billed[u] > 0}]
    /\ pc' = "evaluate"
    /\ UNCHANGED <<coreVars, todo, cur, content, diskVars, panelVars, spooled,
                   crashes>>

FetchDesiredFails ==
    /\ pc = "fetch"
    /\ view' = NoView
    /\ pc' = "idle"
    /\ UNCHANGED <<coreVars, todo, cur, content, diskVars, panelVars, spooled,
                   crashes>>

\* policy.Evaluate and the reconciliation of the core, which leaves it
\* alone, stops it, starts it or restarts it.
Reconcile ==
    /\ pc = "evaluate"
    /\ view' = NoView
    /\ pc' = "idle"
    /\ \/ UNCHANGED <<xray, counters>>
       \/ xray' \in {"up", "down"} /\ counters' = {}
    /\ UNCHANGED <<used, todo, cur, content, diskVars, panelVars, spooled, crashes>>

-----------------------------------------------------------------------------
(* Faults.  systemd kills the whole control group, so the core dies with   *)
(* the agent, and starts the agent again.                                  *)

ProcessesDie ==
    /\ pc' = "down"
    /\ xray' = "down"
    /\ counters' = {}
    /\ todo' = {}
    /\ cur' = None
    /\ view' = NoView

Crash ==
    /\ pc # "down"
    /\ crashes < MaxCrashes
    /\ crashes' = crashes + 1
    /\ ProcessesDie
    /\ UNCHANGED <<used, content, diskVars, panelVars, spooled>>

Restart ==
    /\ pc = "down"
    /\ pc' = "idle"
    /\ UNCHANGED <<coreVars, todo, cur, content, diskVars, panelVars, view,
                   spooled, crashes>>

\* Neither the file nor its directory is synced: the kernel writes an entry
\* back when it likes, the name possibly before the data.
Writeback(e) ==
    /\ PowerLossPossible
    /\ stable[e] # file[e]
    /\ \/ stable' = [stable EXCEPT ![e] = file[e]]
       \/ /\ file[e] = "json" /\ stable[e] \in {"none", "tmp"}
          /\ stable' = [stable EXCEPT ![e] = "torn"]
    /\ UNCHANGED <<coreVars, pc, todo, cur, content, file, panelVars, view,
                   spooled, crashes>>

PowerLoss ==
    /\ PowerLossPossible
    /\ crashes < MaxCrashes
    /\ crashes' = crashes + 1
    /\ file' = stable
    /\ ProcessesDie
    /\ UNCHANGED <<used, content, stable, panelVars, spooled>>

-----------------------------------------------------------------------------
RetryTraffic ==
    \/ StartSync \/ StartSyncListFails
    \/ \E e \in Event : RetryAccepted(e) \/ RetryFails(e)
    \/ RetryDelete \/ RetryDeleteFails \/ RetryDone

CollectTraffic ==
    \/ CollectNothing
    \/ \E e \in Event : QueryStats(e)
    \/ QueryStatsLost
    \/ EnqueueWrite \/ EnqueueFails \/ EnqueueRename
    \/ PostAccepted \/ PostFails
    \/ DeletePosted \/ DeletePostedFails

Agent ==
    \/ RetryTraffic
    \/ CollectTraffic
    \/ PendingUsage \/ PendingUsageFails
    \/ FetchDesired \/ FetchDesiredFails
    \/ Reconcile

Environment ==
    \/ \E u \in Unit : UserTraffic(u)
    \/ XrayDies
    \/ \E e \in Event : LateArrival(e) \/ Writeback(e)
    \/ Crash \/ PowerLoss

Next == Agent \/ Environment \/ Restart

Spec == Init /\ [][Next]_vars

(***************************************************************************)
(* Fairness.  The agent's thread runs and its ticker fires; systemd        *)
(* restarts it (Restart=always).  A spool directory that is read again and *)
(* again can be read in the end, a panel that is asked again and again     *)
(* eventually answers a retry, and a removal that is tried again and again *)
(* eventually succeeds.  Nothing is assumed of users, of the core, of the  *)
(* kernel's writeback or of late requests.                                 *)
(***************************************************************************)
Fairness ==
    /\ WF_vars(Agent)
    /\ WF_vars(Restart)
    /\ SF_vars(StartSync)
    /\ SF_vars(\E e \in Event : RetryAccepted(e))
    /\ SF_vars(RetryDelete)

FairSpec == Spec /\ Fairness

-----------------------------------------------------------------------------
(* Properties                                                              *)

\* The panel adds no unit twice, whatever is retried, arrives late or is
\* sent again after a crash (docs/TRAFFIC_DELIVERY.md, idempotency).
BilledAtMostOnce == \A u \in Unit : billed[u] <= 1

\* A batch whose Enqueue succeeded stays readable in the spool until the
\* panel has claimed it: no failure path deletes, overwrites or forgets it.
SpooledUntilBilled == \A e \in spooled : file[e] = "json" \/ e \in claimed

\* When sync judges quotas by a spool it could list, every unit ever spooled
\* is in one of the two figures policy.Evaluate adds, the panel's or the
\* pending spool's, whatever was posted, retried, removed or still under way
\* between the two readings.  view.known names the case the code gives up:
\* after an error of PendingUsage sync judges with an empty map
\* (agent.go:132-136), and a spooled unit is in neither figure.
QuotaNeverUndercounts ==
    pc = "evaluate" /\ view.known =>
        \A e \in spooled : content[e] \subseteq view.pending \cup view.panel

\* docs/LIMITS.md: the agent "adds any still-uncommitted local spool
\* deltas" to what the panel has committed, so no unit is in both figures.
QuotaNeverDoubleCounts ==
    pc = "evaluate" => view.pending \cap view.panel = {}

\* Every batch whose Enqueue succeeded is claimed by the panel in the end,
\* through head-of-line failures, failed removals and crashes.
Delivered == \A e \in Event : e \in spooled ~> e \in claimed

\* docs/TRAFFIC_DELIVERY.md: queued batches are retried on the next sync, so
\* a readable batch does not wait in the spool for ever.
QueuedIsRetried ==
    \A e \in Event : file[e] = "json" ~> (e \in claimed \/ file[e] # "json")

-----------------------------------------------------------------------------
(* The ledger this path implements.                                        *)

InFlight == IF pc \in {"write", "rename"} THEN content[cur] ELSE {}

Queued == UnitsOf({e \in spooled : file[e] = "json"})

StatusOf(u) ==
    IF billed[u] > 0 THEN "billed"
    ELSE IF u \in Queued THEN "spooled"
    ELSE IF u \in counters \cup InFlight THEN "metered"
    ELSE IF u \in used THEN "lost"
    ELSE "idle"

Ledger == INSTANCE TrafficLedger WITH status <- [u \in Unit |-> StatusOf(u)]

\* Every behaviour of the traffic path is one of the ledger: a unit is lost
\* only before a spool file holds it, and billed only after.
ImplementsLedger == Ledger!Spec
=============================================================================
