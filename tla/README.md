# A TLA+ verification of xnode-agent

xnode-agent runs on a VPN/proxy node. At every tick it asks a panel for the
desired state of the node, makes an Xray core follow it, writes the limits that a
dispatcher patched into that core enforces, and reports traffic, sessions and its
own health. These modules model the parts of it whose correctness depends on the
order of steps, on crashes, on lost answers and on what was read a moment ago. TLC checks them on small instances; TLAPS
proves every safety property of the passing runs for every value of the constants, some of
them under hypotheses that section 5 names.

`PROJECT.json` lists the runs, the lines every definition models, the hazards,
the findings, the theorems, and for each property a plausible bug of the code
("mutant") that breaks it.

Contents: 1 the system · 2 the modules · 3 the runs · 4 fairness ·
5 proofs · 6 disagreements with the documentation · 7 abstractions ·
8 not modelled · 9 further work

## 1. The system

```
            desired state, traffic batches, heartbeat
   panel <-----------------------------------------------> agent (one goroutine: Agent.sync)
                                                             |        |          |
                                       state.json <----------+        |          +---> traffic spool/*.json
                                       (previous)                     |          +---> limits.json (policy file)
                                                                      v                     |
                                          Manager: xray.json, xray.json.last-good           | read once a second
                                                                      |                     v
                                                 start/stop, API  ->  Xray core  +  dispatcher limiter
```

| Component | State | Operations | What is hard | What makes it correct | Module |
|---|---|---|---|---|---|
| `Agent.sync` (`internal/agent`) | `state.json`, pending reports | fetch, drain, policy file, hot plan or restart, health, persist | each step can fail; the agent or the core can die between any two; `previous` is the file, not the core | what is recorded runs; plans start from what runs; it converges | `NodeReconciler` |
| `Manager` (`internal/xray/process.go`) | core process, `xray.json`, last-good | `Apply`, `ForceApply`, `Store`, `Start`, `Recover`, rollback | four file and process steps per apply; ignored backup errors | a recorded net has run; the core comes back | `NodeReconciler` |
| Hot plan (`runtime.go`) | none (API calls) | `PlanRuntime`, `ApplyRuntime` | one operation after the other against a core that refuses duplicates; a state that went through a file | a plan leaves what a restart would; who is unchanged is undisturbed | `HotPlan`, its failures in `NodeReconciler` |
| Config builder (`builder.go`) | none | `BuildConfig`, `buildInbound` | the same inbound is built for a file, for an addition and for a user | patched and restarted cores agree | `HotPlan` |
| Policy evaluator (`internal/policy`) | none | `Evaluate`, `ApplyDrain` | several limits and the order of credentials decide together; drain is relative to the previous state; the quota uses two figures read at different times | no limit is exceeded; a drain lets nobody in; usage is not missed | `PolicyEvaluate`, `NodeReconciler`, `TrafficDelivery` |
| Core policy file (`internal/limits/policyfile.go`) | `limits.json` | `WriteCorePolicy` with tombstones | written before the core changes; tombstones expire | nobody authenticates without an entry | `NodeReconciler`, `DispatcherLimiter` |
| Dispatcher limiter (`patches/…/xnode_limiter.go.txt`) | policies, counts per user and address, buckets | refresh, admit, release, wait, wrap | goroutines share counts; policy read under one lock, used under another; file replaced at any time; one bucket for all connections | exact counts; no decision by an outdated policy; what a new policy ends does end; the rate is a user's, not a connection's | `DispatcherLimiter`, `RateBucket` |
| Traffic path (`internal/traffic`, `stats.go`, agent) | core counters, spool, panel sums | `QueryStats -reset`, `Enqueue`, `List`, `Delete`, `TrafficBatch`, `PendingUsage` | reset before record; retries of accepted batches; late requests; power loss | billed once; never lost once spooled; the quota sees what the spool lists | `TrafficDelivery` |
| Sessions (`internal/session`, `online.go`, agent) | log offset, per-user addresses and connections | tail the access log, merge with the online map | rotation and truncation under the reader, torn lines, read errors | no line counted twice or skipped; what is judged is what is reported | `SessionTracker` |
| Health sampler (`internal/health`) | last counters and time | `Snapshot` | failed reads between two samples; counters that go back | rates are of bytes that came | `NodeStatus` |
| Admin server, heartbeat, lifecycle (`internal/admin`, `agent.go`, `main.go`) | last heartbeat | three endpoints, `Run`'s select, shutdown | the answer is older than the core; signal and server error together | ready does not stay ready of a dead core | `NodeStatus` |
| Panel client (`internal/panel`) | none | `DesiredState`, `TrafficBatch`, `Heartbeat`, `Sessions` | an error does not say whether the request was processed | (in the modules that call it) | - |
| External limiter client (`limits.go`) | none | best-effort mirror | - | - | - |
| Config, data model | none | parsing, defaults | - | - | - |
| Scripts (`install.sh`, `xnode`, `uninstall.sh`) | binaries, units, configuration | install with rollback, menu | a transaction over files from a shell trap | an interrupted install restores what was there | - |
| Build, packaging, CI | - | patch and build the core | anchors in foreign source | - | - |

Interactions that matter: `sync` reads the spool *before* it asks the panel for
`traffic_used_bytes` (quota); it writes the policy file *before* it changes the
core (ordering of blocks and deletions); the core reads that file on its own
schedule; a crash of the agent kills the core, since systemd kills the whole
control group; `state.json` is what the next plan starts from; the sessions that
`Evaluate` judges by are merged from the log and the online map before they are
reported; the heartbeat at the end of a sync is what `/readyz` answers from.

## 2. The modules

| Module | Models | EXTENDS / INSTANCE |
|---|---|---|
| `TrafficLedger` | what the traffic path promises: a unit is metered, spooled, billed once, or lost *before* it is spooled | - |
| `TrafficDelivery` | the traffic path, step by step; refines `TrafficLedger` | INSTANCE `TrafficLedger` |
| `TrafficDeliveryProofs` | five theorems about it | `TrafficDelivery` |
| `NodeReconciler` | sync from the desired state to `persistState`, `Manager`, the hot plan, the policy file | - |
| `MCNodeReconciler` | sets of desired states for TLC | `NodeReconciler` |
| `NodeReconcilerProofs` | ten theorems about it | `NodeReconciler` |
| `PolicyEvaluate` | `Evaluate` as operators | - |
| `PolicyEvaluateProofs` | no account exceeds a device limit, or is cut below all of them | `PolicyEvaluate` |
| `HotPlan` | `PlanRuntime`, `ApplyRuntime`, `BuildConfig` over whole inbounds, behind `Evaluate` | `PolicyEvaluate` |
| `MCHotPlan` | desired states and views for TLC | `HotPlan` |
| `HotPlanProofs` | six theorems about it, and its inductive invariant | `HotPlan`, `PolicyEvaluateProofs` |
| `DispatcherLimiter` | the limiter in the core, against a policy file that the agent replaces | - |
| `MCDispatcherLimiter` | policies and addresses for TLC, a start on an active node | `DispatcherLimiter` |
| `DispatcherLimiterProofs` | type correctness, exact counts, no decision by an outdated policy | `DispatcherLimiter` |
| `RateBucket` | the leaky bucket of a user and direction | - |
| `MCRateBucket` | connections and their symmetry for TLC | `RateBucket` |
| `RateBucketProofs` | three theorems about it | `RateBucket` |
| `SessionTracker` | the tail of the access log and the merge of session reports | - |
| `MCSessionTracker` | addresses for TLC | `SessionTracker` |
| `SessionTrackerProofs` | type correctness, counting, coverage, reports | `SessionTracker` |
| `NodeStatus` | samples, heartbeat, admin endpoints, the loop of `Run` | - |
| `MCNodeStatus` | interfaces and jiffies for TLC | `NodeStatus` |
| `NodeStatusProofs` | samples are of what arrived | `NodeStatus` |

### TrafficDelivery

Traffic is a set of *units*: bytes of one user that are counted and reset
together. A batch is its `event_id`; the number is its place in the order
`Spool.List` sorts by.

| State | Code |
|---|---|
| `counters`, `xray` | the core's statistics, in its memory |
| `file`, `stable` | a spool entry: none, `.tmp`, `.json`, or a torn `.json`; `stable` is what the disk shows after a power loss |
| `pc`, `todo`, `cur` | where `sync` is; the batches `retryTraffic` listed; the batch in hand |
| `claimed`, `billed`, `late` | the panel's processed ids and sums; requests the client gave up on that are still under way |
| `view` | pending usage and `traffic_used_bytes`, as `Evaluate` adds them; `known`: the spool could be listed |
| `content`, `spooled`, `used`, `crashes` | a batch's units; history; bound |

`retryTraffic` is `StartSync`, `StartSyncListFails`, `RetryAccepted`, `RetryFails`, `RetryDelete`,
`RetryDeleteFails`, `RetryDone`; `collectTraffic` is `CollectNothing`,
`QueryStats`, `QueryStatsLost`, `EnqueueWrite`, `EnqueueRename`, `EnqueueFails`,
`PostAccepted`, `PostFails`, `DeletePosted`, `DeletePostedFails`; the quota is
`PendingUsage(Fails)`, `FetchDesired(Fails)`; `Reconcile` is the rest of sync.
Listing the spool can fail at any time (`ReadDir`, `ReadFile`), and does as long as
one file does not parse (`Parses`); `retryTraffic` then ends, and sync goes on
with no pending usage (`agent.go:132-136`). A failed POST may not have arrived, may have been committed, or may still arrive
(`LateArrival`). `Crash` and `PowerLoss` may come between any two steps.

### NodeReconciler

A desired state is a mode, the users of an inbound (absent, off, or enabled with a
credential), and `net`, the rest of the configuration, which only a restart
changes. What runs and what the files hold is a `Conf`.

| State | Code |
|---|---|
| `panel` | the state the panel keeps |
| `prev`, `base` | `state.json`; `previous` as this sync loaded it |
| `target` | the state sync applies |
| `config`, `backup` | `xray.json`, `xray.json.last-good` |
| `proc` | the configuration of the running core, hot changes included |
| `policy` | the policy file, per user: none, open, blocked, tombstone |
| `removing`, `adding` | what is left of the hot plan |
| `proven` | history: configurations that ran |

Each file write, process start and API call of `sync`, `Apply`, `ForceApply`,
`Store`, `ApplyRuntime`, `rollbackLocked`, `Start`, `Recover`, `persistState` is an
action (or a disjunct) with its failure. `FaultKinds` says which spurious faults a
run allows and `MaxFaults` how many. `Unbuildable`, `Invalid` and `Unstartable` are
sets of whole configurations, net and credentials: those `BuildConfig` refuses
(`BuildConfigFails`), those `run -test` always rejects, on the hot path as well
(`agent.go:191`), and those it accepts and the core then exits on.

### DispatcherLimiter

Everything in the limiter is keyed by the user's email, so one user is modelled,
with several connections, each a goroutine.

| State | Code |
|---|---|
| `files` | the policy files written so far; the last is in place; an index stands for a modification time |
| `checked`, `mtime`, `mode`, `policies` | `checkedAt` (within the second), and what was loaded |
| `holder` | the mutex, while it is held across `ReadFile` |
| `connections`, `ips` | the counts |
| `pc`, `step` | per connection: the call it is in, and where in `xnodeRefreshPolicies` |
| `seen`, `addr`, `gen`, `done` | the policy read; source; generation of the wrappers; cancelled |
| `from`, `settled`, `since`, `listed`, `counted` | history: where policies come from, how old they may be, who is to be counted |

`Stat`, `StatFails`, `Read`, `ReadFails` are the refresh; `Mode`, `Draining`,
`Allowed`, `Blocked`, `Admit`, `LimitExceeded` are `xnodeAdmit`; `AfterFunc` is its
release; `Wrap` the wrapping of links; `Write`, `Pass`, `Limited`, `Cut`, `NotOver`,
`Over` are a write and `xnodeWait`; `WriteCorePolicy` the agent; `Tick` a second.
`Dispatch` lets in only a user whom the file carries: that is what
`AuthenticatedHasPolicy` says of the reconciler.

### PolicyEvaluate and HotPlan

`PolicyEvaluate` gives each user of an inbound its `Reason`: the first loop of
`Evaluate` is `OwnReason`, the two maps by account are `LimitByAccount` and
`Active`, the second loop is `Reason`. `HotPlan` puts it before the plan, as sync
does.

| State | Code |
|---|---|
| `asked`, `view` | what the panel asks for; sessions, pending usage and time given to `Evaluate` |
| `prev`, `target` | the state file, `state` after `Evaluate` |
| `core` | the inbounds with their clients, levels, rules and the rest that run |
| `ops` | what is left of `PlanRuntime`'s result: each operation with its place `at` in the slice the code builds, so that the set and the order are the slice |
| `pc`, `failed` | where sync is; history: an operation was refused |

`Sync` is fetching, evaluating and planning (a restart is one step: the core then
runs `BuildConfig(target)`). `RemoveInbound`, `AddInbound`, `ReplaceInbound`,
`AddUser`, `RemoveUser` are the cases of `ApplyRuntime`; each does or refuses what
the core does or refuses, and is taken for the operation that stands first. `DesiredAssumption`
says that a state of the panel has each inbound id and tag once and each user id once
per inbound; the panel keeps them by id, and a core would not start on
two inbounds with one tag. `PersistState` writes what `omitempty` leaves
(`RoundTrip`), also after a refusal, as the code does (section 6).

### RateBucket

| State | Code |
|---|---|
| `nextFree` | `b.next` |
| `waiting` | the reservation a connection's `xnodeWait` waits for |
| `granted`, `passed`, `cancelled` | history: all reservations, and how they ended |

`Reserve` is what `xnodeWait` does under `b.mu`, `Pass` its timer, which may be
late, `Cancel` its `ctx.Done()`. A write is known by the time it takes, so a change
of the rate between two writes is a choice of another duration.

### SessionTracker

The log is one endless sequence of lines; the file is what was written since it
was truncated or replaced. Positions count half lines, so that a line can be torn.

| State | Code |
|---|---|
| `log`, `torn`, `start`, `ino` | the access log |
| `offset`, `lastInfo`, `ips`, `seen` | the fields of `Tracker` and its entries |
| `pc`, `now`, `pos` | where `ConsumeFile` is, and `consumed` |
| `judged`, `reported` | what `Evaluate` is given and what is sent |
| `trust`, `floor`, `upto`, `errors` | history: whether a truncation was overtaken, what a reading covered, reads that failed |

`ConsumeFile` is `Stat`, `StatFails`, `Skip`, `Read` (one line), `Eof`,
`ReadFails`; `Records` prunes, merges with the answer of the online map or with
none, and reports. `Truncate` and `Replace` may come between any two of them,
`Restart` is a new agent.

### NodeStatus

| State | Code |
|---|---|
| `rx`, `links` | the interfaces of `/proc/net/dev` |
| `last` | `primed`, `lastTime`, `lastNet` of the `Sampler` |
| `lastHB` | the heartbeat the endpoints answer from |
| `core` | up, mute (its API does not answer) or down |
| `run`, `result`, `ctx`, `adminErr` | `Agent.Run`: its place, what sync hands to `sendHeartbeat`, the two channels it selects from |
| `rate`, `truth` | history: the rates of this sample, and what really came in |

`SyncEnds` is how a sync can end, `SendHeartbeat` samples and keeps the heartbeat,
`Ticker`, `Cancelled` and `AdminEnds` are the branches of the select, of which any
ready one is taken. `UnitStops` and `Restart` are the unit's. `Ready` is `/readyz`.

## 3. The runs

| Run | Shows |
|---|---|
| `traffic` | no unit billed twice, no spooled batch lost, no unit missing in the quota of a sync that could list the spool, refinement of the ledger, and every spooled batch delivered |
| `traffic_power_loss` | no double billing even when removed files come back |
| `node_follows` | what is persisted runs, plans start from what runs, nobody authenticates without a policy, a drain is closed, the node converges |
| `node_start_failures` | the same two invariants, and last-good stays good, while cores exit at start and configurations cannot be built |
| `node_all_faults` | under every fault, with a route and a credential the core rejects: what only a restart changes is recorded after it has run, the core comes back, and the files hold what the panel asks for in the end |
| `plan` | a plan leaves the core as a restart would, disturbs nobody it need not, is empty when nothing changed, is refused only on a handover of a tag; device limits hold |
| `limiter` | exact counts, no decision by an outdated policy; the last policy ends the sessions it blocks, that are too many or of another generation, and admits nobody beyond its limits |
| `rate` | the writes of a user together keep to the rate, go one at a time in order, and wait for nothing but writes |
| `sessions` | no connection counted twice, no complete line skipped unless a truncated file regrew, reports hold the addresses of the window, every line is counted in the end |
| `status` | rates are of bytes that came in between, no byte is reported twice, the CPU is not busier than the time, `/readyz` does not stay ready of a core that is gone |
| `node_hot_failure`, `limiter_deleted_session` | violations: section 6 |

Bounds, and why they are enough:

* Traffic: two units and three batches. One batch can be lost, one late and
  one fresh; head-of-line blocking needs two batches, a retry that meets a new
  batch a third. Two crashes allow one between recording and delivery and one
  during the recovery from it. The power-loss run has two batches, two losses.
* Node: two users are enough for a plan that stops between two operations or
  between removing and adding the same user; two credentials for a rotation;
  two or three nets for a restart, a configuration that is not built or is
  rejected and one that does not start; in `node_all_faults` the second credential
  is malformed, so that a hot change is rejected as well.
  Two faults allow a failure and a failure of the reaction to it, plus a crash.
  The sets of desired states (`AllModes`, `HotAndRestart`, `Deletions`) are
  chosen so that each run meets adding, removing, rotating, suspending,
  draining, stopping and restarting.
* Plan: any state may follow any other, so all that counts is the set of states.
  There are one or two inbounds in both orders, each of a protocol with hot users,
  with managed but not hot users, or with neither; a tag, settings (also empty),
  a mode and a protocol that change; a user that is new, off, rotated, at
  another level or routed, before, behind or without another; outbounds that
  change; and three devices of one or two accounts under every limit there is,
  seen before and after the limits bite.
* Limiter: two connections, since a count goes wrong with two; an address of
  their own or the same; four policies, each stricter in one way (connections
  together with a new generation, addresses, blocked); a start and one
  replacement, which is enough to decide by an old policy, to meet a file
  between `Stat` and `Read`, and to bury a user; one failed `Stat` or `Read`.
  A tombstone of one second still outlives, meets and ends inside a lookup.
* Rate: three connections, so that one waits behind two, and four writes, so that
  a cancelled or late one is between others; durations of 0, 1 and 2 seconds; the
  clock runs on for as long as anyone waits.
* Sessions: three lines of two addresses, a tail that is one and a half lines, so that it
  begins inside a line; two faults, so that a truncation can be followed by another,
  a replacement, a failed read or a restart; two seconds and a
  window that reaches back to the current one only, so that addresses fall out of it. The first two lines are of different addresses,
  the third of either.
* Status: two interfaces, since one that goes takes its bytes out of the sum; two
  seconds for three samples; two faults for an interface that goes and comes back,
  or a core that falls silent and then dies.

Deadlock is checked in every run but `rate`, whose bounded number of writes is
over at some point.

## 4. Fairness

Liveness is checked only where the scheduling of the code supports it.

* Traffic: weak fairness of the agent's steps (one goroutine driven by a
  ticker) and of its restart (`Restart=always`); strong fairness of listing the
  spool (a directory that is read again and again can be read in the end), of an
  accepted retry and of a removal that is tried again and again. Nothing is assumed of
  users, the core, write-back or late requests.
* Node: weak fairness of sync's steps and of the agent's restart; strong
  fairness of `FetchDesired`, a panel that is asked for ever answers in the end.
  Faults and crashes are finite, the panel stops changing its mind, and asks for
  something that can run (`Settled`).
* Limiter: weak fairness of the clock, of each connection's goroutine (which
  includes that a session goes on writing: an idle one is only cut when it
  writes) and of each `AfterFunc`. The agent's last change of the file is the last
  write, and after a failed `Stat`, which drops the policies and keeps the modification
  time (`xnode_limiter.go.txt:77-82`), it writes once more, as it does at every sync
  (`Settled`). Until that write the policies stay dropped: with a panel that
  does not answer, sync writes no file.

* Sessions: weak fairness of the steps of a sync, and strong fairness of `Stat`: a
  log that is opened again and again opens. Nothing is assumed of the core that
  writes it, of logrotate or of the clock.
* Status: weak fairness of the loop of `Run`. A sync ends: requests to the panel have
  a timeout (15 s), and so has the API check (2 s). The commands of the core
  (`run -test`, `runAPI`) are started with the root context, without a timeout of the
  agent's: that they return is an assumption about the core's own command line.
  Nothing is assumed of the panel, the core, a signal or a restart.

A step of the node may fail only as often as `MaxFaults` says, so convergence
does not rest on luck. Safety needs no fairness: `plan`, `rate` and
`node_start_failures` are checked without.

## 5. Proofs

Assumptions on constants are named and stated in the modules; TLC evaluates them
in every run.

**TrafficDeliveryProofs.** `BilledAtMostOnce` is not inductive. `BillingInv`
adds: the counters and the batches partition what was used (`UnitsInv`); every
id in a listing, a request or the panel is of a batch that was spooled, and a
batch about to be deleted was claimed (`SpoolInv`); a unit is billed once exactly
if a claimed batch holds it (`BilledExactly`). This holds with power losses as
well, so `TypeCorrect` and `BillingIsExact` have no assumption.
`SpoolIsDurable`, `QuotaIsSafe` and `TrafficRefinement` assume `NoPowerLoss`:
`DurableInv` says that no entry is torn and a spooled batch is on disk or claimed,
`PendingComplete` that the pending figure of a spool that could be listed is
complete *before* the panel's is read. The refinement maps each step to the set of units it moves
(`Moves`, `MovesAreLedgerSteps`).

**NodeReconcilerProofs.** `UsableInv` (types, where sync is and what it may
then rely on, what the files and the core can hold) gives `TypeCorrect` and
`RecordedNetHasRun` under all faults: a net is `Usable` once the core has run a
configuration with it that it accepts and survives. The others need a hypothesis on the faults,
since they are false without one (section 6); there are two, and both contain
`HotAccepted`: whether `run -test` rejects a configuration does not depend on
the users in it, as long as the panel's credentials are well formed. With one that
is not, the sync that meets it on the hot path records it.

* `Reliable`: the faults are deaths of the core, an API that does not answer the
  health check and lost backups, and valid configurations start; the agent may
  crash at any step. `StageInv` says for each stage of sync what the core runs: the
  recorded state, the wanted one, or something in between, which `HalfDone`
  describes user by user during a plan. `RecordsWhatRuns`, `PlansFromWhatRuns`
  and `DrainIsClosed` (with `DrainInv`) follow. `PolicyCoversCore` needs in
  addition `Unbuildable = {}` and `Invalid = {}`, `LastGoodIsProven` that the agent does not crash
  between installing a configuration and starting it (`MaxCrashes = 0`):
  `GoodInv` says that the configuration file is proven except there.
* `StartFaults`: any start may fail, any configuration may be refused by
  `BuildConfig` or never start, any net may be rejected, and nothing else goes wrong. Then everything rests on the rollback:
  `RollInv` says that a last-good file is a copy of the configuration file whenever no
  swap is under way (`Kept`), that the file, or during a swap the last-good one,
  is that of the recorded state (`Recorded`), and that the core runs it or
  nothing (`Runs`). `RecordsAfterRollback`, `PlansAfterRollback` and
  `LastGoodSurvives` follow, for any number of failures. Together with a silent API,
  a death or a failed write, validation, backup or persist, TLC finds
  counterexamples: three or four faults in a row are enough.

Both use the same four lemmas on the operations of a plan (`HalfDoneStarts`,
`HalfDoneGoesOn`, `HalfDoneFails`, `HalfDoneEnds`).

**DispatcherLimiterProofs.** Without assumptions beyond
the constants'. `CountingIsExact`: a counted connection is past its admission
(`Places`), so that only its `AfterFunc` changes its address, and each count is a
cardinality. `AdmissionIsAsTold` and `PassageIsAsTold` rest on three facts: the
policies in memory are those of one file (`Loaded`); that file is not older than
what a lookup may go by, also when a read fails or another connection refreshed
(`Fresh`); and what a lookup found is still the policy of such a file when it is
acted on after the lock was released, although tombstones run meanwhile
(`Deciding`, with lemma `OlderKeeps`).

**PolicyEvaluateProofs.** `CapsAreKept`: for every list of users with limits in
`Nat`, however their limits disagree and whatever else blocks some of them,
`Evaluate` serves an account on no more credentials than any limit of those that
are left. The served credentials of an account are those of which at most `limit`
come before and with them; the last of them bounds their number (`Rank`), and
`limit` is the least of the limits (`Least`, from the well-foundedness of `Nat`).
`CapsAreUsed` is the other half: it serves all of them, or exactly as many as a
limit says, since the credential of rank `limit` is there if there are more
(`RankReached`).

**HotPlanProofs.** For any states the panel may ask for (`DesiredAssumption`), any
number of inbounds and users and anything `Evaluate` sees. The idea is that at
any moment the operations that are left say what the core runs. For a set `P` of
operations between the states `a` and `b`:

* an inbound of `b` is `Shown` as nothing (it waits to be added), as it was (it
  waits to be replaced), or `Ongoing`: as in `b`, without the users that wait to
  be added and with those that wait to be removed;
* the inbounds of which `P` still has the removal are `Gone`;
* the core holds what is shown and what is gone, and nothing else (`Holding`), no
  two of them at one tag (`Apart`).

`Frame` says that only the operations on an inbound count for it, so each action
has to be looked at for one inbound alone: `RemoveInboundKeeps`, `AddInboundKeeps`,
`ReplaceInboundKeeps`, `AddUserKeeps` and `RemoveUserKeeps`. `PlanStarts` shows it
for what `PlanRuntime` returns, also where it returns nothing: two lists of users
of one length that match in one direction match in the other (`EqualBothWays`, by
counting), and an empty settings map that the file dropped is built as an empty
one (`RoundTripIs`). `PlanEnds` shows that without operations the core holds what
`BuildConfig` would start. `Invariant` is this and where a plan starts from;
`PlanIsRestart`, `NobodyIsDisturbed`, `NothingNewNothingDone` and `CapsAreExact`
follow from it, the last one with the theorems on `Evaluate`. `OrderIsAccepted`
uses the places: of two operations on one tag the core refuses the later only
if an inbound that stays had the tag.

**RateBucketProofs.** The inductive invariant is `TypeOK`, `OneAtATime`,
`NeverIdle` and `Reserved`: no reservation ends after `b.next`, a number names one
reservation, and only what was reserved has passed. `RateIsShared` and
`NothingIsWasted` follow for every number of connections and writes. For
`RateIsKept` the seconds of the writes that passed are disjoint and lie between
the moment and the clock, so there are no more of them than of those.

**SessionTrackerProofs.** `CountedOnce` holds because a line counted more often
than reads have failed lies `Behind` where reading goes on. Truncation moves the
beginning of the file past everything that was counted, and a tail or a stored
offset never lies before a counted line unless a read failed (`CountInv`).
`ReadingIsComplete` is about the other direction: while `trust` is sure, every
complete line of the file between the floor of this reading and the position it
has reached is counted, and its address is as recent as the line; the stored offset
is such a position as long as the file is the one it was taken from. `ReportsAreOfWindow`
adds that an address in memory is that of a line that is as recent, which pruning
and merging keep.

**NodeStatusProofs.** The sum over the interfaces is the number of their bytes, so
that an interface that goes takes a part away and one that comes adds nothing
(`LinkAdds`), and a byte adds one at most (`ByteComes`). `SampleInv`: what has been
reported and the lead of the counters over what was last kept are together no more
than what arrived. `SamplesAreReal` follows, for any interfaces, any of them
chosen, any faults and any modulus of the CPU's counters.

Only model-checked: `Delivered`, `Converges`, `ComesBack`, `FilesFollow`,
`LimitsTakeHold`, `ReadInTheEnd` and `ReadyFollows`, since liveness under fairness is
out of the prover's reach. The properties of `NodeReconciler` that have a
hypothesis above are checked without it within the bounds of the runs: two faults
of any of a run's kinds, and a crash.

## 6. Disagreements with the documentation

Each of these two is a counterexample of a run; the findings in `PROJECT.json`
quote the lines.

* `node_hot_failure`: a hot operation that fails is logged as "restarting with
  desired config", but nothing is restarted: the `err` that `agent.go:206` tests is
  not the one the hot path set (`agent.go:191` declares another). Sync goes on to
  persist and report the state as applied. The same happens without any fault when
  the panel hands out a malformed credential: `run -test` rejects it (191), the
  core does not get it, and 270 records it (`AppliedBeforePersist` with `Invalid`
  a credential and no fault kinds).
* `limiter_deleted_session`: a session of generation 0 that is silent for the
  five minutes of the tombstone is not closed, and is unlimited from then on.

Seen with other constants of the same modules, or with properties that are
defined there and that no run lists:

* `QuotaNeverDoubleCounts` (`TrafficDelivery`): a batch the panel committed whose
  response was lost is in both figures of the quota until it is retried.
* `SpooledUntilBilled` with `PowerLossPossible`: `Enqueue` does not sync, so a power
  loss can take a batch of which the counters have already been reset.
* `QueuedIsRetried` with `PowerLossPossible`: one spool file that does not parse ends
  every later `List`, and so the retry of every other batch.
* `StartFailureRollsBack` (`NodeReconciler`): after a crash between installing and
  starting a configuration, sync takes `Start`, which does not roll back.
* `QuotaNeverUndercounts` without `view.known`: after an error of `ReadDir` or
  `ReadFile` sync judges with no pending usage at all, without any crash, although
  docs/LIMITS.md says it adds the "still-uncommitted local spool deltas".
* `AuthenticatedHasPolicy` with an `Invalid` or `Unbuildable` net: while a desired
  state is rejected, the old core keeps authenticating a deleted user whose
  tombstone has expired.
* `LastGoodStaysGood` with `MaxCrashes = 1`: `KeepOld` saves a configuration as
  last-good that was never started, if the agent crashed after installing it
  (`process.go:73`).
* `AppliedBeforePersist` in `node_start_failures` with three faults: `Recover` falls
  back to last-good and sync then persists the desired state (`agent.go:242`); the
  next plan starts from the wrong state (`PlanFromRunning`).
* `PlanFromRunning` with fault `persist`: the error of `persistState` is dropped
  (`agent.go:270`), so the next plan starts from an old state.
* With fault `op`, the first finding makes `AuthenticatedHasPolicy`, `Converges` and
  `PlanFromRunning` fail too: the core keeps a user it should have lost until its next
  start. `FilesFollow` is what is left: the *files* are right in the end.
* `PlanFromRunning` with faults `death` and `start`: the core dies in the middle of
  a plan, the start that follows fails, and the rollback brings up a configuration
  the state file does not describe.
* `QuietPlan` without its exception: the state file drops an empty settings map and the
  panel's state has it, so the two always differ (`runtime.go:190`), and the
  inbound is replaced at every sync, with all its connections. The comment at
  `runtime.go:41` promises the "minimum set" of operations. A change of
  `ip_limit_mode`, which is no part of the configuration, replaces the inbound too.
* `RefusedOnHandover`: if an inbound takes over the tag of another one that stays, the
  operations are in an order the core refuses; and since a failed hot plan is
  persisted, it is not tried again.
* `NothingSkipped` without `trust`: a log truncated in place that has regrown past
  the old offset by the next `Stat` is not recognised, and the lines before that offset
  are skipped (`tracker.go:119` says it "safely resets to zero").
* `CountedOnce` without `errors`: a read error keeps the old offset, so the lines
  read so far are counted again; their addresses then look as old as those lines,
  and one that was seen later can drop out of the window for a while.
* `AddressesAreCut` (`DispatcherLimiter`): `ip_limit` is compared at admission only, as
  docs/LIMITS.md has it, so a session admitted before the limit came goes on. The
  comment at `xnode_limiter.go.txt:323-325` lists an "IP decision" among those such a
  session must observe: it does so only when the agent's `Evaluate` counts too many
  addresses and writes a block, which `LimitsTakeHold` covers as any other block.
* `LimitsTakeHold` without the second half of `Settled`: a failed `Stat` drops all
  policies until the next write of the file, not for the second of the throttle.
* `DeviceCap` is about the credentials nothing else blocks: the strictest limit of an
  account no longer counts once the credential that has it has expired.
* `NeverIdle` allows time reserved by a write whose connection ended: a client that
  connects again and again can push `b.next` ahead of the clock without bound.
* `RatesAreReal` compares only samples that both could read: after a read that
  failed, the next rate divides two intervals' bytes by one, and if it was the first
  one, all bytes since boot.
* If the admin server ends first after a signal, `Run` returns without `Xray.Stop`
  (`AdminEnds`); the unit's control group ends the core.

`node_follows` and `node_start_failures` leave out the fault kinds that lead to
these; `node_all_faults` has all kinds, and checks what holds in spite of them.

## 7. Abstractions

* `NodeReconciler` has one hot-capable inbound, of which only users change hot.
  Inbounds that are added, removed or replaced hot, WireGuard, policy levels and
  managed routing are modelled in `HotPlan`. Removing a user the core does not have may succeed or fail.
  `Evaluate`'s verdicts are part of what the panel may ask.
* Tombstones expire between syncs in `NodeReconciler`, at any second in
  `DispatcherLimiter`.
* `SIGKILL` without a wait and a cancelled context are not told apart from a
  crash or a failed step.
* A panel is an idempotent endpoint and a state: it is outside the repository
  and modelled from how the client uses it.
* In `HotPlan`, listen address, port, stream settings and sniffing are one field
  with the settings; two inbounds on one port are not refused, since the core
  listens with `SO_REUSEPORT`; an API call fails only if the core refuses it;
  modes other than active are `NodeReconciler`'s; a restart succeeds.
* In the limiter: empty writes are left out; a refresh that is not due and the
  lookup after it are one step; `sync.Once` around a release is implied by
  `AfterFunc` running once. Time is the number of `Tick`s that the second of
  `checkedAt` and the tombstone distinguish. Addresses are symmetric, so one
  connection's is fixed. No two files share a modification time.
* `RateBucket` has one bucket; buckets are made once per user and direction and
  share nothing. Which policy a write is read under is `DispatcherLimiter`'s.
* In `SessionTracker`: one user; a line is an address and a second; the rest of a
  line whose beginning was not read does not parse (the code might take such a
  remainder for a line with the time of reading, if its own timestamp is what is
  missing); a file is replaced between syncs and after whole lines; errors of
  `Skip` that the code ignores are those of the next read.
* In `NodeStatus`: one direction of the network; the CPU is known by what its
  counters did since the last sample; a sync ends in one of the ways that the
  heartbeat distinguishes.
* A unit of traffic has no size, and users of a batch are not told apart.

## 8. Not modelled, and why

* Parsing of `/proc`, of access-log lines, of the configuration and of the core's
  answers; memory and load, which are read and passed on.
* The external limiter client: best-effort, its errors are logged and change
  nothing.
* The installer, the menu and the removal script: shell over binaries, units and
  packages of the host. `install.sh` is a list of copies that a trap undoes, without
  concurrency and without state of the agent.
* Building, patching and packaging the core: text at build time.
* Contents of strings, such as the characters `AccountingEmail` replaces: different
  ids can share one accounting name, which the models, having ids as values,
  cannot show.
* The observed and limit values of a violation record, and wording of errors.

## 9. Further work

1. `HotPlan` with API calls that fail and a core that dies, composed with
   `NodeReconciler`'s files, once the reaction to a failed plan is settled.
2. `HotPlan` as a refinement of a core that is restarted at every sync, and the log
   reader as one of a reader with a position in one endless log.
3. `RecordsAfterRollback` and the theorems beside it with crashes of the agent, for
   which `Recorded` has to say what a crash between two steps of a swap leaves.
4. The transaction of `install.sh`.
