----------------------------- MODULE NodeStatus -----------------------------
(***************************************************************************)
(* What the node says of itself: the samples of /proc (internal/health),   *)
(* the heartbeat made of them (sendHeartbeat), the admin endpoints that    *)
(* answer from the last one (internal/admin), and the loop that runs the   *)
(* syncs until a signal or the admin server ends it (Agent.Run, main).     *)
(*                                                                         *)
(* What a sync does to the core is NodeReconciler's; here it only ends.    *)
(* Of the network one direction is modelled; of the CPU what the counters  *)
(* of jiffies did since they were last read, total and idle, which wrap:   *)
(* iowait may be taken back.                                               *)
(***************************************************************************)
EXTENDS Integers, FiniteSets

CONSTANTS
    Iface,         \* interfaces other than lo
    Chosen,        \* those to be counted: NetworkInterface, or all of them
    Modulus,       \* of the counters of the CPU, which are uint64
    Jiffies,       \* what they may do: [total, idle]
    MaxTime, MaxFaults   \* bounds

ASSUME IfaceAssumption == IsFiniteSet(Iface)
ASSUME JiffiesAssumption ==
    \A j \in Jiffies : j.total \in Nat /\ j.idle \in Int /\ j.idle <= j.total
ASSUME StatusBounds == Modulus \in Nat \ {0} /\ MaxTime \in Nat /\ MaxFaults \in Nat

VARIABLES
    clock,
    rx,            \* bytes of the interfaces there are; 0 of the others
    links,         \* which there are
    last,          \* the Sampler: [primed, time, net]
    lastHB,        \* [healthy, running, api, serving], of sendHeartbeat
    rate,          \* history: of the sample of this sync NetworkRXBPS as
                   \*   [bytes, secs], CPUPercent as [busy, of]
    truth,         \* history: [arrived, before, read, sum]: bytes since boot,
                   \*   those when the last sample was taken, whether it read
                   \*   them, and the sum of the rate.bytes of this process
    core,          \* "up", "mute" (no API) or "down"
    run,           \* Agent.Run: "sync", "report", "select" or "ended"
    result,        \* what sync passes to sendHeartbeat: [healthy, api, serving]
    ctx,           \* "alive" or "done"
    adminErr,      \* admin.Serve: "serving", "nil" or "error"
    faults         \* bound

host   == <<clock, rx, links>>
status == <<last, lastHB, rate>>
agent  == <<run, result, ctx, adminErr>>
vars   == <<host, status, truth, core, agent, faults>>

NoHeartbeat == [healthy |-> FALSE, running |-> FALSE, api |-> FALSE, serving |-> FALSE]
NoResult == [healthy |-> FALSE, api |-> FALSE, serving |-> FALSE]
NoRate   == [bytes |-> 0, secs |-> 0, busy |-> 0, of |-> 0]
Unprimed == [primed |-> FALSE, time |-> 0, net |-> 0]

Init ==
    /\ clock = 0
    /\ rx = [i \in Iface |-> 0] /\ links = Iface
    /\ last = Unprimed /\ lastHB = NoHeartbeat /\ rate = NoRate
    /\ truth = [arrived |-> 0, before |-> 0, read |-> FALSE, sum |-> 0]
    /\ core = "down"
    /\ run = "sync" /\ result = NoResult /\ ctx = "alive" /\ adminErr = "serving"
    /\ faults = 0

-----------------------------------------------------------------------------
(* The host                                                                *)

Fault == faults < MaxFaults /\ faults' = faults + 1

\* A second, with a byte on one of the links or without.
Second(i) ==
    /\ clock < MaxTime
    /\ i \in links
    /\ clock' = clock + 1
    /\ \E b \in 0..1 : /\ rx' = [rx EXCEPT ![i] = @ + b]
                       /\ truth' = [truth EXCEPT !.arrived = @ + b]
    /\ UNCHANGED <<links, status, core, agent, faults>>

\* An interface goes, and comes back counting from 0.
Link(i) ==
    /\ Fault
    /\ links' = IF i \in links THEN links \ {i} ELSE links \union {i}
    /\ rx' = [rx EXCEPT ![i] = 0]
    /\ UNCHANGED <<clock, status, truth, core, agent>>

CoreFails ==
    /\ Fault
    /\ core # "down" /\ core' \in {"mute", "down"} \ {core}
    /\ UNCHANGED <<host, status, truth, agent>>

-----------------------------------------------------------------------------
(* Sampler.Snapshot                                                        *)

Counted == links \cap Chosen

\* The sum of their counters, byte by byte.
Bytes == UNION {{<<i, n>> : n \in 1..rx[i]} : i \in Counted}
Network == Cardinality(Bytes)

\* idleDelta is a difference of unsigned numbers.
CPUUsage(j) ==
    LET idle == j.idle % Modulus
    IN IF last.primed /\ j.total > 0 /\ idle <= j.total
       THEN [busy |-> j.total - idle, of |-> j.total] ELSE [busy |-> 0, of |-> 0]

NetworkRate ==
    IF last.primed /\ clock > last.time /\ Network >= last.net
    THEN [bytes |-> Network - last.net, secs |-> clock - last.time]
    ELSE [bytes |-> 0, secs |-> 0]

\* Mutant: counters that could not be read are taken for 0.
NetRead(read) == IF read THEN Network ELSE 0

NetKept(read) == IF read THEN Network ELSE last.net

\* read tells whether the network counters could be read, j is what the CPU's
\* did, or nothing if they could not.  lastTime advances in any case.
Snapshot(read, j) ==
    LET flow  == IF read THEN NetworkRate ELSE [bytes |-> 0, secs |-> 0]
        usage == CPUUsage(j)
    IN /\ rate' = [bytes |-> flow.bytes, secs |-> flow.secs, busy |-> usage.busy, of |-> usage.of]
       /\ last' = [primed |-> TRUE, time |-> clock, net |-> NetKept(read)]
       /\ truth' = [truth EXCEPT !.before = truth.arrived, !.read = read, !.sum = @ + flow.bytes]

\* The interface, or any, was found.
Sample == \E read \in BOOLEAN, j \in Jiffies : (read => Counted # {}) /\ Snapshot(read, j)

-----------------------------------------------------------------------------
(* Agent.Run                                                               *)

\* How a sync ends: it failed; the core does not answer; the mode is maintenance
\* or disabled and the core was stopped; it serves, perhaps without the patch
\* that the configuration asks for.
Result(healthy, api, serving) ==
    result' = [healthy |-> healthy, api |-> api, serving |-> serving]

SyncEnds ==
    /\ run = "sync" /\ run' = "report"
    /\ \/ \E serving \in BOOLEAN : Result(FALSE, FALSE, serving) /\ core' \in {"up", "mute", "down"}
       \/ Result(TRUE, FALSE, FALSE) /\ core' = "down"
       \/ \E patched \in BOOLEAN : Result(patched, TRUE, TRUE) /\ core' = "up"
    /\ UNCHANGED <<host, status, truth, ctx, adminErr, faults>>

HB == [healthy |-> result.healthy, running |-> core # "down",
       api |-> result.api, serving |-> result.serving]

\* Mutant: the heartbeat is only kept if the panel takes it.
SendHeartbeatKeepsTold ==
    /\ run = "report" /\ run' = "select"
    /\ Sample
    /\ lastHB' \in {lastHB, HB}
    /\ result' = NoResult
    /\ UNCHANGED <<host, core, ctx, adminErr, faults>>

\* Whether the panel takes it changes nothing.
SendHeartbeat ==
    /\ run = "report" /\ run' = "select"
    /\ Sample
    /\ lastHB' = HB
    /\ result' = NoResult
    /\ UNCHANGED <<host, core, ctx, adminErr, faults>>

Ticker ==
    /\ run = "select" /\ run' = "sync"
    /\ rate' = NoRate
    /\ UNCHANGED <<host, last, lastHB, truth, core, result, ctx, adminErr, faults>>

Signal ==
    /\ ctx = "alive" /\ run # "ended"
    /\ ctx' = "done"
    /\ UNCHANGED <<host, status, truth, core, run, result, adminErr, faults>>

\* The address cannot be listened on.
AdminFails ==
    /\ adminErr = "serving" /\ run # "ended"
    /\ Fault
    /\ adminErr' = "error"
    /\ UNCHANGED <<host, status, truth, core, run, result, ctx>>

AdminShutdown ==
    /\ adminErr = "serving" /\ ctx = "done" /\ run # "ended"
    /\ adminErr' = "nil"
    /\ UNCHANGED <<host, status, truth, core, run, result, ctx, faults>>

Ends == run = "select" /\ run' = "ended"

\* Of the ready branches of a select any is taken: after a signal Run may also
\* end by AdminEnds, which leaves the core alone, or sync once more.
Cancelled ==
    /\ Ends /\ ctx = "done"
    /\ core' = "down"
    /\ UNCHANGED <<host, status, truth, result, ctx, adminErr, faults>>

AdminEnds ==
    /\ Ends /\ adminErr # "serving"
    /\ UNCHANGED <<host, status, truth, core, result, ctx, adminErr, faults>>

\* The core ends with the unit, which is started again unless it was stopped.
UnitStops ==
    /\ run = "ended" /\ ctx = "done" /\ core # "down"
    /\ core' = "down"
    /\ UNCHANGED <<host, status, truth, agent, faults>>

Restart ==
    /\ run = "ended"
    /\ core' = "down"
    /\ last' = Unprimed /\ lastHB' = NoHeartbeat /\ rate' = NoRate
    /\ truth' = [truth EXCEPT !.read = FALSE, !.sum = 0]
    /\ run' = "sync" /\ ctx' = "alive" /\ adminErr' = "serving"
    /\ UNCHANGED <<host, result, faults>>

\* GET /readyz
Ready ==
    /\ adminErr = "serving" /\ run # "ended"
    /\ lastHB.healthy /\ lastHB.running /\ lastHB.api /\ lastHB.serving

Loop == SyncEnds \/ SendHeartbeat \/ Ticker \/ Cancelled \/ AdminEnds

Host == (\E i \in Iface : Second(i) \/ Link(i)) \/ CoreFails

Next == Loop \/ Host \/ Signal \/ AdminFails \/ AdminShutdown \/ UnitStops \/ Restart

Spec == Init /\ [][Next]_vars

\* A sync comes to its end: requests to the panel time out after 15 s, and the
\* core's own commands, run without a timeout, are taken to return.
FairSpec == Spec /\ WF_vars(Loop)

-----------------------------------------------------------------------------
(* Properties                                                              *)

\* Whatever reads fail and interfaces come and go, no byte is reported twice
\* by an agent, what two samples in a row could read is what came in between
\* at most, and the CPU is busy for no more than all of the time, also when
\* the idle count goes back (Snapshot).
RatesAreReal ==
    [][/\ truth'.sum <= truth'.arrived
       /\ rate'.busy <= rate'.of
       /\ run = "report" /\ run' = "select" /\ truth.read /\ truth'.read =>
             rate'.bytes <= truth.arrived - truth.before]_vars

\* /readyz does not go on saying ready of a core that is gone or mute, whether
\* or not the panel is there to be told.
ReadyFollows == Ready /\ core # "up" ~> ~Ready \/ core = "up"
=============================================================================
