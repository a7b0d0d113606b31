--------------------------- MODULE DispatcherLimiter ---------------------------
(***************************************************************************)
(* The limiter patched into the dispatcher of the core                     *)
(* (patches/xray-v26.7.28/xnode_limiter.go.txt): the connections of one    *)
(* user are admitted, counted, wrapped and checked at each of their writes *)
(* against a policy file that the agent replaces while they run            *)
(* (WriteCorePolicy, internal/limits/policyfile.go).                       *)
(*                                                                         *)
(* All of it is keyed by the email of the user, so one user is modelled.   *)
(* Each connection is a goroutine; the limiter's mutex is held across a    *)
(* file read only, so that lock, work and unlock are one step elsewhere.   *)
(* The file is looked at once a second: Tick ends a second.  The place of  *)
(* a file in files stands for its modification time, which no two writes   *)
(* of the agent share.                                                     *)
(***************************************************************************)
EXTENDS Naturals, Sequences, FiniteSets

CONSTANTS
    Conn,               \* connections, or slots for them
    Address,            \* source addresses
    NoAddress,          \* an inbound without a valid source
    Source,             \* where a connection may come from
    Policies,           \* what the agent may write for the user
    TombstoneSeconds,   \* removedUserTombstone
    None,               \* the file has no entry for the user
    Nobody,             \* the mutex is free
    MaxWrites, MaxFaults \* bounds

\* limit and ips are connection_limit and ip_limit, 0 for none.  tomb is 0
\* when there is no tombstone_until, else one more than the seconds to it.
Policy == [limit : Nat, ips : Nat, blocked : BOOLEAN, gen : Nat, tomb : Nat]

NoPolicy == [limit |-> 0, ips |-> 0, blocked |-> FALSE, gen |-> 0, tomb |-> 0]

Modes == {"active", "draining"}
Entry == Policy \cup {None}
File  == [mode : Modes, entry : Entry]

ASSUME ConnAssumption == IsFiniteSet(Conn) /\ Nobody \notin Conn
ASSUME AddressAssumption == /\ NoAddress \notin Address
                            /\ Source \in [Conn -> SUBSET (Address \cup {NoAddress})]
ASSUME PolicyAssumption == Policies \subseteq {p \in Policy : p.tomb = 0}
ASSUME NoneAssumption == None \notin Policy
ASSUME BoundAssumption == /\ TombstoneSeconds \in Nat
                          /\ MaxWrites \in Nat \ {0} /\ MaxFaults \in Nat

VARIABLES
    files,        \* the policy files written so far, the last one is in place
    settled,      \* history: the file this second's policies cannot precede
    checked,      \* the file was looked at this second (checkedAt)
    holder,       \* who holds the mutex
    mtime,        \* of the file that was loaded
    mode,
    policies,     \* the user's entry in policies
    from,         \* history: the file policies is from, 0 for none
    connections, ips,
    pc, step,     \* per connection: the call it is in, and where in refresh
    since,        \* history: settled when it last refreshed
    stat,         \* the modification time it read
    seen,         \* the policy it read
    addr,         \* its source address
    gen,          \* the generation its wrappers carry
    done,         \* its context is cancelled, and its AfterFunc under way
    counted,      \* it was admitted and its AfterFunc has not run
    listed,       \* history: it was wrapped while the file listed the user
    faults

file == <<files, settled>>
cache == <<checked, holder, mtime, mode, policies, from>>
counts == <<connections, ips, counted, listed>>
conns == <<pc, step, since, stat, seen, addr, gen, done>>
vars == <<file, cache, counts, conns, faults>>

Latest == Len(files)

\* The calls of a connection.  The first four begin with a refresh.
Refreshing == {"mode", "policy", "wrap", "wait"}
Calls == Refreshing \cup {"admit", "over", "open", "closed", "ended", "out"}

TypeOK ==
    /\ files \in Seq(File) /\ files # <<>>
    /\ settled \in 0 .. Latest /\ mtime \in 0 .. Latest /\ from \in 0 .. Latest
    /\ checked \in BOOLEAN
    /\ holder \in Conn \cup {Nobody}
    /\ mode \in Modes
    /\ policies \in Entry
    /\ connections \in Nat
    /\ ips \in [Address -> Nat]
    /\ counted \subseteq Conn /\ listed \subseteq counted
    /\ pc \in [Conn -> Calls]
    /\ step \in [Conn -> {"refresh", "read", "get"}]
    /\ since \in [Conn -> 0 .. Latest] /\ stat \in [Conn -> 0 .. Latest]
    /\ seen \in [Conn -> Policy]
    /\ addr \in [Conn -> Address \cup {NoAddress}]
    /\ gen \in [Conn -> Nat]
    /\ done \in [Conn -> BOOLEAN]
    /\ faults \in 0 .. MaxFaults

\* The agent has written the file before it starts the core.
Init ==
    /\ \E m \in Modes, p \in Policies \cup {None} : files = <<[mode |-> m, entry |-> p]>>
    /\ settled = 1
    /\ checked = FALSE /\ holder = Nobody /\ mtime = 0 /\ from = 0
    /\ mode = "active" /\ policies = None
    /\ connections = 0 /\ ips = [a \in Address |-> 0] /\ counted = {} /\ listed = {}
    /\ pc = [c \in Conn |-> "out"] /\ step = [c \in Conn |-> "refresh"]
    /\ since = [c \in Conn |-> 0] /\ stat = [c \in Conn |-> 0]
    /\ seen = [c \in Conn |-> NoPolicy]
    /\ addr = [c \in Conn |-> NoAddress]
    /\ gen = [c \in Conn |-> 0]
    /\ done = [c \in Conn |-> FALSE]
    /\ faults = 0

-----------------------------------------------------------------------------
(* The agent and the clock                                                 *)

\* What becomes of the entry of a user who is not in the desired state.
Tombstone(old) ==
    LET tomb == IF old.tomb = 0 THEN TombstoneSeconds + 1 ELSE old.tomb
    IN  IF tomb > 1
        THEN [NoPolicy EXCEPT !.blocked = TRUE, !.gen = old.gen, !.tomb = tomb]
        ELSE None

Removed(old) == IF old = None THEN None ELSE Tombstone(old)

WriteCorePolicy(m, p) ==
    /\ Latest < MaxWrites
    /\ files' = Append(files, [mode |-> m,
                               entry |-> IF p = None THEN Removed(files[Latest].entry) ELSE p])
    /\ UNCHANGED <<settled, cache, counts, conns, faults>>

\* The user is one of the desired state.
Listed(entry) == entry # None /\ entry.tomb = 0

Older(p) == IF p # None /\ p.tomb > 1 THEN [p EXCEPT !.tomb = @ - 1] ELSE p

\* A second passes.  From here on a lookup refreshes first: what it finds is
\* not older than the file in place now, unless the policies were lost.
Tick ==
    /\ files' = [i \in DOMAIN files |-> [files[i] EXCEPT !.entry = Older(@)]]
    /\ settled' = IF from = 0 /\ mtime = Latest THEN 0 ELSE Latest
    /\ checked' = FALSE
    /\ policies' = Older(policies)
    /\ UNCHANGED <<holder, mtime, mode, from, counts, conns, faults>>

-----------------------------------------------------------------------------
(* xnodeRefreshPolicies                                                    *)

Goto(c, s) == step' = [step EXCEPT ![c] = s]
Free == holder = Nobody

Fault == faults < MaxFaults /\ faults' = faults + 1

\* Mutant: the modification time is recorded before the file is read.
StatRecords(c) ==
    /\ pc[c] \in Refreshing /\ step[c] = "refresh"
    /\ Free
    /\ ~checked
    /\ checked' = TRUE
    /\ mtime' = Latest
    /\ IF mtime = Latest
       THEN /\ Goto(c, "get")
            /\ since' = [since EXCEPT ![c] = settled]
            /\ UNCHANGED <<holder, stat>>
       ELSE /\ Goto(c, "read")
            /\ holder' = c
            /\ stat' = [stat EXCEPT ![c] = Latest]
            /\ UNCHANGED since
    /\ UNCHANGED <<file, mode, policies, from, counts, pc, seen, addr, gen, done, faults>>

\* The file is stat'ed; it is read if its modification time is a new one.
Stat(c) ==
    /\ pc[c] \in Refreshing /\ step[c] = "refresh"
    /\ Free
    /\ ~checked
    /\ checked' = TRUE
    /\ IF mtime = Latest
       THEN /\ Goto(c, "get")
            /\ since' = [since EXCEPT ![c] = settled]
            /\ UNCHANGED <<holder, stat>>
       ELSE /\ Goto(c, "read")
            /\ holder' = c
            /\ stat' = [stat EXCEPT ![c] = Latest]
            /\ UNCHANGED since
    /\ UNCHANGED <<file, mtime, mode, policies, from, counts, pc, seen, addr, gen, done, faults>>

\* The policies are dropped, the modification time is not.
StatFails(c) ==
    /\ pc[c] \in Refreshing /\ step[c] = "refresh"
    /\ Free
    /\ ~checked
    /\ Fault
    /\ checked' = TRUE
    /\ policies' = None /\ mode' = "active"
    /\ from' = 0 /\ settled' = 0
    /\ since' = [d \in Conn |-> IF pc[d] \in Refreshing THEN 0 ELSE since[d]]
    /\ Goto(c, "get")
    /\ UNCHANGED <<files, holder, mtime, counts, pc, stat, seen, addr, gen, done>>

\* Mutant: the file is read first and its modification time taken after.
ReadThenStat(c) ==
    /\ step[c] = "read"
    /\ holder' = Nobody
    /\ mtime' = Latest
    /\ mode' = files[stat[c]].mode
    /\ policies' = files[stat[c]].entry
    /\ from' = stat[c]
    /\ since' = [since EXCEPT ![c] = settled]
    /\ stat' = [stat EXCEPT ![c] = 0]
    /\ Goto(c, "get")
    /\ UNCHANGED <<file, checked, counts, pc, seen, addr, gen, done, faults>>

Read(c) ==
    /\ step[c] = "read"
    /\ holder' = Nobody
    /\ mtime' = stat[c]
    /\ mode' = files[Latest].mode
    /\ policies' = files[Latest].entry
    /\ from' = Latest
    /\ since' = [since EXCEPT ![c] = settled]
    /\ stat' = [stat EXCEPT ![c] = 0]
    /\ Goto(c, "get")
    /\ UNCHANGED <<file, checked, counts, pc, seen, addr, gen, done, faults>>

\* The file cannot be read or parsed: what was loaded stays for a second.
ReadFails(c) ==
    /\ step[c] = "read"
    /\ Fault
    /\ holder' = Nobody
    /\ settled' = from
    /\ since' = [since EXCEPT ![c] = from]
    /\ stat' = [stat EXCEPT ![c] = 0]
    /\ Goto(c, "get")
    /\ UNCHANGED <<files, checked, mtime, mode, policies, from, counts, pc, seen, addr, gen, done>>

Refresh(c) == Stat(c) \/ StatFails(c) \/ Read(c) \/ ReadFails(c)

\* What an entry, or the lack of one, comes to once its tombstone is over.
Effective(entry) == IF entry = None \/ entry.tomb = 1 THEN NoPolicy ELSE entry

\* xnodePolicyFor, after its refresh.
PolicyFor == Effective(policies)

-----------------------------------------------------------------------------
(* xnodeAdmit                                                              *)

\* On to the next call; the policy that was read is kept for some.
Keep(c, call, p, k) ==
    /\ pc' = [pc EXCEPT ![c] = call]
    /\ Goto(c, "refresh")
    /\ seen' = [seen EXCEPT ![c] = p]
    /\ since' = [since EXCEPT ![c] = k]

Enter(c, call) == Keep(c, call, NoPolicy, 0)

Leave(c) == /\ Enter(c, "out")
            /\ addr' = [addr EXCEPT ![c] = NoAddress]
            /\ UNCHANGED <<file, cache, counts, stat, gen, done, faults>>

\* A connection is dispatched, of a user the core authenticates and the file
\* therefore carries (AuthenticatedHasPolicy of NodeReconciler).
Dispatch(c) ==
    /\ pc[c] = "out"
    /\ files[Latest].entry # None /\ files[Latest].entry.tomb # 1
    /\ Enter(c, "mode")
    /\ UNCHANGED <<file, cache, counts, stat, addr, gen, done, faults>>

\* The lookup that follows a refresh.  Less than a second after a check the
\* refresh returns at once, and both are one step.
At(c, call) == /\ pc[c] = call
               /\ step[c] = "get" \/ (step[c] = "refresh" /\ checked)
               /\ Free

\* The oldest file that the lookup, or what follows it, can go by.
Oldest(c) == IF pc[c] \in Refreshing /\ step[c] = "refresh" THEN settled ELSE since[c]

Mode(c) ==
    /\ At(c, "mode")
    /\ mode # "draining"
    /\ Enter(c, "policy")
    /\ UNCHANGED <<file, cache, counts, stat, addr, gen, done, faults>>

Draining(c) == At(c, "mode") /\ mode = "draining" /\ Leave(c)

Allowed(c) ==
    /\ At(c, "policy")
    /\ ~PolicyFor.blocked
    /\ Keep(c, "admit", PolicyFor, Oldest(c))
    /\ \E a \in Source[c] : addr' = [addr EXCEPT ![c] = a]
    /\ UNCHANGED <<file, cache, counts, stat, gen, done, faults>>

Blocked(c) == At(c, "policy") /\ PolicyFor.blocked /\ Leave(c)

Sources == {a \in Address : ips[a] > 0}

WithinLimits(c) ==
    /\ seen[c].limit > 0 => connections < seen[c].limit
    /\ (addr[c] # NoAddress /\ seen[c].ips > 0 /\ ips[addr[c]] = 0)
         => Cardinality(Sources) < seen[c].ips

\* Checked and counted under one lock, with the policy read before it.  The
\* AfterFunc is registered; it runs at once if the context is cancelled.
Admit(c) ==
    /\ pc[c] = "admit" /\ Free
    /\ WithinLimits(c)
    /\ connections' = connections + 1
    /\ ips' = IF addr[c] = NoAddress THEN ips ELSE [ips EXCEPT ![addr[c]] = @ + 1]
    /\ counted' = counted \cup {c}
    /\ Enter(c, "wrap")
    /\ UNCHANGED <<file, cache, listed, stat, addr, gen, done, faults>>

\* Mutant: the connection is counted before its address is checked.
LimitExceededCounts(c) ==
    /\ pc[c] = "admit" /\ Free /\ ~WithinLimits(c)
    /\ connections' = IF seen[c].limit > 0 /\ connections >= seen[c].limit
                      THEN connections ELSE connections + 1
    /\ Enter(c, "out")
    /\ addr' = [addr EXCEPT ![c] = NoAddress]
    /\ UNCHANGED <<file, cache, ips, counted, listed, stat, gen, done, faults>>

LimitExceeded(c) == pc[c] = "admit" /\ Free /\ ~WithinLimits(c) /\ Leave(c)

\* One less, and no entry at all below one.
Less(n) == IF n <= 1 THEN 0 ELSE n - 1

\* Mutant: a release without once and without a floor.
AfterFuncTwice(c) ==
    /\ c \in counted /\ done[c] /\ Free
    /\ connections' = connections - 1
    /\ UNCHANGED <<file, cache, ips, counted, listed, conns, faults>>

AfterFunc(c) ==
    /\ c \in counted /\ done[c] /\ Free
    /\ counted' = counted \ {c} /\ listed' = listed \ {c}
    /\ connections' = Less(connections)
    /\ ips' = IF addr[c] = NoAddress THEN ips ELSE [ips EXCEPT ![addr[c]] = Less(@)]
    /\ addr' = [addr EXCEPT ![c] = NoAddress] /\ done' = [done EXCEPT ![c] = FALSE]
    /\ IF pc[c] = "ended" THEN Enter(c, "out") ELSE UNCHANGED <<pc, step, since, seen>>
    /\ UNCHANGED <<file, cache, stat, gen, faults>>

-----------------------------------------------------------------------------
(* xnodeWrapGeneratedLinks and xnodeWrapProvidedLink                       *)

Wrap(c) ==
    /\ At(c, "wrap")
    /\ gen' = [gen EXCEPT ![c] = PolicyFor.gen]
    /\ listed' = IF Listed(files[Latest].entry) THEN listed \cup ({c} \cap counted) ELSE listed
    /\ Enter(c, "open")
    /\ UNCHANGED <<file, cache, connections, ips, counted, stat, addr, done, faults>>

-----------------------------------------------------------------------------
(* xnodeWait, called for every write (and read, for provided links)        *)

Write(c) ==
    /\ pc[c] = "open"
    /\ Enter(c, "wait")
    /\ UNCHANGED <<file, cache, counts, stat, addr, gen, done, faults>>

Stays == UNCHANGED <<file, cache, counts, stat, addr, gen, done, faults>>

\* Mutant: the generation is not compared.
RefusedIfBlocked(c) == PolicyFor.blocked

Refused(c) == PolicyFor.blocked \/ PolicyFor.gen # gen[c]

\* The data passes, after the bucket's delay if there is a rate.
Pass(c) ==
    /\ At(c, "wait") /\ ~Refused(c)
    /\ PolicyFor.limit = 0
    /\ Enter(c, "open")
    /\ Stays

Limited(c) ==
    /\ At(c, "wait") /\ ~Refused(c)
    /\ PolicyFor.limit > 0
    /\ Keep(c, "over", PolicyFor, Oldest(c))
    /\ Stays

Cut(c) ==
    /\ At(c, "wait") /\ Refused(c)
    /\ Enter(c, "closed")
    /\ Stays

\* The active count against the limit read before it.
NotOver(c) ==
    /\ pc[c] = "over" /\ Free
    /\ connections <= seen[c].limit
    /\ Enter(c, "open")
    /\ Stays

Over(c) ==
    /\ pc[c] = "over" /\ Free
    /\ connections > seen[c].limit
    /\ Enter(c, "closed")
    /\ Stays

-----------------------------------------------------------------------------
(* The rest of the core                                                    *)

\* The client goes away, at any moment; before the AfterFunc is registered
\* that makes no difference.
Cancel(c) ==
    /\ c \in counted
    /\ ~done[c]
    /\ done' = [done EXCEPT ![c] = TRUE]
    /\ UNCHANGED <<file, cache, counts, pc, step, since, stat, seen, addr, gen, faults>>

\* The handler of the connection returns, after an error or at the end of
\* the data, and its context is cancelled.
Return(c) ==
    /\ pc[c] \in {"open", "closed"}
    /\ Enter(c, IF c \in counted THEN "ended" ELSE "out")
    /\ done' = [done EXCEPT ![c] = c \in counted]
    /\ gen' = [gen EXCEPT ![c] = 0]
    /\ UNCHANGED <<file, cache, counts, stat, addr, faults>>

-----------------------------------------------------------------------------
Admission(c) == Mode(c) \/ Draining(c) \/ Allowed(c) \/ Blocked(c) \/ Admit(c) \/ LimitExceeded(c)

Wait(c) == Pass(c) \/ Limited(c) \/ Cut(c) \/ NotOver(c) \/ Over(c)

Agent == \E m \in Modes, p \in Policies \cup {None} : WriteCorePolicy(m, p)

Connection(c) == \/ Refresh(c) \/ Dispatch(c) \/ Admission(c) \/ Wrap(c)
                 \/ Write(c) \/ Wait(c) \/ AfterFunc(c) \/ Cancel(c) \/ Return(c)

Next == Agent \/ Tick \/ \E c \in Conn : Connection(c)

Spec == Init /\ [][Next]_vars

\* Clocks advance, goroutines run, sessions go on writing and a handler that
\* got an error returns.
Work(c) == \/ Stat(c) \/ Read(c) \/ Admission(c) \/ Wrap(c)
           \/ Write(c) \/ Wait(c)
           \/ pc[c] = "closed" /\ Return(c)

Fairness == WF_vars(Tick) /\ \A c \in Conn : WF_vars(Work(c)) /\ WF_vars(AfterFunc(c))

FairSpec == Spec /\ Fairness

-----------------------------------------------------------------------------
(* Properties                                                              *)

\* Every admitted connection is counted, for the user and for its address,
\* until its AfterFunc has run, and no other is.
CountsExact ==
    /\ connections = Cardinality(counted)
    /\ \A a \in Address : ips[a] = Cardinality({c \in counted : addr[c] = a})

\* The files whose policies a connection may still go by: those in place at
\* some time since the second before it refreshed.  0 is for the policies a
\* failed Stat has dropped.
InForce(c) == Oldest(c) .. Latest

\* The limits of p leave room for the connections of set, c among them.
Room(p, set, c) ==
    /\ p.limit > 0 => Cardinality(set) <= p.limit
    /\ \/ p.ips = 0 \/ addr[c] = NoAddress
       \/ \E d \in set \ {c} : addr[d] = addr[c]
       \/ Cardinality({addr[d] : d \in set} \ {NoAddress}) <= p.ips

\* A connection gets past the drain, and is admitted, only if a file that was
\* in force within the last second did not drain the node, and one did not
\* block the user and had room for one more.
AdmittedAsTold ==
    [][\A c \in Conn :
        /\ pc[c] = "mode" /\ pc'[c] = "policy"
             => \E k \in InForce(c) : k = 0 \/ files[k].mode = "active"
        /\ c \in counted' \ counted
             => \E k \in InForce(c) : k = 0 \/ LET p == Effective(files[k].entry) IN
                                               ~p.blocked /\ Room(p, counted', c)]_vars

Passes(c) == pc[c] \in {"wait", "over"} /\ pc'[c] = "open"

\* A session's data passes only if a file that was in force within the last
\* second does not block the user, has the session's generation, and sets no
\* limit that the user's connections exceed.
PassesAsTold ==
    [][\A c \in Conn : Passes(c) =>
        \E k \in InForce(c) : k = 0 \/ LET p == Effective(files[k].entry) IN
            /\ ~p.blocked /\ p.gen = gen[c]
            /\ p.limit > 0 => Cardinality(counted) <= p.limit]_vars

\* docs/LIMITS.md: a tombstone "closes old sessions" of a deleted user.
DeletedIsCut ==
    [][\A c \in listed : Passes(c) =>
        \E k \in InForce(c) : k = 0 \/ Listed(files[k].entry)]_vars

\* The last policy the agent wrote, as it stands now.
LastPolicy == Effective(files[Latest].entry)

\* What a policy ends: all sessions of a blocked user, those beyond the
\* connection limit, and those of another generation.
Obeys(p) ==
    /\ p.blocked => counted = {}
    /\ p.limit > 0 => Cardinality(counted) <= p.limit
    /\ \A c \in Conn : pc[c] = "open" => gen[c] = p.gen

\* The agent stops changing the file, but writes it at every sync, and so
\* also after a failed Stat has dropped what was loaded from it.
Settled ==
    /\ <>[][Latest' = Latest]_vars
    /\ (mtime = Latest /\ from = 0) ~> mtime # Latest

\* Then the last policy takes hold: the sessions it ends do end, if they go on
\* writing, and nobody is admitted beyond its limits, of connections and of
\* addresses.  The limit of addresses ends no session: xnodeAdmit compares it,
\* xnodeWait does not (AddressesAreCut).
LimitsTakeHold ==
    Settled => /\ <>[]Obeys(LastPolicy)
               /\ <>[][\A c \in counted' \ counted :
                         ~LastPolicy.blocked /\ Room(LastPolicy, counted', c)]_vars

\* The comment at xnode_limiter.go.txt:323 has an "IP decision" among those an
\* admitted session must observe.  It does so as the block that Evaluate makes
\* of too many addresses (PolicyEvaluate), not of ip_limit itself.
AddressesAreCut ==
    Settled => <>[](LastPolicy.ips > 0 =>
                       Cardinality({addr[c] : c \in counted} \ {NoAddress}) <= LastPolicy.ips)
=============================================================================
