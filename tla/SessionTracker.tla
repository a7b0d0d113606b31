--------------------------- MODULE SessionTracker ---------------------------
(***************************************************************************)
(* The tail of the access log (internal/session/tracker.go) and what sync  *)
(* makes of it (sessionSnapshot, agent.go): the connections and addresses  *)
(* of one user in the last IPWindowSeconds.  Users are kept apart by their *)
(* key, so one of them shows all there is.                                 *)
(*                                                                         *)
(* The log is one endless sequence of lines; the file holds what was       *)
(* written since it was last truncated (logrotate's copytruncate) or       *)
(* replaced.  Positions count half lines, so that a line can be torn: line *)
(* n is the bytes from 2n-2 to 2n.  A file of more than MaxTail halves is  *)
(* only read from its tail when it is met for the first time.              *)
(***************************************************************************)
EXTENDS Integers, Sequences, FiniteSets

CONSTANTS
    IP,            \* source addresses
    Window,        \* IPWindowSeconds
    MaxTail,       \* maxInitialTail
    MaxLines,      \* bounds: lines written,
    Comes,         \*   the addresses that line n may come from,
    MaxTime,       \*   the clock,
    MaxFaults      \*   truncations, replacements, failed reads, restarts

ASSUME WindowAssumption == Window \in Nat
ASSUME TailAssumption == MaxTail \in Nat \ {0}
ASSUME TrackerBounds ==
    MaxLines \in Nat /\ MaxTime \in Nat /\ MaxFaults \in Nat
ASSUME ComesAssumption == Comes \in [1..MaxLines -> SUBSET IP]

VARIABLES
    log,       \* the lines begun: who came from where, and when
    torn,      \* 1 if the last line is only half written, else 0
    start,     \* where in the log the file begins
    ino,       \* which file it is
    clock,
    offset, lastInfo,   \* of the Tracker: how far the file was read; which
    ips,       \* entry.ips: when an address was last seen, 0 if it was not
    seen,      \* entry.seen: how often a line is in it
    pc,        \* where ConsumeFile is
    now,       \* of this sync
    pos,       \* consumed
    judged,    \* addresses Evaluate is given by this sync,
    reported,  \*   the SessionRecord of the report
    trust,     \* history: "truncated" when the file was, behind a reader that
               \*   had read some of it; "overtaken" when it had regrown past
               \*   that by the next Stat; else "sure"
    floor,     \* history: where the reading of this file began
    upto,      \* history: the end of the file when it was last read to its
               \*   end, 0 if this sync failed to
    errors,    \* history: the reads that failed since the agent started
    faults     \* bound

file  == <<log, torn, start, ino>>
memory == <<offset, lastInfo, ips, seen, errors>>
sync  == <<pc, now, pos, judged, reported>>
ghost == <<trust, floor, upto>>
vars  == <<file, clock, memory, sync, ghost, faults>>

End  == 2 * Len(log) - torn
Size == End - start
Here == start + pos
Complete == {n \in 1..Len(log) : 2 * n <= End}
Recent(n) == log[n].at >= now - Window
NoRecord == [ips |-> {}, recent |-> 0, source |-> "access-log"]
Larger(a, b) == IF a > b THEN a ELSE b

Init ==
    /\ log = <<>> /\ torn = 0 /\ start = 0 /\ ino = 1
    /\ clock = 1
    /\ offset = 0 /\ lastInfo = 0
    /\ ips = [i \in IP |-> 0] /\ seen = [n \in 1..MaxLines |-> 0]
    /\ pc = "idle" /\ now = 0 /\ pos = 0
    /\ judged = {} /\ reported = NoRecord
    /\ trust = "sure" /\ floor = 0 /\ upto = 0
    /\ errors = 0 /\ faults = 0

-----------------------------------------------------------------------------
Fault == faults < MaxFaults /\ faults' = faults + 1

(* The core, logrotate and the clock                                       *)

Tick ==
    /\ clock < MaxTime
    /\ clock' = clock + 1
    /\ UNCHANGED <<file, memory, sync, ghost, faults>>

WriteHalf(i) ==
    /\ torn = 0 /\ Len(log) < MaxLines
    /\ i \in Comes[Len(log) + 1]
    /\ log' = Append(log, [ip |-> i, at |-> clock])
    /\ torn' = 1
    /\ UNCHANGED <<start, ino, clock, memory, sync, ghost, faults>>

WriteRest ==
    /\ torn = 1
    /\ torn' = 0
    /\ UNCHANGED <<log, start, ino, clock, memory, sync, ghost, faults>>

\* copytruncate: the core goes on writing, also the rest of a torn line.
Truncate ==
    /\ Fault
    /\ start' = End
    /\ trust' = IF trust = "sure" /\ (IF pc \in {"skip", "read"} THEN pos ELSE offset) > 0
                THEN "truncated" ELSE trust
    /\ UNCHANGED <<log, torn, ino, clock, memory, sync, floor, upto>>

\* A restarted core opens a new file.  A reader of the old one does not
\* notice, so the reading may be taken to be over.
Replace ==
    /\ torn = 0 /\ pc = "idle"
    /\ Fault
    /\ start' = End
    /\ ino' = ino + 1
    /\ UNCHANGED <<log, torn, clock, memory, sync, ghost>>

-----------------------------------------------------------------------------
(* ConsumeFile                                                             *)

Begin ==
    /\ now' = clock
    /\ judged' = {} /\ reported' = NoRecord
    /\ UNCHANGED <<file, clock, faults>>

\* Stat, and the choice of where to read from.
\* Mutant: a truncated file is not noticed.
FreshByInode == lastInfo # 0 /\ lastInfo # ino

Fresh == (lastInfo # 0 /\ lastInfo # ino) \/ Size < offset

\* Mutant: lastInfo is not recorded before the file is read.
StatLater ==
    /\ pc = "idle"
    /\ Begin
    /\ pos' = offset /\ pc' = "read" /\ floor' = start
    /\ trust' = "sure" /\ upto' = 0
    /\ UNCHANGED memory

Stat ==
    /\ pc = "idle"
    /\ Begin
    /\ lastInfo' = ino
    /\ LET from == IF Fresh THEN 0 ELSE offset
           tail == from = 0 /\ Size > MaxTail
       IN /\ offset' = from
          /\ pos' = IF tail THEN Size - MaxTail ELSE from
          /\ pc' = IF tail THEN "skip" ELSE "read"
          /\ floor' = IF from = 0 THEN start ELSE floor
          /\ trust' = IF from = 0 \/ (trust = "truncated" /\ Size < offset) THEN "sure"
                      ELSE IF trust = "truncated" THEN "overtaken" ELSE trust
    /\ upto' = 0
    /\ UNCHANGED <<ips, seen, errors>>

\* Open or Stat fails, or there is no file.
StatFails ==
    /\ pc = "idle"
    /\ Begin
    /\ pc' = "records" /\ upto' = 0
    /\ UNCHANGED <<memory, pos, trust, floor>>

Reading ==
    UNCHANGED <<file, clock, lastInfo, now, judged, reported, trust>>

\* Where the line ends that the reader is in or at the beginning of.
Newline == IF Here % 2 = 0 THEN Here + 2 ELSE Here + 1

\* "A bounded tail can start in the middle of a line."
Skip ==
    /\ pc = "skip"
    /\ pos' = IF Newline <= End THEN Newline - start ELSE Larger(pos, Size)
    /\ floor' = start + pos'
    /\ pc' = "read"
    /\ Reading
    /\ UNCHANGED <<offset, ips, seen, errors, upto, faults>>

\* A line that ends in a newline is consumed, and added if it parses: the
\* rest of a line whose beginning was not read does not.
Read ==
    /\ pc = "read"
    /\ Newline <= End
    /\ pos' = Newline - start
    /\ IF Here % 2 = 0
       THEN LET n == Newline \div 2
            IN /\ ips' = [ips EXCEPT ![log[n].ip] = log[n].at]
               /\ seen' = [seen EXCEPT ![n] = @ + 1]
       ELSE UNCHANGED <<ips, seen>>
    /\ Reading
    /\ UNCHANGED <<offset, errors, pc, floor, upto, faults>>

\* Mutants: the offset is not stored; it covers a torn line as well.
EofKeepsOffset ==
    /\ pc = "read"
    /\ Newline > End
    /\ pc' = "records" /\ upto' = End
    /\ Reading
    /\ UNCHANGED <<offset, ips, seen, errors, pos, floor, faults>>

EofCountsTorn ==
    /\ pc = "read"
    /\ Newline > End
    /\ offset' = Larger(pos, Size)
    /\ pc' = "records" /\ upto' = End
    /\ Reading
    /\ UNCHANGED <<ips, seen, errors, pos, floor, faults>>

Eof ==
    /\ pc = "read"
    /\ Newline > End
    /\ offset' = pos
    /\ pc' = "records"
    /\ upto' = End
    /\ Reading
    /\ UNCHANGED <<ips, seen, errors, pos, floor, faults>>

\* What was read stays in memory, but the offset stays where it was, too.
ReadFails ==
    /\ pc \in {"skip", "read"}
    /\ Fault
    /\ errors' = errors + 1
    /\ pc' = "records"
    /\ Reading
    /\ UNCHANGED <<offset, ips, seen, pos, floor, upto>>

-----------------------------------------------------------------------------
(* Records, the native online map, and what is made of the two             *)

\* Mutant: addresses are not pruned.
KeptAlways(t) == t

Kept(t) == IF t < now - Window THEN 0 ELSE t

Listed == {i \in IP : Kept(ips[i]) > 0}

\* len(e.seen): a line that was read k times is counted k times.
Connections ==
    Cardinality(UNION {{n} \X (1..seen[n]) : n \in {m \in 1..Len(log) : Recent(m)}})

\* QueryOnlineSessions: the addresses the core has connections of, a record
\* of the user only if there are any, or no answer.
Online == SUBSET IP

FromLog == [ips |-> Listed, recent |-> Connections, source |-> "access-log"]

\* mergeSessionReports: the exact record with the recent connections.
Merged(exact) ==
    IF exact # {}
    THEN [ips |-> exact, recent |-> Connections, source |-> "xray-online"]
    ELSE FromLog

Records ==
    /\ pc = "records"
    /\ pc' = "idle" /\ pos' = 0
    /\ ips' = [i \in IP |-> Kept(ips[i])]
    /\ seen' = [n \in 1..MaxLines |-> IF n <= Len(log) /\ Recent(n) THEN seen[n] ELSE 0]
    /\ \/ judged' = Listed /\ reported' = FromLog
       \/ \E exact \in Online : judged' = exact /\ reported' = Merged(exact)
    /\ UNCHANGED <<file, clock, offset, lastInfo, errors, now, ghost, faults>>

\* NewTracker
Restart ==
    /\ Fault
    /\ offset' = 0 /\ lastInfo' = 0 /\ errors' = 0
    /\ ips' = [i \in IP |-> 0] /\ seen' = [n \in 1..MaxLines |-> 0]
    /\ pc' = "idle" /\ pos' = 0
    /\ judged' = {} /\ reported' = NoRecord
    /\ trust' = "sure" /\ floor' = 0 /\ upto' = 0
    /\ UNCHANGED <<file, clock, now>>

-----------------------------------------------------------------------------
Consume == Stat \/ StatFails \/ Skip \/ Read \/ Eof \/ ReadFails

Environment == Tick \/ (\E i \in IP : WriteHalf(i)) \/ WriteRest \/ Truncate \/ Replace

Next == Consume \/ Records \/ Restart \/ Environment

Spec == Init /\ [][Next]_vars

\* sync runs at every tick, and a file that is opened again and again opens.
FairSpec == Spec /\ WF_vars(Consume \/ Records) /\ SF_vars(Stat)

-----------------------------------------------------------------------------
(* Properties                                                              *)

FileOK ==
    /\ log \in Seq([ip : IP, at : Nat]) /\ Len(log) <= MaxLines
    /\ torn \in {0, 1} /\ (torn = 1 => log # <<>>)
    /\ start \in 0..End
    /\ ino \in Nat \ {0} /\ clock \in Nat

MemoryOK ==
    /\ lastInfo \in 0..ino /\ offset \in Nat
    /\ lastInfo = 0 => offset = 0 /\ pc \in {"idle", "records"}
    /\ ips \in [IP -> Nat]
    /\ seen \in [1..MaxLines -> Nat]
    /\ errors \in Nat

SyncOK ==
    /\ pc \in {"idle", "skip", "read", "records"}
    /\ now \in 0..clock /\ pos \in Nat
    /\ judged \subseteq IP /\ reported.ips \subseteq IP /\ reported.recent \in Nat
    /\ trust \in {"sure", "truncated", "overtaken"}
    /\ floor \in Nat /\ upto \in 0..End /\ faults \in 0..MaxFaults

TypeOK == FileOK /\ MemoryOK /\ SyncOK

\* However the file is truncated, replaced and torn, a connection is counted
\* once, and once more for each read that failed in the middle: the offset is
\* stored at the end only (ConsumeFile).
CountedOnce == \A n \in 1..MaxLines : seen[n] <= 1 + errors

\* "Consumes complete new lines since the previous call": after a reading to
\* the end, every complete line the file held is counted and its address is
\* as recent as the line, unless the tail began behind it or the file was
\* truncated and regrew past the old offset before the next Stat.
Held(n) == 2 * n <= upto /\ 2 * n - 2 >= start /\ 2 * n - 2 >= floor /\ Recent(n)
Trusted == upto > 0 /\ trust = "sure"

NothingSkipped ==
    pc = "records" /\ Trusted =>
        \A n \in 1..Len(log) : Held(n) => seen[n] >= 1 /\ ips[log[n].ip] >= log[n].at

\* What the policy judges a user by is what the panel is shown of him, and a
\* report from the access log shows the addresses of the window and no other
\* (sessionSnapshot, mergeSessionReports, Records).
ReportsWindow ==
    /\ judged \subseteq reported.ips
    /\ pc = "idle" /\ reported.source = "access-log" =>
         /\ \A i \in reported.ips :
               \E n \in 1..Len(log) : log[n].ip = i /\ Recent(n)
         /\ Trusted =>
               /\ {log[n].ip : n \in {m \in 1..Len(log) : Held(m)}} \subseteq reported.ips
               /\ Cardinality({m \in 1..Len(log) : Held(m)}) <= reported.recent

\* A complete line is counted in the end, unless the file loses it, the tail
\* begins behind it or its second passes before it is read.
ReadInTheEnd ==
    \A n \in 1..MaxLines :
        n \in Complete ~> \/ seen[n] > 0
                          \/ trust # "sure"
                          \/ 2 * n - 2 < Larger(start, floor)
                          \/ n \in Complete /\ ~Recent(n)
=============================================================================
