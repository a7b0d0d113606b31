------------------------ MODULE SessionTrackerProofs ------------------------
(***************************************************************************)
(* A connection is counted once, and once more for each read that failed;  *)
(* a reading to the end skips nothing; a report shows the window: for any  *)
(* log, any number of truncations, replacements, torn lines and restarts.  *)
(* Nothing is assumed but the types of the constants.                      *)
(***************************************************************************)
EXTENDS SessionTracker, FiniteSetTheorems, TLAPS

USE TrackerBounds

\* Positions are integers, and a line ends behind where its reader stands.
LEMMA Positions ==
    ASSUME TypeOK
    PROVE  /\ Len(log) \in Nat /\ End \in Int /\ Size \in Nat /\ Here \in Nat
           /\ Newline \in Nat /\ Newline > Here /\ Newline <= Here + 2
           /\ Newline % 2 = 0
           /\ Here % 2 = 0 => Newline = Here + 2
           /\ Newline \div 2 \in Nat /\ 2 * (Newline \div 2) = Newline
  <1>1. Len(log) \in Nat /\ End \in Int /\ Size \in Nat /\ Here \in Nat
    BY DEF TypeOK, FileOK, SyncOK, End, Size, Here
  <1>2. ASSUME NEW h \in Nat
        PROVE  LET l == IF h % 2 = 0 THEN h + 2 ELSE h + 1
               IN /\ l \in Nat /\ l > h /\ l <= h + 2 /\ l % 2 = 0
                  /\ l \div 2 \in Nat /\ 2 * (l \div 2) = l
    OBVIOUS
  <1>3. QED
    BY <1>1, <1>2 DEF Newline

-----------------------------------------------------------------------------
(* Types                                                                   *)

LEMMA TypeInit == Init => TypeOK
  <1> SUFFICES ASSUME Init PROVE TypeOK
    OBVIOUS
  <1>1. log \in Seq([ip : IP, at : Nat]) /\ Len(log) = 0
    BY DEF Init
  <1>2. End = 0
    BY <1>1 DEF Init, End
  <1>3. FileOK
    BY <1>1, <1>2 DEF Init, FileOK
  <1>4. MemoryOK
    BY DEF Init, MemoryOK
  <1>5. SyncOK
    BY <1>2 DEF Init, SyncOK, NoRecord
  <1>6. QED
    BY <1>3, <1>4, <1>5 DEF TypeOK

\* What only the file says.
LEMMA Ends ==
    ASSUME TypeOK
    PROVE  /\ Len(log) \in Nat /\ End \in Nat /\ Size \in Nat /\ start \in Nat
           /\ Here \in Nat /\ Here = start + pos /\ pos \in Nat
           /\ Newline \in Nat /\ Newline > Here
           /\ UNCHANGED <<log, torn>> => End' = End
  <1>1. Len(log) \in Nat /\ start \in 0..End /\ pos \in Nat
    BY DEF TypeOK, FileOK, SyncOK
  <1>2. End \in Int /\ Size \in Nat /\ Here \in Nat /\ Newline \in Nat /\ Newline > Here
    BY Positions
  <1>3. UNCHANGED <<log, torn>> => End' = End
    BY DEF End
  <1>4. QED
    BY <1>1, <1>2, <1>3 DEF Here

LEMMA Element ==
    ASSUME NEW S, NEW s \in Seq(S), NEW n \in 1..Len(s)
    PROVE  s[n] \in S
  OBVIOUS

LEMMA Lines ==
    ASSUME TypeOK, NEW n \in 1..Len(log)
    PROVE  log[n].ip \in IP /\ log[n].at \in Nat /\ n \in 1..MaxLines
  <1>1. log \in Seq([ip : IP, at : Nat]) /\ Len(log) <= MaxLines /\ Len(log) \in Nat
    BY DEF TypeOK, FileOK
  <1>2. log[n] \in [ip : IP, at : Nat]
    BY <1>1, Element
  <1>3. QED
    BY <1>1, <1>2

\* The line that is read next.
LEMMA NextLine ==
    ASSUME TypeOK, Newline <= End, Here % 2 = 0
    PROVE  /\ Newline \div 2 \in 1..Len(log)
           /\ 2 * (Newline \div 2) = Newline /\ Newline = Here + 2
  <1>1. /\ Newline \div 2 \in Nat /\ 2 * (Newline \div 2) = Newline
        /\ Newline = Here + 2 /\ Here \in Nat /\ Len(log) \in Nat
    BY Positions
  <1>2. Newline <= 2 * Len(log)
    BY <1>1 DEF End, TypeOK, FileOK
  <1>3. QED
    BY <1>1, <1>2

LEMMA Appended ==
    ASSUME NEW S, NEW s \in Seq(S), NEW e \in S
    PROVE  Append(s, e) \in Seq(S) /\ Len(Append(s, e)) = Len(s) + 1 /\ Append(s, e) # <<>>
  <1>1. Append(s, e) \in Seq(S)
    OBVIOUS
  <1>2. Len(Append(s, e)) = Len(s) + 1
    OBVIOUS
  <1>3. Len(s) \in Nat /\ Len(<<>>) = 0
    OBVIOUS
  <1>4. QED
    BY <1>1, <1>2, <1>3

LEMMA FileKept == FileOK /\ UNCHANGED file /\ clock' \in Nat => FileOK'
  BY DEF FileOK, file, End

LEMMA EndKept == UNCHANGED file => End' = End
  BY DEF file, End

LEMMA MemoryKept ==
    MemoryOK /\ UNCHANGED <<memory, ino>> /\ (pc' = pc \/ pc' \in {"idle", "records"})
      => MemoryOK'
  BY DEF MemoryOK, memory

LEMMA TypeEnvironment == TypeOK /\ Environment => TypeOK'
  <1> SUFFICES ASSUME TypeOK, Environment PROVE TypeOK'
    OBVIOUS
  <1>0. FileOK /\ MemoryOK /\ SyncOK /\ Len(log) \in Nat /\ End \in Nat /\ start \in 0..End
    BY Ends DEF TypeOK, FileOK
  <1>1. CASE Tick
    <2>1. clock \in Nat /\ clock' \in Nat /\ clock' >= clock
      BY <1>0, <1>1 DEF Tick, FileOK
    <2>2. FileOK' /\ End' = End
      BY <1>0, <1>1, <2>1, FileKept DEF Tick, file, End
    <2>3. MemoryOK'
      BY <1>0, <1>1, MemoryKept DEF Tick, file, sync
    <2>4. SyncOK'
      BY <1>0, <1>1, <2>1, <2>2 DEF Tick, sync, ghost, SyncOK
    <2>5. QED
      BY <2>2, <2>3, <2>4 DEF TypeOK
  <1>2. ASSUME NEW i \in IP, WriteHalf(i) PROVE TypeOK'
    <2>1. /\ log' = Append(log, [ip |-> i, at |-> clock]) /\ torn' = 1 /\ torn = 0
          /\ Len(log) < MaxLines /\ UNCHANGED <<start, ino, clock, memory, sync, ghost, faults>>
      BY <1>2 DEF WriteHalf
    <2>2. log \in Seq([ip : IP, at : Nat]) /\ [ip |-> i, at |-> clock] \in [ip : IP, at : Nat]
      BY <1>0 DEF FileOK
    <2>3. /\ log' \in Seq([ip : IP, at : Nat]) /\ log' # <<>>
          /\ Len(log') = Len(log) + 1
      BY <2>1, <2>2, Appended
    <2>4. Len(log') <= MaxLines
      BY <1>0, <2>1, <2>3
    <2>5. End' = End + 1
      BY <1>0, <2>1, <2>3 DEF End
    <2>6. FileOK'
      BY <1>0, <2>1, <2>3, <2>4, <2>5 DEF FileOK
    <2>7. MemoryOK'
      BY <1>0, <2>1, MemoryKept DEF sync
    <2>8. SyncOK'
      BY <1>0, <2>1, <2>5 DEF SyncOK, sync, ghost
    <2>9. QED
      BY <2>6, <2>7, <2>8 DEF TypeOK
  <1>3. CASE WriteRest
    <2>1. End' = End + 1
      BY <1>0, <1>3 DEF WriteRest, End
    <2>2. FileOK'
      BY <1>0, <1>3, <2>1 DEF WriteRest, FileOK
    <2>3. MemoryOK'
      BY <1>0, <1>3, MemoryKept DEF WriteRest, sync
    <2>4. SyncOK'
      BY <1>0, <1>3, <2>1 DEF WriteRest, SyncOK, sync, ghost
    <2>5. QED
      BY <2>2, <2>3, <2>4 DEF TypeOK
  <1>4. CASE Truncate
    <2>1. End' = End
      BY <1>4 DEF Truncate, End
    <2>2. FileOK'
      BY <1>0, <1>4, <2>1 DEF Truncate, FileOK
    <2>3. MemoryOK'
      BY <1>0, <1>4, MemoryKept DEF Truncate, sync
    <2>4. SyncOK'
      BY <1>0, <1>4, <2>1 DEF Truncate, Fault, SyncOK, sync
    <2>5. QED
      BY <2>2, <2>3, <2>4 DEF TypeOK
  <1>5. CASE Replace
    <2>1. End' = End
      BY <1>5 DEF Replace, End
    <2>2. FileOK'
      BY <1>0, <1>5, <2>1 DEF Replace, FileOK
    <2>3. MemoryOK'
      BY <1>0, <1>5 DEF Replace, memory, sync, FileOK, MemoryOK
    <2>4. SyncOK'
      BY <1>0, <1>5, <2>1 DEF Replace, Fault, SyncOK, sync, ghost
    <2>5. QED
      BY <2>2, <2>3, <2>4 DEF TypeOK
  <1>6. QED
    BY <1>1, <1>2, <1>3, <1>4, <1>5 DEF Environment

LEMMA TypeConsume == TypeOK /\ Consume => TypeOK'
  <1> SUFFICES ASSUME TypeOK, Consume PROVE TypeOK'
    OBVIOUS
  <1>0. /\ FileOK /\ MemoryOK /\ SyncOK
        /\ End \in Nat /\ Size \in Nat /\ start \in Nat /\ Here = start + pos /\ pos \in Nat
        /\ Newline \in Nat /\ Newline > Here /\ clock \in Nat /\ offset \in Nat
    BY Ends DEF TypeOK, FileOK, MemoryOK
  <1>f. UNCHANGED <<file, clock>> => FileOK' /\ End' = End
    BY <1>0, FileKept, EndKept
  <1> USE DEF Begin, Reading, memory
  <1>1. CASE Stat
    <2>1. /\ pos' \in Nat /\ offset' \in Nat /\ pc' \in {"skip", "read"}
      BY <1>0, <1>1, TailAssumption DEF Stat
    <2>2. floor' \in Nat
      BY <1>0, <1>1 DEF Stat, SyncOK
    <2>3. trust' \in {"sure", "truncated", "overtaken"}
      BY <1>0, <1>1 DEF Stat, SyncOK
    <2>4. MemoryOK'
      BY <1>0, <1>1, <2>1 DEF Stat, FileOK, MemoryOK, file
    <2>5. SyncOK'
      BY <1>0, <1>1, <1>f, <2>1, <2>2, <2>3 DEF Stat, SyncOK, NoRecord
    <2>6. QED
      BY <1>1, <1>f, <2>4, <2>5 DEF Stat, TypeOK
  <1>2. CASE StatFails
    <2>1. MemoryOK'
      BY <1>0, <1>2, MemoryKept DEF StatFails, file
    <2>2. SyncOK'
      BY <1>0, <1>2, <1>f DEF StatFails, SyncOK, NoRecord
    <2>3. QED
      BY <1>2, <1>f, <2>1, <2>2 DEF StatFails, TypeOK
  <1>3. CASE Skip
    <2>1. Newline - start \in Nat /\ Larger(pos, Size) \in Nat
      BY <1>0 DEF Larger
    <2>2. pos' \in Nat /\ floor' \in Nat
      BY <1>0, <1>3, <2>1 DEF Skip
    <2>3. MemoryOK'
      BY <1>0, <1>3 DEF Skip, MemoryOK, file
    <2>4. SyncOK'
      BY <1>0, <1>3, <1>f, <2>2 DEF Skip, SyncOK
    <2>5. QED
      BY <1>3, <1>f, <2>3, <2>4 DEF Skip, TypeOK
  <1>4. CASE Read
    <2>1. pos' \in Nat
      BY <1>0, <1>4 DEF Read
    <2>2. ips' \in [IP -> Nat] /\ seen' \in [1..MaxLines -> Nat]
      <3>1. CASE Here % 2 = 0
        <4>1. Newline \div 2 \in 1..Len(log) /\ Newline \div 2 \in 1..MaxLines
          BY <1>4, <3>1, NextLine, Lines DEF Read
        <4>2. log[Newline \div 2].ip \in IP /\ log[Newline \div 2].at \in Nat
          BY <4>1, Lines
        <4>3. /\ ips' = [ips EXCEPT ![log[Newline \div 2].ip] = log[Newline \div 2].at]
              /\ seen' = [seen EXCEPT ![Newline \div 2] = @ + 1]
          BY <1>4, <3>1 DEF Read
        <4>4. ips \in [IP -> Nat] /\ seen \in [1..MaxLines -> Nat]
          BY <1>0 DEF MemoryOK
        <4>5. ips' \in [IP -> Nat]
          BY <4>2, <4>3, <4>4
        <4>6. seen' \in [1..MaxLines -> Nat]
          BY <4>1, <4>3, <4>4
        <4>7. QED
          BY <4>5, <4>6
      <3>2. CASE Here % 2 # 0
        BY <1>0, <1>4, <3>2 DEF Read, MemoryOK
      <3>3. QED
        BY <3>1, <3>2
    <2>3. MemoryOK'
      BY <1>0, <1>4, <2>2 DEF Read, MemoryOK, file
    <2>4. SyncOK'
      BY <1>0, <1>4, <1>f, <2>1 DEF Read, SyncOK
    <2>5. QED
      BY <1>4, <1>f, <2>3, <2>4 DEF Read, TypeOK
  <1>5. CASE Eof
    <2>1. MemoryOK'
      BY <1>0, <1>5 DEF Eof, MemoryOK, file
    <2>2. SyncOK'
      BY <1>0, <1>5, <1>f DEF Eof, SyncOK
    <2>3. QED
      BY <1>5, <1>f, <2>1, <2>2 DEF Eof, TypeOK
  <1>6. CASE ReadFails
    <2>1. MemoryOK'
      BY <1>0, <1>6 DEF ReadFails, MemoryOK, file
    <2>2. SyncOK'
      BY <1>0, <1>6, <1>f DEF ReadFails, Fault, SyncOK
    <2>3. QED
      BY <1>6, <1>f, <2>1, <2>2 DEF ReadFails, TypeOK
  <1>7. QED
    BY <1>1, <1>2, <1>3, <1>4, <1>5, <1>6 DEF Consume

\* The counted connections are finitely many.
LEMMA LinesCounted ==
    ASSUME seen \in [1..MaxLines -> Nat], Len(log) \in Nat, Len(log) <= MaxLines
    PROVE  /\ IsFiniteSet(UNION {{n} \X (1..seen[n]) : n \in {m \in 1..Len(log) : Recent(m)}})
           /\ Connections \in Nat
  <1> DEFINE R == {m \in 1..Len(log) : Recent(m)}
             Of == [n \in R |-> {n} \X (1..seen[n])]
             C == {{n} \X (1..seen[n]) : n \in R}
  <1>1. IsFiniteSet(R)
    <2>1. IsFiniteSet(1..Len(log))
      BY FS_Interval
    <2>2. QED
      BY <2>1, FS_Subset
  <1>2. IsFiniteSet(C)
    <2>1. Of \in Surjection(R, C)
      BY DEF Surjection
    <2>2. QED
      BY <1>1, <2>1, FS_Surjection
  <1>3. \A P \in C : IsFiniteSet(P)
    <2>1. SUFFICES ASSUME NEW n \in R PROVE IsFiniteSet({n} \X (1..seen[n]))
      OBVIOUS
    <2>2. \A k \in Int : IsFiniteSet(1..k)
      BY FS_Interval
    <2>3. IsFiniteSet(1..seen[n])
      <3>1. seen[n] \in Int
        OBVIOUS
      <3>2. QED
        BY <2>2, <3>1
    <2>4. IsFiniteSet({n})
      BY FS_Singleton
    <2>5. QED
      BY <2>3, <2>4, FS_Product
  <1>4. IsFiniteSet(UNION C)
    BY <1>2, <1>3, FS_UNION
  <1>5. QED
    BY <1>4, FS_CardinalityType DEF Connections

LEMMA TypeRecords == TypeOK /\ Records => TypeOK'
  <1> SUFFICES ASSUME TypeOK, Records PROVE TypeOK'
    OBVIOUS
  <1> USE Ends DEF TypeOK
  <1>1. ips' \in [IP -> Nat] /\ seen' \in [1..MaxLines -> Nat]
    BY DEF Records, MemoryOK, Kept
  <1>2. judged' \subseteq IP /\ reported'.ips \subseteq IP /\ reported'.recent \in Nat
    <2>0. Connections \in Nat
      BY LinesCounted DEF FileOK, MemoryOK
    <2>1. FromLog.ips \subseteq IP /\ FromLog.recent \in Nat
      BY <2>0 DEF FromLog, Listed
    <2>2. \A exact \in Online : Merged(exact).ips \subseteq IP /\ Merged(exact).recent \in Nat
      BY <2>0, <2>1 DEF Merged, Online
    <2>3. CASE judged' = Listed /\ reported' = FromLog
      BY <2>1, <2>3 DEF Listed
    <2>4. CASE \E exact \in Online : judged' = exact /\ reported' = Merged(exact)
      BY <2>2, <2>4 DEF Online
    <2>5. QED
      BY <2>3, <2>4 DEF Records
  <1>3. QED
    BY <1>1, <1>2 DEF Records, file, ghost, FileOK, MemoryOK, SyncOK

LEMMA TypeRestart == TypeOK /\ Restart => TypeOK'
  BY Ends DEF Restart, TypeOK, file, Fault, NoRecord, FileOK, MemoryOK, SyncOK

LEMMA TypeStep == TypeOK /\ [Next]_vars => TypeOK'
  <1>1. CASE UNCHANGED vars
    BY <1>1 DEF vars, file, memory, sync, ghost, TypeOK, FileOK, MemoryOK, SyncOK, End
  <1>2. QED
    BY <1>1, TypeEnvironment, TypeConsume, TypeRecords, TypeRestart DEF Next

\* Every reachable state is well typed: of the file, of the Tracker and of
\* what sync makes of them.
THEOREM TypeCorrect == Spec => []TypeOK
  BY TypeInit, TypeStep, PTL DEF Spec

-----------------------------------------------------------------------------
(* Counting.  A line counted more often than reads have failed lies behind *)
(* the place where the next reading begins: behind the offset, or, if that *)
(* reading is to begin anew, behind the beginning of the file.             *)

Behind(b) == \A n \in 1..MaxLines : seen[n] > errors => 2 * n <= b

CountInv ==
    /\ CountedOnce
    /\ \A n \in 1..MaxLines : seen[n] > 0 => 2 * n <= End
    /\ pc \in {"idle", "records"} =>
         Behind(start + offset) /\ (Size < offset \/ ino # lastInfo => Behind(start))
    /\ pc \in {"skip", "read"} =>
         Behind(start + pos) /\ (Size < pos => Behind(start)) /\ lastInfo = ino

LEMMA CountInit == Init => CountInv
  BY DEF Init, CountInv, CountedOnce, Behind

LEMMA CountEnvironment == TypeOK /\ CountInv /\ Environment => CountInv'
  <1> SUFFICES ASSUME TypeOK, CountInv, Environment PROVE CountInv'
    OBVIOUS
  <1>0. /\ End \in Nat /\ start \in Nat /\ pos \in Nat /\ offset \in Nat
        /\ errors \in Nat /\ seen \in [1..MaxLines -> Nat] /\ Size = End - start
    BY Ends DEF TypeOK, MemoryOK, Size
  <1>1. ASSUME UNCHANGED <<start, ino, offset, lastInfo, seen, errors, pc, pos>>,
               End' \in Nat, End' >= End
        PROVE  CountInv'
    <2>1. Size' = End' - start /\ Size = End - start
      BY <1>1 DEF Size
    <2>2. End' \in Nat /\ End' >= End /\ End \in Nat /\ start \in Nat
      BY <1>0, <1>1
    <2>3. ASSUME NEW e \in Nat, NEW f \in Nat, NEW b \in Nat, f >= e
          PROVE  f - b >= e - b /\ f - b \in Int /\ e - b \in Int
      BY <2>3
    <2>4. End' - start >= End - start /\ End' - start \in Int /\ End - start \in Int
      BY <2>2, <2>3
    <2>5. Size' >= Size /\ Size' \in Int /\ Size \in Int
      BY <2>1, <2>4
    <2>6. \A b : Behind(b) => Behind(b)'
      BY <1>1 DEF Behind
    <2>7. CountedOnce' /\ \A n \in 1..MaxLines : seen'[n] > 0 => 2 * n <= End'
      BY <1>0, <1>1 DEF CountInv, CountedOnce
    <2>8. QED
      BY <1>0, <1>1, <2>5, <2>7 DEF CountInv, Behind
  <1>2. ASSUME UNCHANGED <<log, torn, offset, lastInfo, seen, errors, pc, pos>>,
               start' = End, ino' = ino \/ pc = "idle"
        PROVE  CountInv'
    <2>1. End' = End
      BY <1>2 DEF End
    <2>2. \A n \in 1..MaxLines : seen'[n] > errors' => 2 * n <= start'
      BY <1>0, <1>2 DEF CountInv
    <2>3. \A b \in Nat : b >= start' => Behind(b)'
      BY <1>0, <1>2, <2>2 DEF Behind
    <2>4. QED
      BY <1>0, <1>2, <2>1, <2>3 DEF CountInv, CountedOnce
  <1>3. CASE Tick
    BY <1>0, <1>1, <1>3 DEF Tick, file, memory, sync, End
  <1>4. ASSUME NEW i \in IP, WriteHalf(i) PROVE CountInv'
    <2>1. Len(log') = Len(log) + 1 /\ Len(log) \in Nat
      BY <1>4, Ends DEF WriteHalf, TypeOK, FileOK
    <2>2. End' = End + 1
      BY <1>4, <2>1 DEF WriteHalf, End
    <2>3. QED
      BY <1>0, <1>1, <1>4, <2>2 DEF WriteHalf, memory, sync
  <1>5. CASE WriteRest
    <2>1. End' = End + 1
      BY <1>5, Ends DEF WriteRest, End
    <2>2. QED
      BY <1>0, <1>1, <1>5, <2>1 DEF WriteRest, memory, sync
  <1>6. CASE Truncate
    BY <1>2, <1>6 DEF Truncate, memory, sync, CountInv, TypeOK, SyncOK
  <1>7. CASE Replace
    BY <1>2, <1>7 DEF Replace, memory, sync
  <1>8. QED
    BY <1>3, <1>4, <1>5, <1>6, <1>7 DEF Environment

LEMMA CountConsume == TypeOK /\ CountInv /\ Consume => CountInv'
  <1> SUFFICES ASSUME TypeOK, CountInv, Consume PROVE CountInv'
    OBVIOUS
  <1>0. /\ End \in Nat /\ start \in Nat /\ pos \in Nat /\ offset \in Nat
        /\ errors \in Nat /\ seen \in [1..MaxLines -> Nat] /\ Size = End - start
        /\ Here = start + pos /\ Newline \in Nat /\ Newline > Here
        /\ start <= End
    <2>1. offset \in Nat /\ errors \in Nat /\ seen \in [1..MaxLines -> Nat]
      BY DEF TypeOK, MemoryOK
    <2>2. start \in 0..End
      BY DEF TypeOK, FileOK
    <2>3. QED
      BY <2>1, <2>2, Ends DEF Size
  <1>e. UNCHANGED file => End' = End /\ Size' = Size
    BY DEF file, End, Size
  <1>b. ASSUME NEW b \in Nat, NEW c \in Nat, Behind(b), b <= c PROVE Behind(c)
    BY <1>b DEF Behind
  <1>u. ASSUME UNCHANGED <<seen, errors>>, UNCHANGED file
        PROVE  /\ CountedOnce' /\ \A n \in 1..MaxLines : seen'[n] > 0 => 2 * n <= End'
               /\ \A b : Behind(b) => Behind(b)'
    BY <1>e, <1>u DEF CountInv, CountedOnce, Behind
  <1>1. CASE Stat
    <2>1. UNCHANGED <<seen, errors>> /\ UNCHANGED file /\ lastInfo' = ino /\ ino' = ino
      BY <1>1 DEF Stat, Begin, file
    <2>2. /\ pos' \in Nat /\ start' = start /\ pc' \in {"skip", "read"}
      BY <1>0, <1>1, <2>1, TailAssumption DEF Stat, file
    <2>3. CASE Fresh
      <3>1. Behind(start)
        BY <1>1, <2>3 DEF Stat, Fresh, CountInv
      <3>2. pos' = IF Size > MaxTail THEN Size - MaxTail ELSE 0
        BY <1>1, <2>3 DEF Stat
      <3>3. ~(Size < pos')
        BY <1>0, <3>2, TailAssumption
      <3>4. Behind(start + pos')
        BY <1>0, <1>b, <2>2, <3>1
      <3>5. QED
        BY <1>e, <1>u, <2>1, <2>2, <3>1, <3>3, <3>4 DEF CountInv, Behind
    <2>4. CASE ~Fresh
      <3>1. Behind(start + offset) /\ ~(Size < offset)
        BY <1>1, <2>4 DEF Stat, Fresh, CountInv
      <3>2. offset <= pos' /\ ~(Size < pos')
        BY <1>0, <1>1, <2>4, <3>1, TailAssumption DEF Stat
      <3>3. Behind(start + pos')
        BY <1>0, <1>b, <2>2, <3>1, <3>2
      <3>4. QED
        BY <1>0, <1>e, <1>u, <2>1, <2>2, <3>2, <3>3 DEF CountInv, Behind
    <2>5. QED
      BY <2>3, <2>4
  <1>2. CASE StatFails
    BY <1>2, <1>e, <1>u DEF StatFails, Begin, memory, file, CountInv, Behind
  <1>3. CASE Skip
    <2>1. /\ UNCHANGED <<seen, errors>> /\ UNCHANGED file
          /\ lastInfo' = lastInfo /\ ino' = ino /\ start' = start /\ pc' = "read"
      BY <1>3 DEF Skip, Reading, file
    <2>2. Behind(start + pos) /\ (Size < pos => Behind(start)) /\ lastInfo = ino
      BY <1>3 DEF Skip, CountInv
    <2>3. pos' \in Nat /\ pos <= pos' /\ (Size < pos' => Size < pos)
      BY <1>0, <1>3 DEF Skip, Larger
    <2>4. Behind(start + pos')
      BY <1>0, <1>b, <2>2, <2>3
    <2>5. QED
      BY <1>e, <1>u, <2>1, <2>2, <2>3, <2>4 DEF CountInv, Behind
  <1>4. CASE Read
    <2>1. /\ UNCHANGED file /\ lastInfo' = lastInfo /\ ino' = ino /\ start' = start
          /\ errors' = errors /\ pc' = "read" /\ pos' = Newline - start
      BY <1>4 DEF Read, Reading, file
    <2>2. Behind(Here) /\ lastInfo = ino
      BY <1>0, <1>4 DEF Read, CountInv
    <2>3. start + pos' = Newline /\ ~(Size < pos')
      BY <1>0, <1>4, <2>1 DEF Read
    <2>4. CASE Here % 2 = 0
      <3>1. /\ Newline \div 2 \in 1..MaxLines /\ 2 * (Newline \div 2) = Newline
        BY <1>4, <2>4, NextLine, Lines DEF Read
      <3>2. seen' = [seen EXCEPT ![Newline \div 2] = @ + 1]
        BY <1>4, <2>4 DEF Read
      <3>3. seen[Newline \div 2] <= errors
        BY <1>0, <2>2, <3>1 DEF Behind
      <3>4. CountedOnce'
        BY <1>0, <2>1, <3>1, <3>2, <3>3 DEF CountInv, CountedOnce
      <3>5. \A n \in 1..MaxLines : seen'[n] > 0 => 2 * n <= End'
        BY <1>0, <1>4, <1>e, <2>1, <3>1, <3>2 DEF Read, CountInv
      <3>6. \A n \in 1..MaxLines : seen'[n] > errors' => 2 * n <= start' + pos'
        BY <1>0, <2>1, <2>2, <2>3, <3>1, <3>2 DEF Behind
      <3>7. QED
        BY <1>e, <2>1, <2>2, <2>3, <3>4, <3>5, <3>6 DEF CountInv, Behind
    <2>5. CASE Here % 2 # 0
      <3>1. UNCHANGED <<seen, errors>>
        BY <1>4, <2>1, <2>5 DEF Read
      <3>2. Behind(Newline)
        BY <1>0, <1>b, <2>2
      <3>3. QED
        BY <1>e, <1>u, <2>1, <2>2, <2>3, <3>1, <3>2 DEF CountInv, Behind
    <2>6. QED
      BY <2>4, <2>5
  <1>5. CASE Eof
    <2>1. /\ UNCHANGED <<seen, errors>> /\ UNCHANGED file
          /\ lastInfo' = lastInfo /\ ino' = ino /\ start' = start /\ pc' = "records"
          /\ offset' = pos
      BY <1>5 DEF Eof, Reading, file
    <2>2. Behind(start + pos) /\ (Size < pos => Behind(start)) /\ lastInfo = ino
      BY <1>5 DEF Eof, CountInv
    <2>3. QED
      BY <1>e, <1>u, <2>1, <2>2 DEF CountInv, Behind
  <1>6. CASE ReadFails
    <2>1. /\ UNCHANGED file /\ seen' = seen /\ errors' = errors + 1 /\ pc' = "records"
      BY <1>6 DEF ReadFails, Reading, file
    <2>2. \A n \in 1..MaxLines : ~(seen'[n] > errors')
      BY <1>0, <2>1 DEF CountInv, CountedOnce
    <2>3. CountedOnce'
      BY <1>0, <2>1 DEF CountInv, CountedOnce
    <2>4. QED
      BY <1>e, <2>1, <2>2, <2>3 DEF CountInv, Behind
  <1>7. QED
    BY <1>1, <1>2, <1>3, <1>4, <1>5, <1>6 DEF Consume

LEMMA CountRest == TypeOK /\ CountInv /\ (Records \/ Restart) => CountInv'
  <1> SUFFICES ASSUME TypeOK, CountInv, Records \/ Restart PROVE CountInv'
    OBVIOUS
  <1>0. /\ errors \in Nat /\ seen \in [1..MaxLines -> Nat]
        /\ errors' \in Nat /\ UNCHANGED file
    BY DEF TypeOK, MemoryOK, Records, Restart
  <1>1. End' = End /\ Size' = Size /\ start' = start /\ ino' = ino
    BY <1>0 DEF file, End, Size
  <1>2. CASE Records
    <2>1. \A n \in 1..MaxLines : seen'[n] = seen[n] \/ seen'[n] = 0
      BY <1>2 DEF Records
    <2>2. /\ UNCHANGED <<offset, lastInfo, errors>> /\ pc = "records" /\ pc' = "idle"
      BY <1>2 DEF Records
    <2>3. \A b : Behind(b) => Behind(b)'
      BY <1>0, <2>1, <2>2 DEF Behind
    <2>4. CountedOnce' /\ \A n \in 1..MaxLines : seen'[n] > 0 => 2 * n <= End'
      <3>1. ASSUME NEW n \in 1..MaxLines
            PROVE  seen'[n] <= 1 + errors' /\ (seen'[n] > 0 => 2 * n <= End')
        <4>1. seen[n] \in Nat /\ seen[n] <= 1 + errors /\ (seen[n] > 0 => 2 * n <= End)
          BY <1>0 DEF CountInv, CountedOnce
        <4>2. QED
          BY <1>0, <1>1, <2>1, <2>2, <4>1
      <3>2. QED
        BY <3>1 DEF CountedOnce
    <2>5. Behind(start + offset) /\ (Size < offset \/ ino # lastInfo => Behind(start))
      BY <2>2 DEF CountInv
    <2>6. Behind(start + offset)' /\ (Size' < offset' \/ ino' # lastInfo' => Behind(start)')
      BY <1>1, <2>2, <2>3, <2>5 DEF Behind
    <2>7. QED
      BY <2>2, <2>4, <2>6 DEF CountInv
  <1>3. CASE Restart
    BY <1>0, <1>3 DEF Restart, CountInv, CountedOnce, Behind
  <1>4. QED
    BY <1>2, <1>3

\* CountedOnce for any log and any number of truncations, replacements,
\* failed reads and restarts: the bounds of TLC's instance do not matter.
THEOREM CountingIsOnce == Spec => []CountedOnce
  <1>1. TypeOK /\ CountInv /\ [Next]_vars => CountInv'
    <2>1. CASE UNCHANGED vars
      BY <2>1 DEF vars, file, memory, sync, CountInv, CountedOnce, Behind, End, Size
    <2>2. QED
      BY <2>1, CountEnvironment, CountConsume, CountRest DEF Next
  <1>2. CountInv => CountedOnce
    BY DEF CountInv
  <1>3. QED
    BY <1>1, <1>2, CountInit, TypeCorrect, PTL DEF Spec

-----------------------------------------------------------------------------
(* Coverage.  Where the tail of the file can be relied on, every line that *)
(* lies before the reader in it was found.  A reader stands within a line  *)
(* only where the file or its tail begins.                                 *)

Ordered ==
    /\ clock >= 1
    /\ \A n \in 1..Len(log) :
          /\ 1 <= log[n].at /\ log[n].at <= clock
          /\ \A m \in 1..n : log[m].at <= log[n].at

Known == \A i \in IP : ips[i] > 0 => \E n \in 1..Len(log) : log[n].ip = i /\ log[n].at = ips[i]

InFile(n) == 2 * n - 2 >= start /\ 2 * n - 2 >= floor /\ Recent(n)

Found(n) == seen[n] >= 1 /\ ips[log[n].ip] >= log[n].at

Covered(p) ==
    /\ start + p <= End
    /\ p > 0 /\ (start + p) % 2 = 1 => floor >= start + p
    /\ \A n \in 1..Len(log) : InFile(n) /\ 2 * n <= start + p => Found(n)

CoverInv ==
    /\ pc \in {"skip", "read"} => lastInfo = ino /\ upto = 0
    /\ pc = "skip" => offset = 0 /\ pos > 0
    /\ trust = "sure" /\ lastInfo = ino =>
         /\ Covered(offset)
         /\ pc = "skip" => pos <= Size
         /\ pc = "read" => Covered(pos) /\ offset <= pos

\* The log only grows, by a line of the present.
LEMMA LogGrows ==
    ASSUME TypeOK, NEW i \in IP, WriteHalf(i)
    PROVE  /\ Len(log) \in Nat /\ Len(log') = Len(log) + 1 /\ Len(log') \in 1..Len(log')
           /\ \A n \in 1..Len(log) : n \in 1..Len(log') /\ log'[n] = log[n]
           /\ \A n \in 1..Len(log') : n \in 1..Len(log) \/ n = Len(log')
           /\ log'[Len(log')].ip = i /\ log'[Len(log')].at = clock
           /\ End = 2 * Len(log) /\ End' = End + 1
  <1>1. log' = Append(log, [ip |-> i, at |-> clock]) /\ torn' = 1 /\ torn = 0
    BY DEF WriteHalf
  <1>2. log \in Seq([ip : IP, at : Nat]) /\ [ip |-> i, at |-> clock] \in [ip : IP, at : Nat]
    BY DEF TypeOK, FileOK
  <1>3. Len(log) \in Nat /\ Len(log') = Len(log) + 1
    BY <1>1, <1>2, Appended
  <1>4. \A n \in 1..Len(log) : log'[n] = log[n]
    BY <1>1, <1>2
  <1>5. log'[Len(log) + 1].ip = i /\ log'[Len(log) + 1].at = clock
    <2>1. log'[Len(log) + 1] = [ip |-> i, at |-> clock]
      BY <1>1, <1>2
    <2>2. QED
      BY <2>1
  <1>6. End = 2 * Len(log) /\ End' = End + 1
    BY <1>1, <1>3 DEF End
  <1>7. QED
    BY <1>3, <1>4, <1>5, <1>6

LEMMA LogKept == ~(\E i \in IP : WriteHalf(i)) /\ [Next]_vars => log' = log
  BY DEF Next, Consume, Environment, Stat, StatFails, Begin, Skip, Read, Eof, ReadFails,
         Reading, Records, Restart, Tick, WriteRest, Truncate, Replace, file, vars

LEMMA OrderedStep == TypeOK /\ Ordered /\ [Next]_vars => Ordered'
  <1> SUFFICES ASSUME TypeOK, Ordered, [Next]_vars PROVE Ordered'
    OBVIOUS
  <1>1. clock \in Nat /\ clock' \in Nat /\ clock' >= clock
    <2>1. clock \in Nat
      BY DEF TypeOK, FileOK
    <2>2. clock' = clock \/ clock' = clock + 1
      BY DEF Next, Consume, Environment, Stat, StatFails, Begin, Skip, Read, Eof, ReadFails,
             Reading, Records, Restart, Tick, WriteHalf, WriteRest, Truncate, Replace, vars
    <2>3. QED
      BY <2>1, <2>2
  <1>2. CASE log' = log
    <2>1. \A n \in 1..Len(log) : log[n].at \in Nat
      BY Lines
    <2>2. QED
      BY <1>1, <1>2, <2>1 DEF Ordered
  <1>3. ASSUME NEW i \in IP, WriteHalf(i) PROVE Ordered'
    <2>1. /\ Len(log) \in Nat /\ Len(log') = Len(log) + 1
          /\ \A n \in 1..Len(log) : log'[n] = log[n]
          /\ \A n \in 1..Len(log') : n \in 1..Len(log) \/ n = Len(log')
          /\ log'[Len(log')].at = clock
      BY <1>3, LogGrows
    <2>2. clock' = clock /\ clock >= 1
      BY <1>3 DEF WriteHalf, Ordered
    <2>3. ASSUME NEW n \in 1..Len(log')
          PROVE  1 <= log'[n].at /\ log'[n].at <= clock'
      BY <1>1, <2>1, <2>2 DEF Ordered
    <2>4. ASSUME NEW n \in 1..Len(log'), NEW m \in 1..n
          PROVE  log'[m].at <= log'[n].at
      <3>1. m \in 1..Len(log')
        BY <2>1
      <3>2. CASE n = Len(log')
        BY <2>1, <2>2, <2>3, <3>1, <3>2
      <3>3. CASE n \in 1..Len(log)
        <4>1. m \in 1..Len(log)
          BY <2>1, <3>3
        <4>2. QED
          BY <2>1, <3>3, <4>1 DEF Ordered
      <3>4. QED
        BY <2>1, <3>2, <3>3
    <2>5. QED
      BY <2>2, <2>3, <2>4 DEF Ordered
  <1>4. QED
    BY <1>2, <1>3, LogKept

LEMMA KnownStep == TypeOK /\ Known /\ [Next]_vars => Known'
  <1> SUFFICES ASSUME TypeOK, Known, [Next]_vars, NEW i \in IP, ips'[i] > 0
               PROVE  \E n \in 1..Len(log') : log'[n].ip = i /\ log'[n].at = ips'[i]
    BY DEF Known
  <1>0. ips \in [IP -> Nat]
    BY DEF TypeOK, MemoryOK
  <1>1. ASSUME NEW j \in IP, WriteHalf(j)
        PROVE  \E n \in 1..Len(log') : log'[n].ip = i /\ log'[n].at = ips'[i]
    <2>1. ips' = ips
      BY <1>1 DEF WriteHalf, memory
    <2>2. PICK n \in 1..Len(log) : log[n].ip = i /\ log[n].at = ips[i]
      BY <2>1 DEF Known
    <2>3. n \in 1..Len(log') /\ log'[n] = log[n]
      BY <1>1, LogGrows
    <2>4. QED
      BY <2>1, <2>2, <2>3
  <1>2. CASE log' = log /\ ips'[i] = ips[i]
    BY <1>2 DEF Known
  <1>3. CASE Read /\ Here % 2 = 0
    <2>1. Newline \div 2 \in 1..Len(log)
      BY <1>3, NextLine DEF Read
    <2>2. log' = log /\ ips' = [ips EXCEPT ![log[Newline \div 2].ip] = log[Newline \div 2].at]
      BY <1>3 DEF Read, Reading, file
    <2>3. CASE log[Newline \div 2].ip = i
      BY <1>0, <2>1, <2>2, <2>3
    <2>4. CASE log[Newline \div 2].ip # i
      BY <1>0, <1>2, <2>2, <2>4
    <2>5. QED
      BY <2>3, <2>4
  <1>4. CASE Records
    <2>1. ips'[i] = Kept(ips[i])
      BY <1>4 DEF Records
    <2>2. ips'[i] = ips[i]
      BY <2>1 DEF Kept
    <2>3. QED
      BY <1>2, <1>4, <2>2 DEF Records, file
  <1>5. CASE Restart
    BY <1>5 DEF Restart
  <1>6. ASSUME ~Records, ~Restart, ~(Read /\ Here % 2 = 0), ~\E j \in IP : WriteHalf(j)
        PROVE  ips' = ips
    BY <1>6 DEF Next, Consume, Environment, Stat, StatFails, Begin, Skip, Read, Eof,
                ReadFails, Reading, Tick, WriteRest, Truncate, Replace, memory, vars
  <1>7. QED
    BY <1>1, <1>2, <1>3, <1>4, <1>5, <1>6, LogKept

LEMMA CoverInit == Init => CoverInv /\ Ordered /\ Known
  <1> SUFFICES ASSUME Init PROVE CoverInv /\ Ordered /\ Known
    OBVIOUS
  <1>1. Len(log) = 0 /\ End = 0
    BY DEF Init, End
  <1>2. QED
    BY <1>1 DEF Init, CoverInv, Covered, Ordered, Known

\* What was covered stays covered while the file and its reading only go on.
LEMMA CoveredGrows ==
    ASSUME TypeOK, NEW p \in Nat, Covered(p),
           UNCHANGED <<start, floor, ips, seen, now>>,
           UNCHANGED <<log, torn>> \/ WriteRest \/ (\E i \in IP : WriteHalf(i))
    PROVE  Covered(p)'
  <1>1. /\ Len(log) \in Nat /\ start \in Nat /\ floor \in Nat
        /\ End \in Nat /\ End' \in Nat /\ End' >= End
        /\ \A n \in 1..Len(log') : (n \in 1..Len(log) /\ log'[n] = log[n]) \/ 2 * n > End
    <2>1. Len(log) \in Nat /\ End \in Nat /\ start \in Nat /\ floor \in Nat
      BY Ends DEF TypeOK, SyncOK
    <2>2. CASE UNCHANGED <<log, torn>>
      BY <2>1, <2>2 DEF End
    <2>3. CASE WriteRest
      <3>1. log' = log /\ End' = End + 1
        BY <2>1, <2>3 DEF WriteRest, End
      <3>2. QED
        BY <2>1, <3>1
    <2>4. ASSUME NEW i \in IP, WriteHalf(i)
          PROVE  /\ End' \in Nat /\ End' >= End
                 /\ \A n \in 1..Len(log') : (n \in 1..Len(log) /\ log'[n] = log[n]) \/ 2 * n > End
      <3>1. /\ Len(log') = Len(log) + 1 /\ End = 2 * Len(log) /\ End' = End + 1
            /\ \A n \in 1..Len(log) : log'[n] = log[n]
            /\ \A n \in 1..Len(log') : n \in 1..Len(log) \/ n = Len(log')
        BY <2>4, LogGrows
      <3>2. QED
        BY <2>1, <3>1
    <2>5. QED
      BY <2>1, <2>2, <2>3, <2>4
  <1>2. start + p <= End'
    BY <1>1 DEF Covered
  <1>3. ASSUME NEW n \in 1..Len(log'), InFile(n)', 2 * n <= start + p
        PROVE  Found(n)'
    <2>1. n \in 1..Len(log) /\ log'[n] = log[n]
      BY <1>1, <1>3 DEF Covered
    <2>2. InFile(n)
      BY <1>3, <2>1 DEF InFile, Recent
    <2>3. Found(n)
      BY <1>3, <2>1, <2>2 DEF Covered
    <2>4. QED
      BY <2>1, <2>3 DEF Found
  <1>4. QED
    BY <1>1, <1>2, <1>3 DEF Covered

\* Nothing of a file lies before its beginning.
LEMMA CoveredAtStart == TypeOK => Covered(0)
  <1> SUFFICES ASSUME TypeOK PROVE Covered(0)
    OBVIOUS
  <1>1. start \in Nat /\ End \in Nat /\ start <= End
    BY Ends DEF TypeOK, FileOK
  <1>2. ASSUME NEW n \in 1..Len(log), InFile(n) PROVE ~(2 * n <= start + 0)
    BY <1>1, <1>2 DEF InFile
  <1>3. QED
    BY <1>1, <1>2 DEF Covered

LEMMA CoverEnvironment == TypeOK /\ CoverInv /\ Environment => CoverInv'
  <1> SUFFICES ASSUME TypeOK, CoverInv, Environment PROVE CoverInv'
    OBVIOUS
  <1>0. /\ offset \in Nat /\ pos \in Nat /\ TypeOK' /\ lastInfo \in 0..ino /\ ino \in Nat
        /\ End \in Nat /\ start \in Nat /\ Size = End - start
    BY Ends, TypeEnvironment DEF TypeOK, MemoryOK, SyncOK, FileOK, Size
  <1>1. CASE Tick \/ WriteRest \/ (\E i \in IP : WriteHalf(i))
    <2>1. /\ UNCHANGED <<start, floor, ips, seen, now, pc, lastInfo, ino, upto, offset, pos, trust>>
          /\ UNCHANGED <<log, torn>> \/ WriteRest \/ (\E i \in IP : WriteHalf(i))
      BY <1>1 DEF Tick, WriteRest, WriteHalf, file, memory, sync, ghost
    <2>2. \A p \in Nat : Covered(p) => Covered(p)'
      BY <2>1, CoveredGrows
    <2>3. Size' >= Size /\ Size \in Int /\ Size' \in Int
      <3>1. End' \in Nat /\ End' >= End
        <4>1. ASSUME NEW i \in IP, WriteHalf(i) PROVE End' = End + 1
          BY <4>1, LogGrows
        <4>2. WriteRest => End' = End + 1
          BY <1>0, Ends DEF WriteRest, End
        <4>3. Tick => End' = End
          BY DEF Tick, file, End
        <4>4. QED
          BY <1>0, <1>1, <4>1, <4>2, <4>3
      <3>2. Size' = End' - start /\ Size = End - start
        BY <2>1 DEF Size
      <3>3. ASSUME NEW e \in Nat, NEW f \in Nat, NEW b \in Nat, f >= e
            PROVE  f - b >= e - b /\ f - b \in Int /\ e - b \in Int
        BY <3>3
      <3>4. QED
        BY <1>0, <3>1, <3>2, <3>3
    <2>4. ASSUME trust = "sure", lastInfo = ino
          PROVE  /\ Covered(offset)'
                 /\ pc = "skip" => pos <= Size'
                 /\ pc = "read" => Covered(pos)' /\ offset <= pos
      <3>1. /\ Covered(offset)
            /\ pc = "skip" => pos <= Size
            /\ pc = "read" => Covered(pos) /\ offset <= pos
        BY <2>4 DEF CoverInv
      <3>2. pc = "skip" => pos <= Size'
        BY <1>0, <2>3, <3>1
      <3>3. Covered(offset)'
        BY <1>0, <2>1, <2>2, <3>1 DEF Covered
      <3>4. pc = "read" => Covered(pos)'
        BY <1>0, <2>1, <2>2, <3>1 DEF Covered
      <3>5. QED
        BY <3>1, <3>2, <3>3, <3>4
    <2>5. /\ pc' \in {"skip", "read"} => lastInfo' = ino' /\ upto' = 0
          /\ pc' = "skip" => offset' = 0 /\ pos' > 0
      BY <2>1 DEF CoverInv
    <2>6. QED
      BY <2>1, <2>4, <2>5 DEF CoverInv
  <1>2. CASE Truncate
    <2>1. /\ UNCHANGED <<floor, ips, seen, now, pc, lastInfo, ino, upto, offset, pos>>
          /\ trust' = "sure" => /\ trust = "sure"
                                /\ pc \in {"skip", "read"} => pos = 0
                                /\ pc \notin {"skip", "read"} => offset = 0
      BY <1>0, <1>2 DEF Truncate, memory, sync
    <2>2. Covered(0)'
      BY <1>0, CoveredAtStart, PTL
    <2>3. QED
      BY <1>0, <2>1, <2>2 DEF CoverInv, Covered
  <1>3. CASE Replace
    <2>1. lastInfo' # ino' /\ pc' = "idle"
      BY <1>0, <1>3 DEF Replace, memory, sync
    <2>2. QED
      BY <2>1 DEF CoverInv
  <1>4. QED
    BY <1>1, <1>2, <1>3 DEF Environment

\* Time passes, and fewer lines are of the window.
LEMMA CoveredLater ==
    ASSUME TypeOK, NEW p \in Nat, Covered(p), UNCHANGED file,
           UNCHANGED <<floor, ips, seen>>, now' \in Nat, now' >= now
    PROVE  Covered(p)'
  <1>1. End' = End /\ log' = log /\ start' = start /\ now \in Int
    BY EndKept DEF file, TypeOK, SyncOK
  <1>2. ASSUME NEW n \in 1..Len(log), InFile(n)' PROVE InFile(n)
    <2>1. log[n].at \in Nat
      BY Lines
    <2>2. log[n].at >= now' - Window
      BY <1>1, <1>2 DEF InFile, Recent
    <2>3. log[n].at >= now - Window
      BY <1>1, <2>1, <2>2, WindowAssumption
    <2>4. QED
      BY <1>1, <1>2, <2>3 DEF InFile, Recent
  <1>3. \A n \in 1..Len(log) : Found(n) => Found(n)'
    BY <1>1 DEF Found
  <1>4. QED
    BY <1>1, <1>2, <1>3 DEF Covered

\* The reader takes in the line it stands before.
LEMMA CoveredByRead ==
    ASSUME TypeOK, TypeOK', Ordered, Covered(pos), Read
    PROVE  /\ Covered(pos)'
           /\ \A n \in 1..Len(log) : InFile(n)' /\ 2 * n <= Newline => Found(n)'
  <1>0. /\ start \in Nat /\ pos \in Nat /\ floor \in Nat /\ End \in Nat /\ Len(log) \in Nat
        /\ Here = start + pos /\ Here \in Nat /\ Newline \in Nat /\ Newline > Here
        /\ Newline % 2 = 0
        /\ ips \in [IP -> Nat] /\ seen \in [1..MaxLines -> Nat]
    BY Ends, Positions DEF TypeOK, SyncOK, MemoryOK
  <1>1. /\ UNCHANGED file /\ floor' = floor /\ now' = now /\ Newline <= End
        /\ pos' = Newline - start /\ log' = log /\ start' = start /\ End' = End
    BY EndKept DEF Read, Reading, file
  <1>2. start + pos' = Newline
    BY <1>0, <1>1
  <1>3. \A n \in 1..Len(log) : InFile(n)' <=> InFile(n)
    BY <1>1 DEF InFile, Recent
  <1>4. ASSUME NEW n \in 1..Len(log), InFile(n), 2 * n <= Newline
        PROVE  Found(n)'
    <2>0. log[n].ip \in IP /\ log[n].at \in Nat /\ n \in 1..MaxLines
      BY Lines
    <2>1. CASE Here % 2 = 0
      <3> DEFINE k == Newline \div 2
      <3>1. k \in 1..Len(log) /\ 2 * k = Newline /\ Newline = Here + 2
        BY <1>1, <2>1, NextLine
      <3>2. log[k].ip \in IP /\ log[k].at \in Nat /\ k \in 1..MaxLines
        BY <3>1, Lines
      <3>3. ips' = [ips EXCEPT ![log[k].ip] = log[k].at] /\ seen' = [seen EXCEPT ![k] = @ + 1]
        BY <2>1 DEF Read
      <3>4. CASE n = k
        <4>1. seen'[k] = seen[k] + 1 /\ ips'[log[k].ip] = log[k].at
          BY <1>0, <3>2, <3>3
        <4>2. QED
          BY <1>0, <1>1, <3>2, <3>4, <4>1 DEF Found
      <3>5. CASE n # k
        <4>1. 2 * n <= Here /\ n \in 1..k
          BY <1>0, <1>4, <3>1, <3>5
        <4>2. seen[n] >= 1 /\ ips[log[n].ip] >= log[n].at
          BY <1>0, <1>4, <4>1 DEF Covered, Found
        <4>3. seen'[n] >= 1
          BY <1>0, <2>0, <3>2, <3>3, <3>5, <4>2
        <4>4. log[n].at <= log[k].at
          BY <3>1, <4>1 DEF Ordered
        <4>5. ips'[log[n].ip] >= log[n].at
          BY <1>0, <2>0, <3>2, <3>3, <4>2, <4>4
        <4>6. QED
          BY <1>1, <4>3, <4>5 DEF Found
      <3>6. QED
        BY <3>4, <3>5
    <2>2. CASE Here % 2 # 0
      <3>1. UNCHANGED <<ips, seen>> /\ Newline = Here + 1 /\ Here % 2 = 1
        BY <1>0, <2>2 DEF Read, Newline
      <3>2. 2 * n - 2 >= Here
        <4>1. CASE pos = 0
          BY <1>0, <1>4, <4>1 DEF InFile
        <4>2. CASE pos # 0
          <5>1. floor >= Here
            BY <1>0, <3>1, <4>2 DEF Covered
          <5>2. QED
            BY <1>0, <1>4, <5>1 DEF InFile
        <4>3. QED
          BY <4>1, <4>2
      <3>3. QED
        BY <1>0, <1>4, <3>1, <3>2
    <2>3. QED
      BY <2>1, <2>2
  <1>5. QED
    BY <1>0, <1>1, <1>2, <1>3, <1>4 DEF Covered

LEMMA CoverConsume == TypeOK /\ Ordered /\ CoverInv /\ Consume => CoverInv'
  <1> SUFFICES ASSUME TypeOK, Ordered, CoverInv, Consume PROVE CoverInv'
    OBVIOUS
  <1>0. /\ offset \in Nat /\ pos \in Nat /\ TypeOK' /\ lastInfo \in 0..ino /\ ino \in Nat \ {0}
        /\ End \in Nat /\ start \in Nat /\ Size = End - start /\ start <= End /\ Size \in Nat
        /\ Here = start + pos /\ Newline \in Nat /\ Newline > Here
        /\ now \in Nat /\ clock \in Nat /\ clock >= now
        /\ lastInfo = 0 => offset = 0
    <2>1. TypeOK'
      BY TypeConsume
    <2>2. FileOK /\ MemoryOK /\ SyncOK
      BY DEF TypeOK
    <2>3. offset \in Nat /\ lastInfo \in 0..ino /\ (lastInfo = 0 => offset = 0)
      BY <2>2 DEF MemoryOK
    <2>4. ino \in Nat \ {0} /\ start \in 0..End /\ clock \in Nat
      BY <2>2 DEF FileOK
    <2>5. now \in 0..clock /\ pos \in Nat
      BY <2>2 DEF SyncOK
    <2>6. QED
      BY <2>1, <2>3, <2>4, <2>5, Ends DEF Size
  <1>c. Covered(0)'
    BY <1>0, CoveredAtStart, PTL
  <1>s. UNCHANGED file => Size' = Size /\ End' = End /\ start' = start /\ ino' = ino
    BY DEF Size, End, file
  <1>1. CASE Stat
    <2>1. /\ UNCHANGED file /\ UNCHANGED <<ips, seen>> /\ lastInfo' = ino /\ upto' = 0
          /\ now' = clock
      BY <1>1 DEF Stat, Begin
    <2>2. CASE Fresh \/ offset = 0
      <3>1. /\ offset' = 0
            /\ pos' = IF Size > MaxTail THEN Size - MaxTail ELSE 0
            /\ pc' = IF Size > MaxTail THEN "skip" ELSE "read"
        BY <1>1, <2>2 DEF Stat
      <3>2. pc' = "skip" => 0 < pos' /\ pos' <= Size'
        BY <1>0, <1>s, <2>1, <3>1, TailAssumption
      <3>3. Covered(offset)' /\ (pc' = "read" => pos' = 0 /\ Covered(pos)')
        BY <1>c, <3>1 DEF Covered
      <3>4. pc' = "read" => offset' <= pos'
        BY <3>1, <3>3
      <3>5. pc' = "skip" => offset' = 0 /\ pos' > 0
        BY <3>1, <3>2
      <3>6. QED
        BY <1>s, <2>1, <3>2, <3>3, <3>4, <3>5 DEF CoverInv
    <2>3. CASE ~(Fresh \/ offset = 0)
      <3>1. offset' = offset /\ pos' = offset /\ pc' = "read" /\ floor' = floor
        BY <1>0, <1>1, <2>3 DEF Stat
      <3>2. lastInfo = ino /\ (trust' = "sure" => trust = "sure")
        BY <1>0, <1>1, <2>3 DEF Stat, Fresh
      <3>3. trust' = "sure" => Covered(offset)
        BY <3>2 DEF CoverInv
      <3>4. ASSUME trust' = "sure" PROVE Covered(offset)' /\ Covered(pos)'
        <4>1. Covered(offset)
          BY <3>3, <3>4
        <4>2. \A p \in Nat : Covered(p) => Covered(p)'
          BY <1>0, <2>1, <3>1, CoveredLater
        <4>3. QED
          BY <1>0, <3>1, <4>1, <4>2 DEF Covered
      <3>5. QED
        BY <1>0, <1>s, <2>1, <3>1, <3>4 DEF CoverInv
    <2>4. QED
      BY <2>2, <2>3
  <1>2. CASE StatFails
    <2>1. /\ UNCHANGED file /\ UNCHANGED <<ips, seen, floor, offset, lastInfo, trust>>
          /\ now' = clock /\ pc' = "records" /\ ino' = ino
      BY <1>2, <1>s DEF StatFails, Begin, memory
    <2>2. \A p \in Nat : Covered(p) => Covered(p)'
      BY <1>0, <2>1, CoveredLater
    <2>3. trust' = "sure" /\ lastInfo' = ino' => Covered(offset)'
      <3>1. SUFFICES ASSUME trust = "sure", lastInfo = ino PROVE Covered(offset)'
        BY <2>1
      <3>2. Covered(offset)
        BY <3>1 DEF CoverInv
      <3>3. QED
        BY <1>0, <2>1, <2>2, <3>2 DEF Covered
    <2>4. QED
      BY <2>1, <2>3 DEF CoverInv
  <1>3. CASE Skip
    <2>1. /\ UNCHANGED file /\ lastInfo' = lastInfo /\ trust' = trust /\ offset' = offset
          /\ pc' = "read" /\ pc = "skip" /\ floor' = start + pos' /\ upto' = upto
          /\ pos' = IF Newline <= End THEN Newline - start ELSE Larger(pos, Size)
      BY <1>3 DEF Skip, Reading
    <2>2. lastInfo = ino /\ upto = 0 /\ offset = 0
      BY <2>1 DEF CoverInv
    <2>3. Covered(offset)'
      BY <1>c, <2>1, <2>2 DEF Covered
    <2>4. pos' \in Nat
      BY <1>0 DEF TypeOK, SyncOK
    <2>5. ASSUME trust = "sure" PROVE Covered(pos)'
      <3>1. pos <= Size
        BY <2>1, <2>2, <2>5 DEF CoverInv
      <3>2. start + pos' <= End
        BY <1>0, <2>1, <3>1 DEF Larger
      <3>3. ASSUME NEW n \in 1..Len(log'), InFile(n)' PROVE ~(2 * n <= start' + pos')
        BY <1>0, <1>s, <2>1, <2>4, <3>3 DEF InFile
      <3>4. start' + pos' <= End' /\ floor' = start' + pos'
        BY <1>s, <2>1, <3>2
      <3>5. QED
        BY <1>0, <1>s, <2>1, <2>4, <3>3, <3>4 DEF Covered
    <2>6. QED
      BY <1>s, <2>1, <2>2, <2>3, <2>4, <2>5 DEF CoverInv
  <1>4. CASE Read
    <2>1. /\ UNCHANGED file /\ lastInfo' = lastInfo /\ trust' = trust /\ offset' = offset
          /\ pc' = "read" /\ pc = "read" /\ upto' = upto /\ floor' = floor
          /\ pos' = Newline - start /\ log' = log
      BY <1>4 DEF Read, Reading, file
    <2>2. lastInfo = ino /\ upto = 0
      BY <2>1 DEF CoverInv
    <2>3. ASSUME trust = "sure" PROVE Covered(pos)' /\ Covered(offset)' /\ offset' <= pos'
      <3>1. Covered(pos) /\ Covered(offset) /\ offset <= pos
        BY <2>1, <2>2, <2>3 DEF CoverInv
      <3>2. /\ Covered(pos)'
            /\ \A n \in 1..Len(log) : InFile(n)' /\ 2 * n <= Newline => Found(n)'
        BY <1>0, <1>4, <3>1, CoveredByRead
      <3>3. offset <= pos' /\ start + offset <= Newline
        BY <1>0, <2>1, <3>1
      <3>4. ASSUME NEW n \in 1..Len(log), InFile(n)', 2 * n <= start + offset PROVE Found(n)'
        BY <1>0, <3>2, <3>3, <3>4
      <3>5. Covered(offset)'
        BY <1>0, <1>s, <2>1, <3>1, <3>4 DEF Covered
      <3>6. QED
        BY <2>1, <3>2, <3>3, <3>5
    <2>4. QED
      BY <1>s, <2>1, <2>2, <2>3 DEF CoverInv
  <1>5. CASE Eof
    <2>1. /\ UNCHANGED file /\ UNCHANGED <<lastInfo, trust, ips, seen, floor, now>>
          /\ offset' = pos /\ pc' = "records" /\ pc = "read"
      BY <1>5 DEF Eof, Reading
    <2>2. \A p \in Nat : Covered(p) => Covered(p)'
      BY <1>0, <2>1, CoveredLater
    <2>3. trust = "sure" /\ lastInfo = ino => Covered(pos)
      BY <2>1 DEF CoverInv
    <2>4. trust' = "sure" /\ lastInfo' = ino' => Covered(offset)'
      BY <1>0, <1>s, <2>1, <2>2, <2>3 DEF Covered
    <2>5. QED
      BY <2>1, <2>4 DEF CoverInv
  <1>6. CASE ReadFails
    <2>1. /\ UNCHANGED file /\ UNCHANGED <<lastInfo, trust, ips, seen, floor, now, offset>>
          /\ pc' = "records"
      BY <1>6 DEF ReadFails, Reading
    <2>2. \A p \in Nat : Covered(p) => Covered(p)'
      BY <1>0, <2>1, CoveredLater
    <2>3. trust = "sure" /\ lastInfo = ino => Covered(offset)
      BY DEF CoverInv
    <2>4. trust' = "sure" /\ lastInfo' = ino' => Covered(offset)'
      BY <1>0, <1>s, <2>1, <2>2, <2>3 DEF Covered
    <2>5. QED
      BY <2>1, <2>4 DEF CoverInv
  <1>7. QED
    BY <1>1, <1>2, <1>3, <1>4, <1>5, <1>6 DEF Consume

LEMMA CoverRest == TypeOK /\ CoverInv /\ (Records \/ Restart) => CoverInv'
  <1> SUFFICES ASSUME TypeOK, CoverInv, Records \/ Restart PROVE CoverInv'
    OBVIOUS
  <1>0. /\ offset \in Nat /\ lastInfo \in 0..ino /\ ino \in Nat \ {0} /\ now \in Nat
        /\ ips \in [IP -> Nat] /\ seen \in [1..MaxLines -> Nat]
    BY DEF TypeOK, MemoryOK, FileOK, SyncOK
  <1>1. CASE Records
    <2>1. /\ UNCHANGED file /\ UNCHANGED <<offset, lastInfo, now, trust, floor>>
          /\ pc' = "idle" /\ log' = log /\ ino' = ino /\ start' = start /\ End' = End
          /\ ips' = [i \in IP |-> Kept(ips[i])]
          /\ seen' = [n \in 1..MaxLines |-> IF n <= Len(log) /\ Recent(n) THEN seen[n] ELSE 0]
      BY <1>1, EndKept DEF Records, ghost, file
    <2>2. \A n \in 1..Len(log) : InFile(n)' <=> InFile(n)
      BY <2>1 DEF InFile, Recent
    <2>3. ASSUME NEW n \in 1..Len(log), InFile(n), Found(n) PROVE Found(n)'
      <3>1. log[n].ip \in IP /\ log[n].at \in Nat /\ n \in 1..MaxLines /\ n <= Len(log)
        BY Lines, Ends
      <3>2. seen'[n] = seen[n]
        BY <2>1, <2>3, <3>1 DEF InFile
      <3>3. ips[log[n].ip] >= log[n].at /\ log[n].at >= now - Window
        BY <2>3 DEF InFile, Found, Recent
      <3>4. ips'[log[n].ip] = ips[log[n].ip]
        BY <1>0, <2>1, <3>1, <3>3, WindowAssumption DEF Kept
      <3>5. QED
        BY <2>1, <2>3, <3>2, <3>4 DEF Found
    <2>4. ASSUME trust = "sure", lastInfo = ino PROVE Covered(offset)'
      <3>1. Covered(offset)
        BY <2>4 DEF CoverInv
      <3>2. QED
        BY <2>1, <2>2, <2>3, <3>1 DEF Covered
    <2>5. QED
      BY <2>1, <2>4 DEF CoverInv
  <1>2. CASE Restart
    BY <1>0, <1>2 DEF Restart, CoverInv, file
  <1>3. QED
    BY <1>1, <1>2

LEMMA CoverStep == TypeOK /\ Ordered /\ CoverInv /\ [Next]_vars => CoverInv'
  <1> SUFFICES ASSUME TypeOK, Ordered, CoverInv, [Next]_vars PROVE CoverInv'
    OBVIOUS
  <1>1. CASE UNCHANGED vars
    BY <1>1 DEF vars, file, memory, sync, ghost, CoverInv, Covered, InFile, Found, Recent,
                End, Size
  <1>2. QED
    BY <1>1, CoverEnvironment, CoverConsume, CoverRest DEF Next

-----------------------------------------------------------------------------
(* What follows for the records                                            *)

\* Nothing joins what the last reading held.
LEMMA HeldKept ==
    ASSUME TypeOK, Environment, NEW n \in 1..Len(log'), Held(n)'
    PROVE  /\ n \in 1..Len(log) /\ log'[n] = log[n] /\ Held(n)
           /\ UNCHANGED <<ips, seen, now, pc, upto>>
  <1>1. /\ start \in Nat /\ End \in Nat /\ start <= End /\ upto \in 0..End
        /\ UNCHANGED <<ips, seen, now, pc, upto, floor>>
        /\ start' = start \/ start' = End
    <2>1. start \in 0..End /\ upto \in 0..End /\ End \in Nat
      BY Ends DEF TypeOK, FileOK, SyncOK
    <2>2. /\ UNCHANGED <<ips, seen, now, pc, upto, floor>>
          /\ start' = start \/ start' = End
      BY DEF Environment, Tick, WriteHalf, WriteRest, Truncate, Replace, file, memory, sync,
             ghost
    <2>3. QED
      BY <2>1, <2>2
  <1>2. n \in 1..Len(log) /\ log'[n] = log[n]
    <2>1. ASSUME NEW i \in IP, WriteHalf(i) PROVE n \in 1..Len(log) /\ log'[n] = log[n]
      <3>1. /\ Len(log') = Len(log) + 1 /\ End = 2 * Len(log) /\ Len(log) \in Nat
            /\ \A m \in 1..Len(log) : log'[m] = log[m]
            /\ n \in 1..Len(log) \/ n = Len(log')
        BY <2>1, LogGrows
      <3>2. 2 * n <= upto
        BY <1>1 DEF Held
      <3>3. QED
        BY <1>1, <3>1, <3>2
    <2>2. ASSUME ~\E i \in IP : WriteHalf(i) PROVE log' = log
      BY <2>2 DEF Environment, Tick, WriteRest, Truncate, Replace, file
    <2>3. QED
      BY <2>1, <2>2
  <1>3. 2 * n - 2 >= start
    BY <1>1 DEF Held
  <1>4. QED
    BY <1>1, <1>2, <1>3 DEF Held, Recent

LEMMA SkippedStep == TypeOK /\ CoverInv /\ NothingSkipped /\ [Next]_vars => NothingSkipped'
  <1> SUFFICES ASSUME TypeOK, CoverInv, NothingSkipped, [Next]_vars,
                      pc' = "records", Trusted', NEW n \in 1..Len(log'), Held(n)'
               PROVE  seen'[n] >= 1 /\ ips'[log'[n].ip] >= log'[n].at
    BY DEF NothingSkipped
  <1>1. CASE Eof
    <2>1. /\ UNCHANGED file /\ UNCHANGED <<ips, seen, floor, now, trust>>
          /\ Newline > End /\ upto' = End /\ pc = "read" /\ log' = log /\ start' = start
      BY <1>1 DEF Eof, Reading, file
    <2>2. Covered(pos)
      BY <2>1 DEF CoverInv, Trusted
    <2>3. InFile(n) /\ 2 * n <= End
      BY <2>1 DEF Held, InFile, Recent
    <2>4. 2 * n <= start + pos
      <3>1. /\ Here \in Nat /\ Here = start + pos /\ n \in Nat /\ End \in Nat
            /\ Newline \in Nat
        BY <2>1, Ends
      <3>2. CASE Here % 2 = 0
        <4>1. Newline = Here + 2
          BY <3>2 DEF Newline
        <4>2. QED
          BY <2>1, <2>3, <3>1, <3>2, <4>1
      <3>3. CASE Here % 2 # 0
        <4>1. Newline = Here + 1
          BY <3>3 DEF Newline
        <4>2. QED
          BY <2>1, <2>3, <3>1, <4>1
      <3>4. QED
        BY <3>2, <3>3
    <2>5. QED
      BY <2>1, <2>2, <2>3, <2>4 DEF Covered, Found
  <1>2. CASE Environment
    BY <1>2, HeldKept DEF NothingSkipped, Trusted, Environment, Tick, WriteHalf, WriteRest,
                          Truncate, Replace, ghost
  <1>3. CASE StatFails
    BY <1>3 DEF StatFails, Trusted
  <1>4. CASE ReadFails
    BY <1>4 DEF ReadFails, CoverInv, Trusted
  <1>5. CASE UNCHANGED vars
    BY <1>5 DEF vars, file, memory, sync, ghost, NothingSkipped, Trusted, Held, Recent
  <1>6. QED
    <2>1. ~Stat /\ ~Skip /\ ~Read /\ ~Records /\ ~Restart
      BY DEF Stat, Skip, Read, Records, Restart
    <2>2. QED
      BY <1>1, <1>2, <1>3, <1>4, <1>5, <2>1 DEF Next, Consume

LEMMA Countable == TypeOK => IsFiniteSet({m \in 1..Len(log) : Held(m)})
  <1> SUFFICES ASSUME TypeOK PROVE IsFiniteSet({m \in 1..Len(log) : Held(m)})
    OBVIOUS
  <1>1. Len(log) \in Int /\ 1 \in Int
    BY Ends
  <1>2. IsFiniteSet(1..Len(log))
    BY <1>1, FS_Interval
  <1>3. QED
    BY <1>2, FS_Subset

\* Lines of the window that were found are counted, each at least once.
LEMMA FoundAreCounted ==
    ASSUME TypeOK, NEW S \in SUBSET (1..Len(log)),
           \A n \in S : Recent(n) /\ seen[n] >= 1
    PROVE  Cardinality(S) <= Connections
  <1> DEFINE R == {m \in 1..Len(log) : Recent(m)}
             C == {{n} \X (1..seen[n]) : n \in R}
  <1>1. seen \in [1..MaxLines -> Nat] /\ Len(log) \in Nat /\ Len(log) <= MaxLines
    BY Ends DEF TypeOK, MemoryOK, FileOK
  <1>2. IsFiniteSet(UNION C)
    BY <1>1, LinesCounted
  <1>3. [n \in S |-> <<n, 1>>] \in Injection(S, UNION C)
    <2> DEFINE f == [n \in S |-> <<n, 1>>]
    <2>1. ASSUME NEW n \in S PROVE f[n] \in UNION C
      <3>1. n \in R /\ seen[n] \in Nat /\ seen[n] >= 1
        BY <1>1
      <3>2. <<n, 1>> \in {n} \X (1..seen[n])
        BY <3>1
      <3>3. QED
        BY <3>1, <3>2
    <2>2. ASSUME NEW n \in S, NEW m \in S, f[n] = f[m] PROVE n = m
      BY <2>2
    <2>3. f \in [S -> UNION C]
      BY <2>1
    <2>4. QED
      BY <2>2, <2>3 DEF Injection, IsInjective
  <1>4. QED
    BY <1>2, <1>3, FS_Injection DEF Connections

LEMMA WindowRecords ==
    TypeOK /\ Ordered /\ Known /\ NothingSkipped /\ Records => ReportsWindow'
  <1> SUFFICES ASSUME TypeOK, Ordered, Known, NothingSkipped, Records PROVE ReportsWindow'
    OBVIOUS
  <1>1. /\ pc = "records" /\ log' = log
        /\ UNCHANGED <<start, floor, upto, now, trust>>
    BY DEF Records, file, ghost
  <1>2. /\ Trusted' <=> Trusted
        /\ \A n : Recent(n)' <=> Recent(n)
        /\ \A n : Held(n)' <=> Held(n)
    BY <1>1 DEF Trusted, Held, Recent
  <1>3. /\ judged' \subseteq reported'.ips
        /\ reported'.source = "access-log" =>
             reported'.ips = Listed /\ reported'.recent = Connections
    BY DEF Records, FromLog, Merged
  <1>4. \A i \in Listed : \E n \in 1..Len(log) : log[n].ip = i /\ Recent(n)
    <2>1. SUFFICES ASSUME NEW i \in IP, Kept(ips[i]) > 0
                   PROVE  \E n \in 1..Len(log) : log[n].ip = i /\ Recent(n)
      BY DEF Listed
    <2>2. ips[i] \in Nat /\ now \in Int /\ Window \in Int
      BY WindowAssumption DEF TypeOK, MemoryOK, SyncOK
    <2>3. ips[i] > 0 /\ ips[i] >= now - Window
      BY <2>1, <2>2 DEF Kept
    <2>4. PICK n \in 1..Len(log) : log[n].ip = i /\ log[n].at = ips[i]
      BY <2>3 DEF Known
    <2>5. QED
      BY <2>3, <2>4 DEF Recent
  <1>5. ASSUME Trusted, NEW n \in 1..Len(log), Held(n)
        PROVE  seen[n] >= 1 /\ log[n].ip \in Listed
    <2>1. seen[n] >= 1 /\ ips[log[n].ip] >= log[n].at /\ log[n].at >= now - Window
      BY <1>1, <1>5 DEF NothingSkipped, Held, Recent
    <2>2. log[n].ip \in IP /\ log[n].at \in Nat /\ log[n].at >= 1
      BY Lines DEF Ordered
    <2>3. ips[log[n].ip] \in Nat /\ now \in Int /\ Window \in Int
      BY <2>2, WindowAssumption DEF TypeOK, MemoryOK, SyncOK
    <2>4. Kept(ips[log[n].ip]) > 0
      BY <2>1, <2>2, <2>3 DEF Kept
    <2>5. QED
      BY <2>1, <2>2, <2>4 DEF Listed
  <1>6. Trusted => Cardinality({m \in 1..Len(log) : Held(m)}) <= Connections
    <2>1. SUFFICES ASSUME Trusted
                   PROVE  Cardinality({m \in 1..Len(log) : Held(m)}) <= Connections
      OBVIOUS
    <2>2. \A n \in {m \in 1..Len(log) : Held(m)} : Recent(n) /\ seen[n] >= 1
      BY <1>5, <2>1 DEF Held
    <2>3. QED
      BY <2>2, FoundAreCounted
  <1>7. QED
    BY <1>1, <1>2, <1>3, <1>4, <1>5, <1>6 DEF ReportsWindow

LEMMA WindowEnvironment == TypeOK /\ ReportsWindow /\ Environment => ReportsWindow'
  <1> SUFFICES ASSUME TypeOK, ReportsWindow, Environment PROVE ReportsWindow'
    OBVIOUS
  <1>1. /\ UNCHANGED <<judged, reported, pc, now>> /\ (Trusted' => Trusted)
    BY DEF Environment, Tick, WriteHalf, WriteRest, Truncate, Replace, sync, ghost, Trusted
  <1>2. ASSUME NEW n \in 1..Len(log) PROVE n \in 1..Len(log') /\ log'[n] = log[n]
    <2>1. ASSUME NEW i \in IP, WriteHalf(i) PROVE n \in 1..Len(log') /\ log'[n] = log[n]
      BY <2>1, LogGrows
    <2>2. ASSUME ~\E i \in IP : WriteHalf(i) PROVE log' = log
      BY <2>2 DEF Environment, Tick, WriteRest, Truncate, Replace, file
    <2>3. QED
      BY <2>1, <2>2
  <1> DEFINE H == {m \in 1..Len(log) : Held(m)}
             G == {m \in 1..Len(log') : Held(m)'}
  <1>3. \A m \in G : m \in H /\ log'[m] = log[m]
    BY HeldKept
  <1>4. judged' \subseteq reported'.ips
    BY <1>1 DEF ReportsWindow
  <1>5. ASSUME pc = "idle", reported.source = "access-log"
        PROVE  /\ \A i \in reported.ips : \E n \in 1..Len(log') : log'[n].ip = i /\ Recent(n)'
               /\ Trusted' => /\ {log'[n].ip : n \in G} \subseteq reported.ips
                             /\ Cardinality(G) <= reported.recent
    <2>1. ASSUME NEW i \in reported.ips
          PROVE  \E n \in 1..Len(log') : log'[n].ip = i /\ Recent(n)'
      <3>1. PICK n \in 1..Len(log) : log[n].ip = i /\ Recent(n)
        BY <1>5 DEF ReportsWindow
      <3>2. QED
        BY <1>1, <1>2, <3>1 DEF Recent
    <2>2. ASSUME Trusted' PROVE {log'[n].ip : n \in G} \subseteq reported.ips
      <3>1. {log[n].ip : n \in H} \subseteq reported.ips
        BY <1>1, <1>5, <2>2 DEF ReportsWindow
      <3>2. QED
        BY <1>3, <3>1
    <2>3. ASSUME Trusted' PROVE Cardinality(G) <= reported.recent
      <3>1. Cardinality(H) <= reported.recent
        BY <1>1, <1>5, <2>3 DEF ReportsWindow
      <3>2. Cardinality(G) <= Cardinality(H) /\ IsFiniteSet(G) /\ IsFiniteSet(H)
        BY <1>3, Countable, FS_Subset
      <3>3. Cardinality(G) \in Nat /\ Cardinality(H) \in Nat /\ reported.recent \in Nat
        BY <3>2, FS_CardinalityType DEF TypeOK, SyncOK
      <3>4. QED
        BY <3>1, <3>2, <3>3
    <2>4. QED
      BY <2>1, <2>2, <2>3
  <1>6. QED
    BY <1>1, <1>4, <1>5 DEF ReportsWindow

LEMMA WindowStep ==
    TypeOK /\ Ordered /\ Known /\ NothingSkipped /\ ReportsWindow /\ [Next]_vars
      => ReportsWindow'
  <1> SUFFICES ASSUME TypeOK, Ordered, Known, NothingSkipped, ReportsWindow, [Next]_vars
               PROVE  ReportsWindow'
    OBVIOUS
  <1>1. CASE Stat \/ StatFails
    <2>1. judged' = {} /\ pc' # "idle"
      BY <1>1 DEF Stat, StatFails, Begin
    <2>2. QED
      BY <2>1 DEF ReportsWindow
  <1>2. CASE Skip \/ Read \/ Eof \/ ReadFails
    <2>1. judged' = judged /\ reported' = reported /\ pc' # "idle"
      BY <1>2 DEF Skip, Read, Eof, ReadFails, Reading
    <2>2. QED
      BY <2>1 DEF ReportsWindow
  <1>3. CASE Restart
    BY <1>3 DEF Restart, ReportsWindow, NoRecord, Trusted
  <1>4. CASE UNCHANGED vars
    BY <1>4 DEF vars, file, memory, sync, ghost, ReportsWindow, Trusted, Held, Recent
  <1>5. QED
    BY <1>1, <1>2, <1>3, <1>4, WindowRecords, WindowEnvironment DEF Next, Consume

LEMMA WindowInit == Init => NothingSkipped /\ ReportsWindow
  <1> SUFFICES ASSUME Init PROVE NothingSkipped /\ ReportsWindow
    OBVIOUS
  <1>1. pc = "idle" /\ judged = {} /\ reported.ips = {} /\ upto = 0
    BY DEF Init, NoRecord
  <1>2. QED
    BY <1>1 DEF NothingSkipped, ReportsWindow, Trusted

\* Ordered, Known and CoverInv together, for every reachable state.
LEMMA CoverIsKept == Spec => [](Ordered /\ Known /\ CoverInv)
  <1>1. TypeOK /\ (Ordered /\ Known /\ CoverInv) /\ [Next]_vars
          => (Ordered /\ Known /\ CoverInv)'
    BY OrderedStep, KnownStep, CoverStep
  <1>2. QED
    BY <1>1, CoverInit, TypeCorrect, PTL DEF Spec

\* NothingSkipped for any log, tail, window and number of faults: a reading to
\* the end finds every complete line of the file that lies in the window,
\* behind a tail, and not behind a truncation it could not notice
\* (ConsumeFile).
THEOREM ReadingIsComplete == Spec => []NothingSkipped
  <1>1. TypeOK /\ CoverInv /\ NothingSkipped /\ [Next]_vars => NothingSkipped'
    BY SkippedStep
  <1>2. QED
    BY <1>1, WindowInit, TypeCorrect, CoverIsKept, PTL DEF Spec

\* ReportsWindow for the same: what a report from the log shows is of the
\* window, and it lacks nothing that the last reading found (sessionSnapshot,
\* mergeSessionReports, Records).
THEOREM ReportsAreOfWindow == Spec => []ReportsWindow
  <1>1. TypeOK /\ Ordered /\ Known /\ NothingSkipped /\ ReportsWindow /\ [Next]_vars
          => ReportsWindow'
    BY WindowStep
  <1>2. QED
    BY <1>1, WindowInit, TypeCorrect, CoverIsKept, ReadingIsComplete, PTL DEF Spec
=============================================================================
