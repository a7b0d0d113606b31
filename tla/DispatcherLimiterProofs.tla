------------------------ MODULE DispatcherLimiterProofs ------------------------
(***************************************************************************)
(* Proofs about DispatcherLimiter, for every number of connections,        *)
(* addresses, policies, files and failed reads.                            *)
(***************************************************************************)
EXTENDS DispatcherLimiter, FiniteSetTheorems, SequenceTheorems, TLAPS

-----------------------------------------------------------------------------
(* The operators of the model                                              *)

LEMMA NoPolicyType == NoPolicy \in Policy
  BY DEF NoPolicy, Policy

LEMMA EffectiveType == \A e \in Entry : Effective(e) \in Policy
  BY NoPolicyType DEF Effective, Entry

LEMMA OlderType == \A e \in Entry : Older(e) \in Entry
  <1> SUFFICES ASSUME NEW e \in Entry, e # None, e.tomb > 1
               PROVE  Older(e) \in Policy
    BY DEF Older, Entry
  <1>1. e \in Policy /\ Older(e) = [e EXCEPT !.tomb = e.tomb - 1]
    BY DEF Older, Entry
  <1>2. e.tomb - 1 \in Nat
    BY <1>1 DEF Policy
  <1> QED
    BY <1>1, <1>2 DEF Policy

LEMMA RemovedType == \A e \in Entry : Removed(e) \in Entry
  <1> SUFFICES ASSUME NEW e \in Policy PROVE Tombstone(e) \in Entry
    BY DEF Removed, Entry
  <1> DEFINE tomb == IF e.tomb = 0 THEN TombstoneSeconds + 1 ELSE e.tomb
  <1>1. tomb \in Nat /\ e.gen \in Nat
    BY BoundAssumption DEF Policy
  <1>2. [NoPolicy EXCEPT !.blocked = TRUE, !.gen = e.gen, !.tomb = tomb] \in Policy
    BY <1>1 DEF NoPolicy, Policy
  <1> QED
    BY <1>2 DEF Tombstone, Entry

\* A policy that does not block has no tombstone that could still run out.
LEMMA OlderKeeps ==
    ASSUME NEW e \in Entry, e # None /\ e.tomb > 1 => e.blocked,
           ~Effective(e).blocked
    PROVE  Effective(Older(e)) = Effective(e)
  <1>1. CASE e = None
    BY <1>1 DEF Older
  <1>2. CASE e # None /\ e.tomb > 1
    <2>1. e \in Policy /\ e.tomb # 1
      BY <1>2 DEF Entry, Policy
    <2>2. Effective(e) = e
      BY <1>2, <2>1 DEF Effective
    <2> QED
      BY <1>2, <2>2
  <1>3. CASE e # None /\ ~(e.tomb > 1)
    BY <1>3 DEF Older
  <1> QED
    BY <1>1, <1>2, <1>3

-----------------------------------------------------------------------------
(* Type correctness, one step per action.                                  *)

LEMMA FileFacts ==
    ASSUME TypeOK
    PROVE  /\ files \in Seq(File) /\ Latest \in Nat \ {0}
           /\ DOMAIN files = 1 .. Latest
           /\ \A i \in 1 .. Latest : files[i] \in File /\ files[i].entry \in Entry
  <1>1. files \in Seq(File) /\ files # <<>>
    BY DEF TypeOK
  <1>2. Latest \in Nat \ {0} /\ DOMAIN files = 1 .. Latest
    BY <1>1, EmptySeq DEF Latest
  <1>3. \A i \in 1 .. Latest : files[i] \in File
    BY <1>1, <1>2, ElementOfSeq DEF Latest
  <1> QED
    BY <1>1, <1>2, <1>3 DEF File

LEMMA AgentType ==
    ASSUME TypeOK, NEW m \in Modes, NEW p \in Policies \cup {None}, WriteCorePolicy(m, p)
    PROVE  /\ TypeOK' /\ Latest' = Latest + 1
           /\ \A i \in 1 .. Latest : files'[i] = files[i]
           /\ files'[Latest'].entry = IF p = None THEN Removed(files[Latest].entry) ELSE p
  <1> DEFINE f == [mode |-> m, entry |-> IF p = None THEN Removed(files[Latest].entry) ELSE p]
  <1>1. f \in File
    BY FileFacts, RemovedType, PolicyAssumption DEF File, Entry
  <1>2. /\ files' = Append(files, f) /\ files \in Seq(File) /\ Latest \in Nat \ {0}
    BY FileFacts DEF WriteCorePolicy
  <1>3. files' \in Seq(File) /\ Latest' = Latest + 1 /\ files' # <<>>
        /\ (\A i \in 1 .. Latest : files'[i] = files[i]) /\ files'[Latest'] = f
    BY <1>1, <1>2 DEF Latest
  <1>4. TypeOK'
    BY <1>2, <1>3 DEF TypeOK, WriteCorePolicy, cache, counts, conns
  <1> QED
    BY <1>3, <1>4

LEMMA TickType ==
    ASSUME TypeOK, Tick
    PROVE  /\ TypeOK' /\ Latest' = Latest
           /\ \A i \in 1 .. Latest : /\ files'[i].entry = Older(files[i].entry)
                                     /\ files'[i].mode = files[i].mode
  <1>1. /\ files' = [i \in 1 .. Latest |-> [files[i] EXCEPT !.entry = Older(files[i].entry)]]
        /\ Latest \in Nat \ {0}
    BY FileFacts DEF Tick
  <1>2. \A i \in 1 .. Latest : [files[i] EXCEPT !.entry = Older(files[i].entry)] \in File
    BY FileFacts, OlderType DEF File
  <1>3. files' \in Seq(File) /\ Len(files') = Latest
    BY <1>1, <1>2
  <1>4. \A i \in 1 .. Latest : /\ files'[i].entry = Older(files[i].entry)
                               /\ files'[i].mode = files[i].mode
    BY <1>1, FileFacts DEF File
  <1>5. Latest' = Latest /\ files' # <<>>
    BY <1>1, <1>3 DEF Latest
  <1>6. policies' \in Entry
    BY OlderType DEF Tick, TypeOK
  <1>7. settled' \in 0 .. Latest
    <2>1. settled' \in {0, Latest}
      BY DEF Tick
    <2> QED
      BY <1>1, <2>1
  <1>10. checked' \in BOOLEAN
    BY DEF Tick
  <1>8. UNCHANGED <<holder, mtime, mode, from, counts, conns, faults>>
    BY DEF Tick
  <1>9. TypeOK'
    BY <1>3, <1>5, <1>6, <1>7, <1>8, <1>10 DEF TypeOK, counts, conns
  <1> QED
    BY <1>4, <1>5, <1>9

LEMMA RefreshType ==
    ASSUME TypeOK, NEW c \in Conn, Refresh(c)
    PROVE  TypeOK' /\ files' = files
  <1>0. files' = files /\ Latest' = Latest /\ Latest \in Nat \ {0}
    BY FileFacts DEF Refresh, Stat, StatFails, Read, ReadFails, file, Latest
  <1>1. step' \in [Conn -> {"refresh", "read", "get"}]
    BY DEF TypeOK, Refresh, Stat, StatFails, Read, ReadFails, Goto
  <1>2. CASE Stat(c)
    <2>1. /\ since' \in [Conn -> 0 .. Latest] /\ stat' \in [Conn -> 0 .. Latest]
          /\ holder' \in Conn \cup {Nobody}
      <3>1. CASE mtime = Latest
        BY <1>0, <1>2, <3>1 DEF Stat, TypeOK
      <3>2. CASE mtime # Latest
        BY <1>0, <1>2, <3>2 DEF Stat, TypeOK
      <3> QED
        BY <3>1, <3>2
    <2>2. checked' \in BOOLEAN
      BY <1>2 DEF Stat
    <2> QED
      BY <1>0, <1>1, <1>2, <2>1, <2>2 DEF TypeOK, Stat, file, counts
  <1>3. CASE StatFails(c)
    <2>1. faults' \in 0 .. MaxFaults
      BY <1>3, BoundAssumption DEF StatFails, Fault, TypeOK
    <2>2. /\ settled' \in 0 .. Latest /\ from' \in 0 .. Latest
          /\ mode' \in Modes /\ policies' \in Entry
          /\ checked' \in BOOLEAN
      BY <1>0, <1>3 DEF StatFails, Modes, Entry
    <2>3. since' \in [Conn -> 0 .. Latest]
      BY <1>0, <1>3 DEF StatFails, TypeOK
    <2> QED
      BY <1>0, <1>1, <1>3, <2>1, <2>2, <2>3 DEF TypeOK, StatFails, counts
  <1>4. CASE Read(c)
    <2>1. /\ mtime' \in 0 .. Latest /\ from' \in 0 .. Latest
          /\ since' \in [Conn -> 0 .. Latest] /\ stat' \in [Conn -> 0 .. Latest]
      BY <1>0, <1>4 DEF Read, TypeOK
    <2>2. mode' \in Modes /\ policies' \in Entry /\ holder' = Nobody
      BY <1>0, <1>4, FileFacts DEF Read, File
    <2> QED
      BY <1>0, <1>1, <1>4, <2>1, <2>2 DEF TypeOK, Read, file, counts
  <1>5. CASE ReadFails(c)
    <2>1. faults' \in 0 .. MaxFaults
      BY <1>5, BoundAssumption DEF ReadFails, Fault, TypeOK
    <2>2. /\ settled' \in 0 .. Latest /\ holder' = Nobody
          /\ since' \in [Conn -> 0 .. Latest] /\ stat' \in [Conn -> 0 .. Latest]
      BY <1>0, <1>5 DEF ReadFails, TypeOK
    <2> QED
      BY <1>0, <1>1, <1>5, <2>1, <2>2 DEF TypeOK, ReadFails, counts
  <1> QED
    BY <1>0, <1>2, <1>3, <1>4, <1>5 DEF Refresh

LEMMA PolicyForType == TypeOK => PolicyFor \in Policy
  BY EffectiveType DEF PolicyFor, TypeOK

LEMMA OldestType == TypeOK => \A c \in Conn : Oldest(c) \in 0 .. Latest
  BY DEF TypeOK, Oldest

LEMMA KeepType ==
    ASSUME TypeOK, NEW c \in Conn, NEW call \in Calls, NEW p \in Policy, NEW k \in 0 .. Latest,
           Keep(c, call, p, k)
    PROVE  /\ pc' \in [Conn -> Calls] /\ step' \in [Conn -> {"refresh", "read", "get"}]
           /\ seen' \in [Conn -> Policy] /\ since' \in [Conn -> 0 .. Latest]
  BY DEF TypeOK, Keep, Goto

LEMMA EnterType ==
    ASSUME TypeOK, NEW c \in Conn, NEW call \in Calls, Enter(c, call)
    PROVE  /\ pc' \in [Conn -> Calls] /\ step' \in [Conn -> {"refresh", "read", "get"}]
           /\ seen' \in [Conn -> Policy] /\ since' \in [Conn -> 0 .. Latest]
  <1>1. 0 \in 0 .. Latest
    BY FileFacts
  <1> QED
    BY <1>1, KeepType, NoPolicyType DEF Enter

LEMMA LeaveType ==
    ASSUME TypeOK, NEW c \in Conn, Leave(c)
    PROVE  TypeOK' /\ files' = files
  <1>1. "out" \in Calls
    BY DEF Calls
  <1> QED
    BY <1>1, EnterType DEF Leave, TypeOK, file, cache, counts, Latest

LEMMA AdmissionType ==
    ASSUME TypeOK, NEW c \in Conn, Dispatch(c) \/ Admission(c)
    PROVE  TypeOK' /\ files' = files
  <1> USE DEF TypeOK, file, cache, counts, Latest
  <1>0. {"mode", "policy", "admit", "wrap"} \subseteq Calls
    BY DEF Calls, Refreshing
  <1>1. CASE Dispatch(c)
    BY <1>0, <1>1, EnterType DEF Dispatch
  <1>2. CASE Mode(c)
    BY <1>0, <1>2, EnterType DEF Mode
  <1>3. CASE Draining(c) \/ Blocked(c) \/ LimitExceeded(c)
    BY <1>3, LeaveType DEF Draining, Blocked, LimitExceeded
  <1>4. CASE Allowed(c)
    <2>1. Keep(c, "admit", PolicyFor, Oldest(c))
      BY <1>4 DEF Allowed
    <2>2. PICK a \in Source[c] : addr' = [addr EXCEPT ![c] = a]
      BY <1>4 DEF Allowed
    <2>3. a \in Address \cup {NoAddress} /\ addr \in [Conn -> Address \cup {NoAddress}]
      BY AddressAssumption
    <2>4. addr' \in [Conn -> Address \cup {NoAddress}]
      BY <2>2, <2>3
    <2> QED
      BY <1>0, <1>4, <2>1, <2>4, KeepType, PolicyForType, OldestType DEF Allowed
  <1>5. CASE Admit(c)
    <2>1. connections' \in Nat /\ ips' \in [Address -> Nat]
      BY <1>5 DEF Admit
    <2> QED
      BY <1>0, <1>5, <2>1, EnterType DEF Admit
  <1> QED
    BY <1>1, <1>2, <1>3, <1>4, <1>5 DEF Admission

LEMMA LessType == \A n \in Nat : Less(n) \in Nat
  BY DEF Less

LEMMA SessionType ==
    ASSUME TypeOK, NEW c \in Conn,
           Wrap(c) \/ Write(c) \/ Wait(c) \/ AfterFunc(c) \/ Cancel(c) \/ Return(c)
    PROVE  TypeOK' /\ files' = files
  <1> USE DEF TypeOK, file, cache, counts, Latest
  <1>0. {"open", "wait", "over", "closed", "ended", "out"} \subseteq Calls
    BY DEF Calls, Refreshing
  <1>1. CASE Wrap(c)
    <2>1. PolicyFor.gen \in Nat
      BY PolicyForType DEF Policy
    <2> QED
      BY <1>0, <1>1, <2>1, EnterType DEF Wrap
  <1>2. CASE Write(c)
    BY <1>0, <1>2, EnterType DEF Write
  <1>3. CASE Pass(c) \/ Cut(c) \/ NotOver(c) \/ Over(c)
    BY <1>0, <1>3, EnterType DEF Pass, Cut, NotOver, Over, Stays
  <1>4. CASE Limited(c)
    <2>1. Keep(c, "over", PolicyFor, Oldest(c))
      BY <1>4 DEF Limited
    <2> QED
      BY <1>0, <1>4, <2>1, KeepType, PolicyForType, OldestType DEF Limited, Stays
  <1>5. CASE AfterFunc(c)
    <2>1. /\ connections' \in Nat /\ ips' \in [Address -> Nat]
          /\ addr' \in [Conn -> Address \cup {NoAddress}] /\ done' \in [Conn -> BOOLEAN]
      BY <1>5, LessType DEF AfterFunc
    <2>2. /\ pc' \in [Conn -> Calls] /\ step' \in [Conn -> {"refresh", "read", "get"}]
          /\ seen' \in [Conn -> Policy] /\ since' \in [Conn -> 0 .. Latest]
      BY <1>0, <1>5, EnterType DEF AfterFunc
    <2> QED
      BY <1>5, <2>1, <2>2 DEF AfterFunc
  <1>6. CASE Cancel(c)
    BY <1>6 DEF Cancel
  <1>7. CASE Return(c)
    <2>1. done' \in [Conn -> BOOLEAN]
      <3> DEFINE d == c \in counted
      <3>1. d \in BOOLEAN
        OBVIOUS
      <3>2. done' = [done EXCEPT ![c] = d]
        BY <1>7 DEF Return
      <3> HIDE DEF d
      <3> QED
        BY <3>1, <3>2
    <2>2. gen' \in [Conn -> Nat]
      BY <1>7 DEF Return
    <2>3. /\ pc' \in [Conn -> Calls] /\ step' \in [Conn -> {"refresh", "read", "get"}]
          /\ seen' \in [Conn -> Policy] /\ since' \in [Conn -> 0 .. Latest]
      BY <1>0, <1>7, EnterType DEF Return
    <2>4. UNCHANGED <<file, cache, counts, stat, addr, faults>>
      BY <1>7 DEF Return
    <2> QED
      BY <2>1, <2>2, <2>3, <2>4
  <1> QED
    BY <1>1, <1>2, <1>3, <1>4, <1>5, <1>6, <1>7 DEF Wait

LEMMA StutterType == TypeOK /\ UNCHANGED vars => TypeOK'
  BY DEF TypeOK, vars, file, cache, counts, conns, Latest

LEMMA InitType == Init => TypeOK
  <1> SUFFICES ASSUME Init PROVE TypeOK
    OBVIOUS
  <1>1. PICK m \in Modes, p \in Policies \cup {None} : files = <<[mode |-> m, entry |-> p]>>
    BY DEF Init
  <1>2. [mode |-> m, entry |-> p] \in File
    BY PolicyAssumption DEF File, Entry
  <1>3. files \in Seq(File) /\ files # <<>> /\ Latest = 1
    BY <1>1, <1>2 DEF Latest
  <1> QED
    <2>1. /\ settled \in 0 .. Latest /\ mtime \in 0 .. Latest /\ from \in 0 .. Latest
          /\ since \in [Conn -> 0 .. Latest] /\ stat \in [Conn -> 0 .. Latest]
      BY <1>3 DEF Init
    <2>2. /\ pc \in [Conn -> Calls] /\ step \in [Conn -> {"refresh", "read", "get"}]
          /\ seen \in [Conn -> Policy] /\ addr \in [Conn -> Address \cup {NoAddress}]
          /\ gen \in [Conn -> Nat] /\ done \in [Conn -> BOOLEAN] /\ ips \in [Address -> Nat]
      BY NoPolicyType DEF Init, Calls
    <2>3. checked \in BOOLEAN
      BY DEF Init
    <2> QED
      BY <1>3, <2>1, <2>2, <2>3, BoundAssumption DEF Init, TypeOK, Modes, Entry

LEMMA StepType == TypeOK /\ [Next]_vars => TypeOK'
  BY AgentType, TickType, RefreshType, AdmissionType, SessionType, StutterType
     DEF Next, Agent, Connection

\* Every reachable state is well typed.
THEOREM TypeCorrect == Spec => []TypeOK
  BY InitType, StepType, PTL DEF Spec

-----------------------------------------------------------------------------
(* Counting.  A counted connection is past its admission, so nothing but    *)
(* its AfterFunc changes its address any more.                               *)

Admitted == {"wrap", "wait", "over", "open", "closed", "ended"}

Places == /\ \A c \in Conn : step[c] # "refresh" => pc[c] \in Refreshing
          /\ \A c \in counted : pc[c] \in Admitted

\* A connection goes on to the call s, and its next lookup is a fresh one.
GoesOn(c, s) ==
    pc' = [pc EXCEPT ![c] = s] /\ step' = [step EXCEPT ![c] = "refresh"]

LEMMA InitPlaces == Init => Places
  BY DEF Init, Places

LEMMA PlacesStep == TypeOK /\ Places /\ [Next]_vars => Places'
  <1> SUFFICES ASSUME TypeOK, Places, [Next]_vars PROVE Places'
    OBVIOUS
  <1> USE DEF Places, Admitted, Refreshing, TypeOK, counts, Enter, Keep, Goto, Calls
  <1>1. ASSUME NEW m \in Modes, NEW p \in Policies \cup {None}, WriteCorePolicy(m, p)
        PROVE  Places'
    BY <1>1 DEF WriteCorePolicy, conns
  <1>2. CASE Tick
    BY <1>2 DEF Tick, conns
  <1>3. ASSUME NEW c \in Conn, Refresh(c) PROVE Places'
    <2>1. pc[c] \in Refreshing /\ UNCHANGED <<pc, counted>>
      BY <1>3 DEF Refresh, Stat, StatFails, Read, ReadFails
    <2>2. \A d \in Conn \ {c} : step'[d] = step[d]
      BY <1>3 DEF Refresh, Stat, StatFails, Read, ReadFails
    <2> QED
      BY <2>1, <2>2
  <1>m. ASSUME NEW c \in Conn, NEW s, GoesOn(c, s),
               counted' \subseteq counted \cup {c}, c \in counted' => s \in Admitted
        PROVE  Places'
    BY <1>m DEF GoesOn
  <1>n. ASSUME NEW c \in Conn, NEW s, GoesOn(c, s), counted' = counted, pc[c] \notin Admitted
        PROVE  Places'
    BY <1>m, <1>n
  <1>4. ASSUME NEW c \in Conn, Dispatch(c) \/ Mode(c) \/ Allowed(c) PROVE Places'
    <2>1. CASE Dispatch(c)
      BY <1>n, <2>1 DEF Dispatch, GoesOn
    <2>2. CASE Mode(c)
      BY <1>n, <2>2 DEF Mode, At, GoesOn
    <2>3. CASE Allowed(c)
      BY <1>n, <2>3 DEF Allowed, At, GoesOn
    <2> QED
      BY <1>4, <2>1, <2>2, <2>3
  <1>5. ASSUME NEW c \in Conn, Draining(c) \/ Blocked(c) \/ LimitExceeded(c) PROVE Places'
    <2>1. GoesOn(c, "out") /\ counted' = counted
      BY <1>5 DEF Draining, Blocked, LimitExceeded, Leave, GoesOn
    <2>2. pc[c] \notin Admitted
      BY <1>5 DEF Draining, Blocked, LimitExceeded, At
    <2> QED
      BY <1>n, <2>1, <2>2
  <1>6. ASSUME NEW c \in Conn, Admit(c) PROVE Places'
    BY <1>6, <1>m DEF Admit, GoesOn
  <1>7. ASSUME NEW c \in Conn, Wrap(c) \/ Write(c) PROVE Places'
    <2>1. CASE Wrap(c)
      BY <1>m, <2>1 DEF Wrap, GoesOn
    <2>2. CASE Write(c)
      BY <1>m, <2>2 DEF Write, GoesOn
    <2> QED
      BY <1>7, <2>1, <2>2
  <1>8. ASSUME NEW c \in Conn, Wait(c) PROVE Places'
    <2>1. CASE Pass(c)
      BY <1>m, <2>1 DEF Pass, Stays, GoesOn
    <2>2. CASE Limited(c)
      BY <1>m, <2>2 DEF Limited, Stays, GoesOn
    <2>3. CASE Cut(c)
      BY <1>m, <2>3 DEF Cut, Stays, GoesOn
    <2>4. CASE NotOver(c)
      BY <1>m, <2>4 DEF NotOver, Stays, GoesOn
    <2>5. CASE Over(c)
      BY <1>m, <2>5 DEF Over, Stays, GoesOn
    <2> QED
      BY <1>8, <2>1, <2>2, <2>3, <2>4, <2>5 DEF Wait
  <1>9. ASSUME NEW c \in Conn, AfterFunc(c) PROVE Places'
    <2>1. counted' = counted \ {c}
      BY <1>9 DEF AfterFunc
    <2>2. CASE pc[c] = "ended"
      <3>1. /\ pc' = [pc EXCEPT ![c] = "out"]
            /\ step' = [step EXCEPT ![c] = "refresh"]
        BY <1>9, <2>2 DEF AfterFunc
      <3> QED
        BY <2>1, <3>1
    <2>3. CASE pc[c] # "ended"
      <3>1. UNCHANGED <<pc, step>>
        BY <1>9, <2>3 DEF AfterFunc
      <3> QED
        BY <2>1, <3>1
    <2> QED
      BY <2>2, <2>3
  <1>10. ASSUME NEW c \in Conn, Cancel(c) PROVE Places'
    BY <1>10 DEF Cancel
  <1>12. ASSUME NEW c \in Conn, Return(c) PROVE Places'
    <2>1. /\ counted' = counted
          /\ pc' = [pc EXCEPT ![c] = IF c \in counted THEN "ended" ELSE "out"]
          /\ step' = [step EXCEPT ![c] = "refresh"]
      BY <1>12 DEF Return
    <2> QED
      BY <2>1
  <1>11. CASE UNCHANGED vars
    BY <1>11 DEF vars, conns
  <1> QED
    BY <1>1, <1>2, <1>3, <1>4, <1>5, <1>6, <1>7, <1>8, <1>9, <1>10, <1>11, <1>12
       DEF Next, Agent, Connection, Admission

LEMMA CountsKept ==
    ASSUME CountsExact, UNCHANGED <<connections, ips, counted>>,
           \A d \in counted : addr'[d] = addr[d]
    PROVE  CountsExact'
  <1>1. \A a \in Address : {d \in counted : addr'[d] = a} = {d \in counted : addr[d] = a}
    OBVIOUS
  <1> QED
    BY <1>1 DEF CountsExact

LEMMA CountedFinite == TypeOK => IsFiniteSet(counted)
  BY ConnAssumption, FS_Subset DEF TypeOK

LEMMA AdmitCounts ==
    ASSUME TypeOK, Places, CountsExact, NEW c \in Conn, Admit(c)
    PROVE  CountsExact'
  <1>1. c \notin counted /\ counted' = counted \cup {c} /\ addr' = addr
    BY DEF Admit, Places, Admitted
  <1>2. Cardinality(counted') = Cardinality(counted) + 1
    BY <1>1, CountedFinite, FS_AddElement
  <1>3. ASSUME NEW a \in Address
        PROVE  ips'[a] = Cardinality({d \in counted' : addr'[d] = a})
    <2> DEFINE S == {d \in counted : addr[d] = a}
    <2>1. IsFiniteSet(S) /\ c \notin S /\ ips[a] = Cardinality(S)
      BY <1>1, CountedFinite, FS_Subset DEF CountsExact
    <2>2. CASE addr[c] = a
      <3>1. {d \in counted' : addr'[d] = a} = S \cup {c}
        BY <1>1, <2>2
      <3>2. ips'[a] = ips[a] + 1
        BY <2>2, AddressAssumption DEF Admit, TypeOK
      <3> QED
        BY <2>1, <3>1, <3>2, FS_AddElement
    <2>3. CASE addr[c] # a
      <3>1. {d \in counted' : addr'[d] = a} = S
        BY <1>1, <2>3
      <3>2. ips'[a] = ips[a]
        BY <2>3 DEF Admit, TypeOK
      <3> QED
        BY <2>1, <3>1, <3>2
    <2> QED
      BY <2>2, <2>3
  <1> QED
    BY <1>2, <1>3 DEF CountsExact, Admit

LEMMA AfterFuncCounts ==
    ASSUME TypeOK, CountsExact, NEW c \in Conn, AfterFunc(c)
    PROVE  CountsExact'
  <1>1. /\ c \in counted /\ counted' = counted \ {c}
        /\ \A d \in counted' : addr'[d] = addr[d]
    BY DEF AfterFunc, TypeOK
  <1>2. /\ Cardinality(counted) \in Nat \ {0}
        /\ Cardinality(counted') = Cardinality(counted) - 1
    BY <1>1, CountedFinite, FS_RemoveElement, FS_CardinalityType, FS_EmptySet
  <1>3. connections' = Cardinality(counted')
    BY <1>2 DEF AfterFunc, CountsExact, Less
  <1>4. ASSUME NEW a \in Address
        PROVE  ips'[a] = Cardinality({d \in counted' : addr'[d] = a})
    <2> DEFINE S == {d \in counted : addr[d] = a}
    <2>1. IsFiniteSet(S) /\ ips[a] = Cardinality(S)
      BY CountedFinite, FS_Subset DEF CountsExact
    <2>2. {d \in counted' : addr'[d] = a} = S \ {c}
      BY <1>1
    <2>3. CASE addr[c] = a
      <3>1. /\ Cardinality(S) \in Nat \ {0}
            /\ Cardinality(S \ {c}) = Cardinality(S) - 1
        BY <1>1, <2>1, <2>3, FS_RemoveElement, FS_CardinalityType, FS_EmptySet
      <3>2. ips'[a] = Less(ips[a])
        BY <2>3, AddressAssumption DEF AfterFunc, TypeOK
      <3>3. Less(Cardinality(S)) = Cardinality(S) - 1
        BY <3>1 DEF Less
      <3> QED
        BY <2>1, <2>2, <3>1, <3>2, <3>3
    <2>4. CASE addr[c] # a
      <3>1. S \ {c} = S
        BY <2>4
      <3>2. ips'[a] = ips[a]
        BY <2>4 DEF AfterFunc, TypeOK
      <3> QED
        BY <2>1, <2>2, <3>1, <3>2
    <2> QED
      BY <2>3, <2>4
  <1> QED
    BY <1>3, <1>4 DEF CountsExact

LEMMA CountsStep == TypeOK /\ Places /\ CountsExact /\ [Next]_vars => CountsExact'
  <1> SUFFICES ASSUME TypeOK, Places, CountsExact, [Next]_vars PROVE CountsExact'
    OBVIOUS
  <1>1. CASE Agent \/ Tick \/ UNCHANGED vars
    BY <1>1, CountsKept DEF Agent, WriteCorePolicy, Tick, vars, counts, conns
  <1>2. ASSUME NEW c \in Conn, Draining(c) \/ Blocked(c) \/ LimitExceeded(c) \/ Allowed(c)
        PROVE  CountsExact'
    <2>1. c \notin counted /\ UNCHANGED <<connections, ips, counted>>
      BY <1>2 DEF Draining, Blocked, LimitExceeded, Allowed, At, Leave, counts, Places, Admitted
    <2>2. \A d \in counted : addr'[d] = addr[d]
      BY <1>2, <2>1 DEF Draining, Blocked, LimitExceeded, Allowed, Leave, TypeOK
    <2> QED
      BY <2>1, <2>2, CountsKept
  <1>3. ASSUME NEW c \in Conn,
               \/ Refresh(c) \/ Dispatch(c) \/ Mode(c) \/ Wrap(c) \/ Write(c) \/ Wait(c)
               \/ Cancel(c) \/ Return(c)
        PROVE  CountsExact'
    <2>1. UNCHANGED <<connections, ips, counted, addr>>
      BY <1>3 DEF Refresh, Stat, StatFails, Read, ReadFails, Dispatch, Mode, Wrap, Write, Wait,
                  Pass, Limited, Cut, NotOver, Over, Stays, Cancel, Return, counts
    <2> QED
      BY <2>1, CountsKept
  <1> QED
    BY <1>1, <1>2, <1>3, AdmitCounts, AfterFuncCounts DEF Next, Connection, Admission

LEMMA InitCounts == Init => CountsExact
  <1> SUFFICES ASSUME Init PROVE CountsExact
    OBVIOUS
  <1>1. counted = {} /\ connections = 0 /\ \A a \in Address : ips[a] = 0
    BY DEF Init
  <1>2. \A a \in Address : {c \in counted : addr[c] = a} = {}
    BY <1>1
  <1> QED
    BY <1>1, <1>2, FS_EmptySet DEF CountsExact

\* The limiter's counts are those of the connections that were admitted and
\* not yet released, in all and for each address.
THEOREM CountingIsExact == Spec => []CountsExact
  <1>1. Init => TypeOK /\ Places /\ CountsExact
    BY InitType, InitPlaces, InitCounts
  <1>2. TypeOK /\ Places /\ CountsExact /\ [Next]_vars => (TypeOK /\ Places /\ CountsExact)'
    BY StepType, PlacesStep, CountsStep
  <1> QED
    BY <1>1, <1>2, PTL DEF Spec

-----------------------------------------------------------------------------
(* Connections are admitted, and data passes, by a policy that was in      *)
(* force within the last second.  The policies in memory are those of a    *)
(* file (Loaded), that file is not older than what a lookup may go by      *)
(* (Fresh), and what a lookup found stays the policy of such a file until  *)
(* it is acted on (Decided).                                               *)

Loaded ==
    /\ from = 0 => policies = None /\ mode = "active"
    /\ from > 0 => policies = files[from].entry /\ mode = files[from].mode
    /\ \A k \in 1 .. Latest : files[k].entry # None /\ files[k].entry.tomb > 1
                                => files[k].entry.blocked

Fresh ==
    /\ from > 0 => mtime <= from
    /\ from = 0 /\ mtime = Latest => settled = 0
    /\ checked /\ Free => settled <= from
    /\ \A c \in Conn : step[c] = "get" => since[c] <= from

\* The policy of c is that of a file since the one it could go by.
Decided(c) ==
    /\ ~seen[c].blocked
    /\ \/ since[c] = 0
       \/ \E k \in since[c] .. Latest : k > 0 /\ seen[c] = Effective(files[k].entry)
    /\ pc[c] = "over" => seen[c].gen = gen[c]

Deciding == \A c \in Conn : pc[c] \in {"admit", "over"} => Decided(c)

LimiterInv == TypeOK /\ Places /\ CountsExact /\ Loaded /\ Fresh /\ Deciding

LEMMA InitLimiter == Init => LimiterInv
  <1> SUFFICES ASSUME Init PROVE LimiterInv
    OBVIOUS
  <1>1. TypeOK /\ Places /\ CountsExact
    BY InitType, InitPlaces, InitCounts
  <1>2. PICK m \in Modes, p \in Policies \cup {None} : files = <<[mode |-> m, entry |-> p]>>
    BY DEF Init
  <1>3. Latest = 1 /\ files[1].entry = p
    BY <1>2 DEF Latest
  <1>4. p # None => p.tomb = 0
    BY PolicyAssumption
  <1>5. Loaded
    BY <1>3, <1>4 DEF Init, Loaded
  <1>6. Fresh
    BY <1>3 DEF Init, Fresh
  <1>7. Deciding
    BY DEF Init, Deciding
  <1> QED
    BY <1>1, <1>5, <1>6, <1>7 DEF LimiterInv

-----------------------------------------------------------------------------
(* The steps of a connection outside its refresh.                          *)

Local(c) == \/ Dispatch(c) \/ Admission(c) \/ Wrap(c) \/ Write(c) \/ Wait(c)
            \/ AfterFunc(c) \/ Cancel(c) \/ Return(c)

LEMMA NextCases ==
    [Next]_vars => \/ \E m \in Modes, p \in Policies \cup {None} : WriteCorePolicy(m, p)
                   \/ Tick \/ (\E c \in Conn : Refresh(c) \/ Local(c)) \/ UNCHANGED vars
  BY DEF Next, Agent, Connection, Local

\* The policies are left alone, and so is every other connection.
LEMMA LocalKeeps ==
    ASSUME TypeOK, NEW c \in Conn, Local(c)
    PROVE  /\ UNCHANGED <<file, cache>>
           /\ \A d \in Conn \ {c} : /\ pc'[d] = pc[d] /\ step'[d] = step[d]
                                    /\ since'[d] = since[d] /\ seen'[d] = seen[d]
                                    /\ gen'[d] = gen[d]
  <1>1. UNCHANGED <<file, cache>>
    BY DEF Local, Dispatch, Admission, Mode, Draining, Allowed, Blocked, Admit, LimitExceeded,
           Leave, Wrap, Write, Wait, Pass, Limited, Cut, NotOver, Over, Stays, AfterFunc,
           Cancel, Return
  <1>2. (\E call, p, k : Keep(c, call, p, k)) \/ UNCHANGED <<pc, step, since, seen>>
    BY DEF Local, Dispatch, Admission, Mode, Draining, Allowed, Blocked, Admit, LimitExceeded,
           Leave, Wrap, Write, Wait, Pass, Limited, Cut, NotOver, Over, AfterFunc, Cancel,
           Return, Enter
  <1>3. \A d \in Conn \ {c} : gen'[d] = gen[d]
    BY DEF Local, Dispatch, Admission, Mode, Draining, Allowed, Blocked, Admit, LimitExceeded,
           Leave, Wrap, Write, Wait, Pass, Limited, Cut, NotOver, Over, Stays, AfterFunc,
           Cancel, Return, TypeOK
  <1> QED
    BY <1>1, <1>2, <1>3 DEF Keep, Goto, TypeOK

\* The connection itself decides, or is at no decision, or stays as it is.
LEMMA LocalMoves ==
    ASSUME TypeOK, NEW c \in Conn, Local(c)
    PROVE  \/ Allowed(c) \/ Limited(c)
           \/ step'[c] = "refresh" /\ pc'[c] \notin {"admit", "over"}
           \/ /\ pc'[c] = pc[c] /\ step'[c] = step[c] /\ since'[c] = since[c]
              /\ seen'[c] = seen[c] /\ gen'[c] = gen[c]
  <1> USE DEF TypeOK, Enter, Keep, Goto
  <1>1. CASE Dispatch(c) \/ Mode(c) \/ Admit(c)
    BY <1>1 DEF Dispatch, Mode, Admit
  <1>2. CASE Draining(c) \/ Blocked(c) \/ LimitExceeded(c)
    BY <1>2 DEF Draining, Blocked, LimitExceeded, Leave
  <1>3. CASE Wrap(c) \/ Write(c)
    BY <1>3 DEF Wrap, Write
  <1>4. CASE Pass(c) \/ Cut(c) \/ NotOver(c) \/ Over(c)
    BY <1>4 DEF Pass, Cut, NotOver, Over
  <1>5. CASE AfterFunc(c)
    <2>1. CASE pc[c] = "ended"
      <3>1. /\ pc' = [pc EXCEPT ![c] = "out"]
            /\ step' = [step EXCEPT ![c] = "refresh"]
        BY <1>5, <2>1 DEF AfterFunc
      <3> QED
        BY <3>1
    <2>2. CASE pc[c] # "ended"
      <3>1. UNCHANGED <<pc, step, since, seen, gen>>
        BY <1>5, <2>2 DEF AfterFunc
      <3> QED
        BY <3>1
    <2> QED
      BY <2>1, <2>2
  <1>6. CASE Cancel(c)
    BY <1>6 DEF Cancel
  <1>7. CASE Return(c)
    BY <1>7 DEF Return
  <1> QED
    BY <1>1, <1>2, <1>3, <1>4, <1>5, <1>6, <1>7 DEF Local, Admission, Wait

-----------------------------------------------------------------------------
(* What is in memory is what a file says.                                  *)

LEMMA RemovedBlocks == \A e \in Entry : Removed(e) # None /\ Removed(e).tomb > 1 => Removed(e).blocked
  <1> SUFFICES ASSUME NEW e \in Policy, Tombstone(e) # None PROVE Tombstone(e).blocked
    BY DEF Removed, Entry
  <1> DEFINE tomb == IF e.tomb = 0 THEN TombstoneSeconds + 1 ELSE e.tomb
             t == [NoPolicy EXCEPT !.blocked = TRUE, !.gen = e.gen, !.tomb = tomb]
  <1>1. Tombstone(e) = t
    BY DEF Tombstone
  <1>2. t.blocked = TRUE
    BY DEF NoPolicy
  <1> QED
    BY <1>1, <1>2

LEMMA OlderBlocks ==
    ASSUME NEW e \in Entry, e # None /\ e.tomb > 1 => e.blocked,
           Older(e) # None, Older(e).tomb > 1
    PROVE  Older(e).blocked
  <1>1. CASE e # None /\ e.tomb > 1
    <2>1. e \in Policy /\ Older(e) = [e EXCEPT !.tomb = e.tomb - 1]
      BY <1>1 DEF Older, Entry
    <2>2. Older(e).blocked = e.blocked
      BY <2>1 DEF Policy
    <2> QED
      BY <1>1, <2>2
  <1>2. CASE ~(e # None /\ e.tomb > 1)
    BY <1>2 DEF Older
  <1> QED
    BY <1>1, <1>2

LEMMA LoadedStep == TypeOK /\ Loaded /\ [Next]_vars => Loaded'
  <1> SUFFICES ASSUME TypeOK, Loaded, [Next]_vars PROVE Loaded'
    OBVIOUS
  <1>0. /\ from \in 0 .. Latest /\ Latest \in Nat \ {0} /\ policies \in Entry
        /\ \A i \in 1 .. Latest : files[i].entry \in Entry
    BY FileFacts DEF TypeOK
  <1>1. ASSUME NEW m \in Modes, NEW p \in Policies \cup {None}, WriteCorePolicy(m, p)
        PROVE  Loaded'
    <2>1. /\ Latest' = Latest + 1 /\ \A i \in 1 .. Latest : files'[i] = files[i]
          /\ files'[Latest'].entry = IF p = None THEN Removed(files[Latest].entry) ELSE p
      BY <1>1, AgentType
    <2>2. UNCHANGED <<from, policies, mode>>
      BY <1>1 DEF WriteCorePolicy, cache
    <2>3. files'[Latest'].entry # None /\ files'[Latest'].entry.tomb > 1
            => files'[Latest'].entry.blocked
      <3>1. CASE p = None
        BY <1>0, <2>1, <3>1, RemovedBlocks
      <3>2. CASE p # None
        BY <2>1, <3>2, PolicyAssumption
      <3> QED
        BY <3>1, <3>2
    <2>4. \A k \in 1 .. Latest' : files'[k].entry # None /\ files'[k].entry.tomb > 1
                                   => files'[k].entry.blocked
      <3> TAKE k \in 1 .. Latest'
      <3>1. k \in 1 .. Latest \/ k = Latest'
        BY <1>0, <2>1
      <3> QED
        BY <2>1, <2>3, <3>1 DEF Loaded
    <2> QED
      BY <1>0, <2>1, <2>2, <2>4 DEF Loaded
  <1>2. CASE Tick
    <2>1. /\ Latest' = Latest
          /\ \A i \in 1 .. Latest : /\ files'[i].entry = Older(files[i].entry)
                                    /\ files'[i].mode = files[i].mode
      BY <1>2, TickType
    <2>2. UNCHANGED <<from, mode>> /\ policies' = Older(policies)
      BY <1>2 DEF Tick
    <2>3. \A k \in 1 .. Latest' : files'[k].entry # None /\ files'[k].entry.tomb > 1
                                   => files'[k].entry.blocked
      <3> TAKE k \in 1 .. Latest'
      <3>1. files[k].entry \in Entry /\ files'[k].entry = Older(files[k].entry)
        BY <1>0, <2>1
      <3> QED
        BY <2>1, <3>1, OlderBlocks DEF Loaded
    <2>4. from = 0 => policies' = None
      BY <2>2 DEF Loaded, Older
    <2> QED
      BY <1>0, <2>1, <2>2, <2>3, <2>4 DEF Loaded
  <1>3. ASSUME NEW c \in Conn, Refresh(c) PROVE Loaded'
    <2>1. files' = files /\ Latest' = Latest
      BY <1>3, RefreshType DEF Latest
    <2>2. CASE Stat(c) \/ ReadFails(c)
      BY <1>0, <2>1, <2>2 DEF Stat, ReadFails, Loaded
    <2>3. CASE StatFails(c)
      BY <1>0, <2>1, <2>3 DEF StatFails, Loaded
    <2>4. CASE Read(c)
      BY <1>0, <2>1, <2>4 DEF Read, Loaded
    <2> QED
      BY <1>3, <2>2, <2>3, <2>4 DEF Refresh
  <1>4. ASSUME NEW c \in Conn, Local(c) PROVE Loaded'
    BY <1>4, LocalKeeps DEF Loaded, file, cache, Latest
  <1>5. CASE UNCHANGED vars
    BY <1>5 DEF vars, Loaded, file, cache, Latest
  <1> QED
    BY <1>1, <1>2, <1>3, <1>4, <1>5, NextCases

-----------------------------------------------------------------------------
(* It is not older than what a lookup may go by.                           *)

LEMMA FreshStep == TypeOK /\ Places /\ Fresh /\ [Next]_vars => Fresh'
  <1> SUFFICES ASSUME TypeOK, Places, Fresh, [Next]_vars PROVE Fresh'
    OBVIOUS
  <1>0. /\ from \in 0 .. Latest /\ settled \in 0 .. Latest /\ mtime \in 0 .. Latest
        /\ Latest \in Nat \ {0} /\ since \in [Conn -> 0 .. Latest]
        /\ stat \in [Conn -> 0 .. Latest] /\ Nobody \notin Conn
    BY FileFacts, ConnAssumption DEF TypeOK
  <1>1. ASSUME NEW m \in Modes, NEW p \in Policies \cup {None}, WriteCorePolicy(m, p)
        PROVE  Fresh'
    <2>1. Latest' = Latest + 1
      BY <1>1, AgentType
    <2>2. UNCHANGED <<settled, checked, holder, mtime, from, step, since>>
      BY <1>1 DEF WriteCorePolicy, cache, conns
    <2> QED
      BY <1>0, <2>1, <2>2 DEF Fresh, Free
  <1>2. CASE Tick
    <2>1. Latest' = Latest
      BY <1>2, TickType
    <2>2. checked' = FALSE
      BY <1>2 DEF Tick
    <2>3. /\ settled' = IF from = 0 /\ mtime = Latest THEN 0 ELSE Latest
          /\ UNCHANGED <<mtime, from, step, since>>
      BY <1>2 DEF Tick, conns
    <2> QED
      BY <1>0, <2>1, <2>2, <2>3 DEF Fresh
  <1>3. ASSUME NEW c \in Conn, Refresh(c) PROVE Fresh'
    <2>1. Latest' = Latest
      BY <1>3, RefreshType DEF Latest
    <2>2. CASE Stat(c)
      <3>1. CASE mtime = Latest
        <4>1. /\ since' = [since EXCEPT ![c] = settled] /\ step' = [step EXCEPT ![c] = "get"]
              /\ UNCHANGED <<settled, holder, mtime, from>>
          BY <2>2, <3>1 DEF Stat, Goto, file
        <4>2. settled <= from
          BY <1>0, <3>1 DEF Fresh
        <4> QED
          BY <1>0, <2>1, <4>1, <4>2 DEF Fresh, TypeOK
      <3>2. CASE mtime # Latest
        <4>1. /\ since' = since /\ step' = [step EXCEPT ![c] = "read"] /\ holder' = c
              /\ UNCHANGED <<settled, mtime, from>>
          BY <2>2, <3>2 DEF Stat, Goto, file
        <4> QED
          BY <1>0, <2>1, <4>1 DEF Fresh, TypeOK, Free
      <3> QED
        BY <3>1, <3>2
    <2>3. CASE StatFails(c)
      <3>1. /\ from' = 0 /\ settled' = 0 /\ step' = [step EXCEPT ![c] = "get"]
            /\ since' = [d \in Conn |-> IF pc[d] \in Refreshing THEN 0 ELSE since[d]]
        BY <2>3 DEF StatFails, Goto
      <3>2. pc[c] \in Refreshing
        BY <2>3 DEF StatFails
      <3>3. \A d \in Conn : step'[d] = "get" => since'[d] = 0
        BY <3>1, <3>2 DEF Places, TypeOK
      <3> QED
        BY <1>0, <3>1, <3>3, <2>1 DEF Fresh
    <2>4. CASE Read(c)
      <3>1. /\ from' = Latest /\ mtime' = stat[c] /\ settled' = settled
            /\ step' = [step EXCEPT ![c] = "get"] /\ since' = [since EXCEPT ![c] = settled]
        BY <2>4 DEF Read, Goto, file
      <3> QED
        BY <1>0, <2>1, <3>1 DEF Fresh, TypeOK
    <2>5. CASE ReadFails(c)
      <3>1. /\ settled' = from /\ UNCHANGED <<mtime, from>>
            /\ step' = [step EXCEPT ![c] = "get"] /\ since' = [since EXCEPT ![c] = from]
        BY <2>5 DEF ReadFails, Goto
      <3> QED
        BY <1>0, <2>1, <3>1 DEF Fresh, TypeOK
    <2> QED
      BY <1>3, <2>2, <2>3, <2>4, <2>5 DEF Refresh
  <1>4. ASSUME NEW c \in Conn, Local(c) PROVE Fresh'
    <2>1. /\ UNCHANGED <<files, settled, checked, holder, mtime, from>>
          /\ \A d \in Conn \ {c} : step'[d] = step[d] /\ since'[d] = since[d]
      BY <1>4, LocalKeeps DEF file, cache
    <2>2. step'[c] = "get" => step[c] = "get" /\ since'[c] = since[c]
      BY <1>4, LocalMoves DEF Allowed, Limited, Keep, Goto, TypeOK
    <2> QED
      BY <2>1, <2>2 DEF Fresh, Free, Latest
  <1>5. CASE UNCHANGED vars
    BY <1>5 DEF vars, Fresh, Free, file, cache, conns, Latest
  <1> QED
    BY <1>1, <1>2, <1>3, <1>4, <1>5, NextCases

\* What a lookup finds: nothing, or what is in the file of policies.
LEMMA Found ==
    ASSUME TypeOK, Loaded, Fresh, NEW c \in Conn, NEW call \in Refreshing, At(c, call)
    PROVE  /\ from \in Oldest(c) .. Latest
           /\ from = 0 => Oldest(c) = 0 /\ mode = "active"
           /\ from > 0 => /\ from \in 1 .. Latest
                          /\ PolicyFor = Effective(files[from].entry)
                          /\ mode = files[from].mode
  <1>1. from \in 0 .. Latest /\ Latest \in Nat /\ Oldest(c) \in 0 .. Latest
    BY FileFacts, OldestType DEF TypeOK
  <1>2. Oldest(c) <= from
    BY DEF At, Oldest, Fresh, Refreshing
  <1> QED
    BY <1>1, <1>2 DEF Loaded, PolicyFor

-----------------------------------------------------------------------------
(* What a lookup found stays good until it is acted on.                    *)

LEMMA DecidingStep == LimiterInv /\ [Next]_vars => Deciding'
  <1> SUFFICES ASSUME LimiterInv, [Next]_vars PROVE Deciding'
    OBVIOUS
  <1>0. /\ TypeOK /\ Places /\ Loaded /\ Fresh /\ Deciding
        /\ Latest \in Nat \ {0} /\ since \in [Conn -> 0 .. Latest]
        /\ \A i \in 1 .. Latest : files[i].entry \in Entry
    BY FileFacts DEF LimiterInv, TypeOK
  <1>1. ASSUME NEW m \in Modes, NEW p \in Policies \cup {None}, WriteCorePolicy(m, p)
        PROVE  Deciding'
    <2>1. Latest' = Latest + 1 /\ \A i \in 1 .. Latest : files'[i] = files[i]
      BY <1>0, <1>1, AgentType
    <2>2. UNCHANGED <<pc, since, seen, gen>>
      BY <1>1 DEF WriteCorePolicy, conns
    <2>3. ASSUME NEW d \in Conn, pc[d] \in {"admit", "over"} PROVE Decided(d)'
      <3>1. Decided(d)
        BY <1>0, <2>3 DEF Deciding
      <3>2. CASE since[d] = 0
        BY <2>2, <3>1, <3>2 DEF Decided
      <3>3. CASE since[d] # 0
        <4>1. PICK k \in since[d] .. Latest : k > 0 /\ seen[d] = Effective(files[k].entry)
          BY <3>1, <3>3 DEF Decided
        <4>2. k \in 1 .. Latest /\ k \in since[d] .. Latest' /\ files'[k] = files[k]
          BY <1>0, <2>1, <4>1
        <4> QED
          BY <2>2, <3>1, <4>1, <4>2 DEF Decided, Effective
      <3> QED
        BY <3>2, <3>3
    <2> QED
      BY <2>2, <2>3 DEF Deciding
  <1>2. CASE Tick
    <2>1. /\ Latest' = Latest
          /\ \A i \in 1 .. Latest : files'[i].entry = Older(files[i].entry)
      BY <1>0, <1>2, TickType
    <2>2. UNCHANGED <<pc, since, seen, gen>>
      BY <1>2 DEF Tick, conns
    <2>3. ASSUME NEW d \in Conn, pc[d] \in {"admit", "over"} PROVE Decided(d)'
      <3>1. Decided(d)
        BY <1>0, <2>3 DEF Deciding
      <3>2. CASE since[d] = 0
        BY <2>2, <3>1, <3>2 DEF Decided
      <3>3. CASE since[d] # 0
        <4>1. PICK k \in since[d] .. Latest : k > 0 /\ seen[d] = Effective(files[k].entry)
          BY <3>1, <3>3 DEF Decided
        <4>2. k \in 1 .. Latest /\ files[k].entry \in Entry
          BY <1>0, <4>1
        <4>3. Effective(Older(files[k].entry)) = Effective(files[k].entry)
          BY <1>0, <3>1, <4>1, <4>2, OlderKeeps DEF Loaded, Decided
        <4>4. k \in since[d] .. Latest' /\ seen[d] = Effective(files'[k].entry)
          BY <2>1, <4>1, <4>2, <4>3
        <4> QED
          BY <2>2, <3>1, <4>1, <4>4 DEF Decided, Effective
      <3> QED
        BY <3>2, <3>3
    <2> QED
      BY <2>2, <2>3 DEF Deciding
  <1>3. ASSUME NEW c \in Conn, Refresh(c) PROVE Deciding'
    <2>1. files' = files /\ Latest' = Latest
      BY <1>0, <1>3, RefreshType DEF Latest
    <2>2. pc[c] \in Refreshing /\ UNCHANGED <<pc, seen, gen>>
      BY <1>0, <1>3 DEF Refresh, Stat, StatFails, Read, ReadFails, Places
    <2>3. ASSUME NEW d \in Conn, pc[d] \in {"admit", "over"} PROVE since'[d] = since[d]
      <3>1. d # c /\ pc[d] \notin Refreshing
        BY <2>2, <2>3 DEF Refreshing
      <3> QED
        BY <1>0, <1>3, <3>1 DEF Refresh, Stat, StatFails, Read, ReadFails
    <2> QED
      BY <1>0, <2>1, <2>2, <2>3 DEF Deciding, Decided
  <1>4. ASSUME NEW c \in Conn, Local(c) PROVE Deciding'
    <2>1. /\ UNCHANGED <<files, Latest>>
          /\ \A d \in Conn \ {c} : /\ pc'[d] = pc[d] /\ since'[d] = since[d]
                                   /\ seen'[d] = seen[d] /\ gen'[d] = gen[d]
      BY <1>0, <1>4, LocalKeeps DEF file, Latest
    <2>2. \A d \in Conn \ {c} : pc'[d] \in {"admit", "over"} => Decided(d)'
      BY <1>0, <2>1 DEF Deciding, Decided
    <2>3. CASE Allowed(c) \/ Limited(c)
      <3>1. PICK call \in {"policy", "wait"} : At(c, call)
        BY <2>3 DEF Allowed, Limited
      <3>2. /\ ~PolicyFor.blocked
            /\ seen'[c] = PolicyFor /\ since'[c] = Oldest(c)
        BY <1>0, <2>3 DEF Allowed, Limited, Refused, Keep, TypeOK
      <3>3. pc'[c] = "over" => PolicyFor.gen = gen'[c]
        BY <1>0, <2>3 DEF Allowed, Limited, Refused, Keep, Stays, TypeOK
      <3>4. /\ from \in Oldest(c) .. Latest
            /\ from = 0 => Oldest(c) = 0
            /\ from > 0 => PolicyFor = Effective(files[from].entry)
        BY <1>0, <3>1, Found DEF Refreshing
      <3>5. from = 0 \/ from > 0
        BY <1>0 DEF TypeOK
      <3> QED
        BY <2>1, <2>2, <3>2, <3>3, <3>4, <3>5 DEF Deciding, Decided
    <2>4. CASE pc'[c] \notin {"admit", "over"}
      BY <2>2, <2>4 DEF Deciding
    <2>5. CASE /\ pc'[c] = pc[c] /\ since'[c] = since[c]
               /\ seen'[c] = seen[c] /\ gen'[c] = gen[c]
      BY <1>0, <2>1, <2>2, <2>5 DEF Deciding, Decided
    <2> QED
      BY <1>0, <1>4, <2>3, <2>4, <2>5, LocalMoves
  <1>5. CASE UNCHANGED vars
    BY <1>0, <1>5 DEF vars, file, conns, Deciding, Decided, Latest
  <1> QED
    BY <1>0, <1>1, <1>2, <1>3, <1>4, <1>5, NextCases

LEMMA LimiterStep == LimiterInv /\ [Next]_vars => LimiterInv'
  BY StepType, PlacesStep, CountsStep, LoadedStep, FreshStep, DecidingStep DEF LimiterInv

LEMMA LimiterInvariant == Spec => []LimiterInv
  BY InitLimiter, LimiterStep, PTL DEF Spec

-----------------------------------------------------------------------------
(* The steps the properties are about.                                     *)

LEMMA WhichStep ==
    ASSUME TypeOK, Places, [Next]_vars, NEW c \in Conn
    PROVE  /\ pc[c] = "mode" /\ pc'[c] = "policy" => Mode(c)
           /\ c \in counted' \ counted => Admit(c)
           /\ Passes(c) => Pass(c) \/ NotOver(c)
  <1> USE DEF TypeOK, Passes
  <1>1. ASSUME UNCHANGED <<pc, counted>>
        PROVE  ~(c \in counted' \ counted) /\ ~Passes(c) /\ ~(pc[c] = "mode" /\ pc'[c] = "policy")
    BY <1>1
  <1>2. CASE Agent \/ Tick \/ UNCHANGED vars
    BY <1>1, <1>2 DEF Agent, WriteCorePolicy, Tick, vars, conns, counts
  <1>3. ASSUME NEW d \in Conn, Refresh(d)
        PROVE  UNCHANGED <<pc, counted>>
    BY <1>3 DEF Refresh, Stat, StatFails, Read, ReadFails, counts
  <1>4. ASSUME NEW d \in Conn, Local(d), d # c
        PROVE  pc'[c] = pc[c] /\ c \notin counted' \ counted
    <2>1. counted' \subseteq counted \cup {d}
      BY <1>4 DEF Local, Dispatch, Admission, Mode, Draining, Allowed, Blocked, Admit,
                  LimitExceeded, Leave, Wrap, Write, Wait, Pass, Limited, Cut, NotOver, Over,
                  Stays, AfterFunc, Cancel, Return, counts
    <2> QED
      BY <1>4, <2>1, LocalKeeps
  <1>5. ASSUME Local(c), ~Admit(c) PROVE counted' \subseteq counted
    BY <1>5 DEF Local, Dispatch, Admission, Mode, Draining, Allowed, Blocked,
                LimitExceeded, Leave, Wrap, Write, Wait, Pass, Limited, Cut, NotOver, Over,
                Stays, AfterFunc, Cancel, Return, counts
  <1>6. ASSUME Local(c), pc[c] = "mode", pc'[c] = "policy" PROVE Mode(c)
    BY <1>6 DEF Local, Dispatch, Admission, Draining, Allowed, Blocked, Admit, LimitExceeded,
                Leave, Wrap, Write, Wait, Pass, Limited, Cut, NotOver, Over, AfterFunc, Cancel,
                Return, At, Enter, Keep
  <1>7. ASSUME Local(c), Passes(c) PROVE Pass(c) \/ NotOver(c)
    BY <1>7 DEF Local, Dispatch, Admission, Mode, Draining, Allowed, Blocked, Admit,
                LimitExceeded, Leave, Wrap, Write, Wait, Limited, Cut, Over, AfterFunc, Cancel,
                Return, At, Enter, Keep
  <1>8. CASE \E d \in Conn : Refresh(d)
    BY <1>1, <1>3, <1>8
  <1>9. CASE \E d \in Conn : Local(d)
    BY <1>4, <1>5, <1>6, <1>7, <1>9
  <1> QED
    BY <1>2, <1>8, <1>9, NextCases DEF Agent

-----------------------------------------------------------------------------
(* The places the counts are taken from.                                   *)

LEMMA CountedSources ==
    ASSUME TypeOK, CountsExact
    PROVE  Sources = {addr[d] : d \in counted} \ {NoAddress}
  <1>1. ASSUME NEW a \in Address
        PROVE  ips[a] > 0 <=> \E d \in counted : addr[d] = a
    <2> DEFINE S == {d \in counted : addr[d] = a}
    <2>1. IsFiniteSet(S) /\ ips[a] = Cardinality(S)
      BY CountedFinite, FS_Subset DEF CountsExact
    <2>2. Cardinality(S) \in Nat /\ (Cardinality(S) = 0 <=> S = {})
      BY <2>1, FS_CardinalityType, FS_EmptySet
    <2> QED
      BY <2>1, <2>2
  <1>2. \A d \in counted : addr[d] \in Address \cup {NoAddress}
    BY DEF TypeOK
  <1> QED
    BY <1>1, <1>2, AddressAssumption DEF Sources

\* One more connection fits into the limits it was checked against.
LEMMA AdmitHasRoom ==
    ASSUME TypeOK, Places, CountsExact, NEW c \in Conn, Admit(c)
    PROVE  Room(seen[c], counted', c)
  <1>1. c \notin counted /\ counted' = counted \cup {c} /\ WithinLimits(c)
    BY DEF Admit, Places, Admitted
  <1>2. /\ seen[c].limit \in Nat /\ seen[c].ips \in Nat
        /\ addr[c] \in Address \cup {NoAddress}
    BY DEF TypeOK, Policy
  <1>3. seen[c].limit > 0 => Cardinality(counted') <= seen[c].limit
    <2>1. Cardinality(counted') = connections + 1
      BY <1>1, CountedFinite, FS_AddElement DEF CountsExact
    <2> QED
      BY <1>1, <1>2, <2>1 DEF WithinLimits, TypeOK
  <1>4. ASSUME seen[c].ips > 0, addr[c] # NoAddress, ips[addr[c]] > 0
        PROVE  \E d \in counted' \ {c} : addr[d] = addr[c]
    <2>1. addr[c] \in Sources
      BY <1>2, <1>4 DEF Sources
    <2> QED
      BY <1>1, <2>1, CountedSources
  <1>5. ASSUME seen[c].ips > 0, addr[c] # NoAddress, ips[addr[c]] = 0
        PROVE  Cardinality({addr[d] : d \in counted'} \ {NoAddress}) <= seen[c].ips
    <2>1. {addr[d] : d \in counted'} \ {NoAddress} = Sources \cup {addr[c]}
      BY <1>1, <1>5, CountedSources
    <2>2. addr[c] \notin Sources
      BY <1>5 DEF Sources
    <2>3. IsFiniteSet({addr[d] : d \in counted})
      <3> DEFINE T == {addr[d] : d \in counted}
                 f == [d \in counted |-> addr[d]]
      <3>1. f \in Surjection(counted, T)
        BY DEF Surjection
      <3> QED
        BY <3>1, CountedFinite, FS_Surjection
    <2>4. IsFiniteSet(Sources)
      BY <2>3, CountedSources, FS_Subset
    <2>5. /\ Cardinality(Sources) \in Nat
          /\ Cardinality(Sources \cup {addr[c]}) = Cardinality(Sources) + 1
      BY <2>2, <2>4, FS_AddElement, FS_CardinalityType
    <2>6. Cardinality(Sources) < seen[c].ips
      BY <1>1, <1>5 DEF WithinLimits
    <2> QED
      BY <1>2, <2>1, <2>5, <2>6
  <1>6. addr[c] # NoAddress => ips[addr[c]] \in Nat
    BY <1>2 DEF TypeOK
  <1> QED
    BY <1>2, <1>3, <1>4, <1>5, <1>6 DEF Room

-----------------------------------------------------------------------------
\* Whatever the agent writes and whenever, and whatever reads fail: no
\* connection gets past the drain or is admitted against every policy that
\* was in force within the last second.
THEOREM AdmissionIsAsTold == Spec => AdmittedAsTold
  <1>1. ASSUME LimiterInv, [Next]_vars, NEW c \in Conn, pc[c] = "mode", pc'[c] = "policy"
        PROVE  \E k \in InForce(c) : k = 0 \/ files[k].mode = "active"
    <2>1. Mode(c) /\ TypeOK /\ Loaded /\ Fresh
      BY <1>1, WhichStep DEF LimiterInv
    <2>2. At(c, "mode") /\ mode = "active"
      BY <2>1 DEF Mode, TypeOK, Modes
    <2>3. from \in InForce(c) /\ (from > 0 => mode = files[from].mode)
      BY <2>1, <2>2, Found DEF Refreshing, InForce
    <2>4. from = 0 \/ from > 0
      BY <2>1 DEF TypeOK
    <2> QED
      BY <2>2, <2>3, <2>4
  <1>2. ASSUME LimiterInv, [Next]_vars, NEW c \in Conn, c \in counted' \ counted
        PROVE  \E k \in InForce(c) : k = 0 \/ LET p == Effective(files[k].entry) IN
                                             ~p.blocked /\ Room(p, counted', c)
    <2>1. Admit(c) /\ TypeOK
      BY <1>2, WhichStep DEF LimiterInv
    <2>2. pc[c] = "admit" /\ Decided(c) /\ Room(seen[c], counted', c)
      BY <1>2, <2>1, AdmitHasRoom DEF LimiterInv, Deciding, Admit
    <2>3. InForce(c) = since[c] .. Latest /\ Latest \in Nat
      BY <2>1, <2>2, FileFacts DEF InForce, Oldest, Refreshing
    <2> QED
      BY <2>2, <2>3 DEF Decided
  <1>3. LimiterInv /\ [Next]_vars =>
          [\A c \in Conn :
            /\ pc[c] = "mode" /\ pc'[c] = "policy"
                 => \E k \in InForce(c) : k = 0 \/ files[k].mode = "active"
            /\ c \in counted' \ counted
                 => \E k \in InForce(c) : k = 0 \/ LET p == Effective(files[k].entry) IN
                                                   ~p.blocked /\ Room(p, counted', c)]_vars
    BY <1>1, <1>2
  <1> QED
    BY <1>3, LimiterInvariant, PTL DEF Spec, AdmittedAsTold

\* And no session's data passes against every policy of the last second.
THEOREM PassageIsAsTold == Spec => PassesAsTold
  <1>1. ASSUME LimiterInv, [Next]_vars, NEW c \in Conn, Passes(c)
        PROVE  \E k \in InForce(c) : k = 0 \/ LET p == Effective(files[k].entry) IN
                  /\ ~p.blocked /\ p.gen = gen[c]
                  /\ p.limit > 0 => Cardinality(counted) <= p.limit
    <2>0. TypeOK /\ Loaded /\ Fresh /\ CountsExact
      BY <1>1 DEF LimiterInv
    <2>1. CASE Pass(c)
      <3>1. /\ At(c, "wait") /\ ~PolicyFor.blocked /\ PolicyFor.gen = gen[c]
            /\ PolicyFor.limit = 0
        BY <2>1 DEF Pass, Refused
      <3>2. /\ from \in InForce(c)
            /\ from > 0 => PolicyFor = Effective(files[from].entry)
        BY <2>0, <3>1, Found DEF Refreshing, InForce
      <3>3. from = 0 \/ from > 0
        BY <2>0 DEF TypeOK
      <3> QED
        BY <3>1, <3>2, <3>3
    <2>2. CASE NotOver(c)
      <3>1. /\ pc[c] = "over" /\ Decided(c)
            /\ Cardinality(counted) <= seen[c].limit
        BY <1>1, <2>0, <2>2 DEF NotOver, LimiterInv, Deciding, CountsExact
      <3>2. InForce(c) = since[c] .. Latest /\ Latest \in Nat
        BY <2>0, <3>1, FileFacts DEF InForce, Oldest, Refreshing
      <3>3. CASE since[c] = 0
        BY <3>2, <3>3
      <3>4. CASE since[c] # 0
        <4>1. PICK k \in InForce(c) : seen[c] = Effective(files[k].entry)
          BY <3>1, <3>2, <3>4 DEF Decided
        <4> QED
          BY <3>1, <4>1 DEF Decided
      <3> QED
        BY <3>3, <3>4
    <2> QED
      BY <1>1, <2>0, <2>1, <2>2, WhichStep DEF LimiterInv
  <1>2. LimiterInv /\ [Next]_vars =>
          [\A c \in Conn : Passes(c) =>
            \E k \in InForce(c) : k = 0 \/ LET p == Effective(files[k].entry) IN
                /\ ~p.blocked /\ p.gen = gen[c]
                /\ p.limit > 0 => Cardinality(counted) <= p.limit]_vars
    BY <1>1
  <1> QED
    BY <1>2, LimiterInvariant, PTL DEF Spec, PassesAsTold
=============================================================================
