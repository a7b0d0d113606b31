------------------------- MODULE NodeReconcilerProofs -------------------------
(***************************************************************************)
(* Proofs about NodeReconciler, for every set of users, credentials and    *)
(* configurations and every number of faults and crashes.                  *)
(***************************************************************************)
EXTENDS NodeReconciler, TLAPS

-----------------------------------------------------------------------------
(* The operators of the model                                              *)

LEMMA BuildConfigFacts ==
    ASSUME NEW s \in State
    PROVE  /\ BuildConfig(s) \in Conf
           /\ BuildConfig(s).net = s.net
           /\ \A u \in User : BuildConfig(s).users[u] =
                                IF s.users[u] \in Cred THEN s.users[u] ELSE "none"
  BY DEF BuildConfig, State, Conf

LEMMA ApplyDrainFacts ==
    ASSUME NEW p \in State \cup {None}, NEW d \in State
    PROVE  /\ ApplyDrain(p, d) \in State
           /\ ApplyDrain(p, d).mode = d.mode
           /\ ApplyDrain(p, d).net = d.net
           /\ d.mode = "draining" /\ p # None =>
                \A u \in User : p.users[u] = "absent"
                                => ApplyDrain(p, d).users[u] = "absent"
  BY DEF ApplyDrain, State

LEMMA PatchedFacts ==
    ASSUME proc \in Conf, NEW u \in User, NEW c \in Cred \cup {"none"}
    PROVE  /\ Patched(u, c) \in Conf
           /\ Patched(u, c).net = proc.net
           /\ Patched(u, c).users[u] = c
           /\ \A w \in User \ {u} : Patched(u, c).users[w] = proc.users[w]
  BY DEF Patched, Conf

-----------------------------------------------------------------------------
(* Type correctness, one step per action.                                  *)

LEMMA PlanType == TypeOK /\ (StartSync \/ FetchDesired \/ FetchFails
                             \/ WriteCorePolicy \/ WriteCorePolicyFails
                             \/ StopCore \/ BuildConfigFails \/ Plan) => TypeOK'
  <1> USE NoneAssumption, BoundAssumption DEF TypeOK, PC, files, work, count, Goto, Return, Fault
  <1>1. TypeOK /\ StartSync => TypeOK'
    BY DEF StartSync
  <1>2. ASSUME TypeOK, FetchDesired PROVE TypeOK'
    <2>1. ApplyDrain(base, panel) \in State
      BY <1>2, DesiredAssumption, ApplyDrainFacts
    <2>2. QED
      BY <1>2, <2>1 DEF FetchDesired
  <1>3. TypeOK /\ FetchFails => TypeOK'
    BY DEF FetchFails
  <1>4. ASSUME TypeOK, WriteCorePolicy PROVE TypeOK'
    <2>1. target \in State
      BY <1>4 DEF WriteCorePolicy
    <2>2. PolicyOf(target) \in [User -> Entries]
      BY <1>4, <2>1 DEF PolicyOf, State, Entries
    <2>3. QED
      BY <1>4, <2>2 DEF WriteCorePolicy
  <1>5. TypeOK /\ WriteCorePolicyFails => TypeOK'
    BY DEF WriteCorePolicyFails
  <1>6. TypeOK /\ StopCore => TypeOK'
    BY DEF StopCore
  <1>7. TypeOK /\ Plan => TypeOK'
    BY DEF Plan, Changed
  <1>8. TypeOK /\ BuildConfigFails => TypeOK'
    BY DEF BuildConfigFails
  <1>9. QED
    BY <1>1, <1>2, <1>3, <1>4, <1>5, <1>6, <1>7, <1>8

LEMMA ContentFacts ==
    ASSUME target \in State
    PROVE  /\ Content \in Conf
           /\ Content.net = target.net
           /\ \A u \in User : Content.users[u] \in Cred \cup {"none"}
  BY BuildConfigFacts DEF Content

LEMMA HotType == TypeOK /\ Hot => TypeOK'
  <1> USE NoneAssumption, BoundAssumption
      DEF TypeOK, PC, files, work, count, Goto, Fault, Validates, NotValidates
  <1>1. TypeOK /\ HotValidate => TypeOK'
    BY DEF HotValidate
  <1>2. ASSUME TypeOK, NEW u \in User, RemoveUser(u) PROVE TypeOK'
    BY <1>2, PatchedFacts DEF RemoveUser
  <1>3. ASSUME TypeOK, NEW u \in User, AddUser(u) PROVE TypeOK'
    <2>1. proc' \in Conf
      BY <1>3, ContentFacts, PatchedFacts DEF AddUser
    <2>2. QED
      BY <1>3, <2>1 DEF AddUser
  <1>4. ASSUME TypeOK, OperationFails PROVE TypeOK'
    <2>1. proc' \in Conf \cup {None}
      BY <1>4, ContentFacts, PatchedFacts DEF OperationFails
    <2>2. QED
      BY <1>4, <2>1 DEF OperationFails
  <1>5. TypeOK /\ OperationsDone => TypeOK'
    BY ContentFacts DEF OperationsDone
  <1>6. TypeOK /\ Store => TypeOK'
    BY ContentFacts DEF Store
  <1>7. QED
    BY <1>1, <1>2, <1>3, <1>4, <1>5, <1>6 DEF Hot

\* Where the core is started, there is a file to start it on.
StartsFile ==
    proc # None \/ pc \in {"hotValidate", "ops", "store", "restart", "rollbackStart",
                           "keepNew", "start", "health", "recover", "recoverStart"}
      => config # None

LEMMA SwapType == TypeOK /\ StartsFile /\ Swap => TypeOK'
  <1> USE NoneAssumption, BoundAssumption
      DEF TypeOK, StartsFile, PC, files, work, count, Goto, Return, Fault,
          Validates, NotValidates, Started, NotStarted
  <1>1. TypeOK /\ Apply => TypeOK'
    BY DEF Apply
  <1>2. TypeOK /\ ForceApply => TypeOK'
    BY DEF ForceApply
  <1>3. TypeOK /\ KeepOld => TypeOK'
    BY DEF KeepOld
  <1>4. TypeOK /\ Install => TypeOK'
    BY ContentFacts DEF Install
  <1>5. TypeOK /\ StartsFile /\ Restart => TypeOK'
    BY DEF Restart
  <1>6. TypeOK /\ KeepNew => TypeOK'
    BY ContentFacts DEF KeepNew
  <1>7. TypeOK /\ Rollback => TypeOK'
    BY DEF Rollback
  <1>8. TypeOK /\ StartsFile /\ RollbackStart => TypeOK'
    BY DEF RollbackStart
  <1>9. TypeOK /\ StartsFile /\ Start => TypeOK'
    BY DEF Start
  <1>10. QED
    BY <1>1, <1>2, <1>3, <1>4, <1>5, <1>6, <1>7, <1>8, <1>9 DEF Swap

LEMMA RestType == TypeOK /\ StartsFile
                  /\ (Health \/ Recover \/ RecoverWrite \/ RecoverStart
                      \/ PersistState \/ AgentRestarts \/ Environment) => TypeOK'
  <1> USE NoneAssumption, BoundAssumption
      DEF TypeOK, StartsFile, PC, files, work, count, Goto, Return, Fault,
          Started, NotStarted
  <1>1. TypeOK /\ Health => TypeOK'
    BY DEF Health
  <1>2. TypeOK /\ StartsFile /\ Recover => TypeOK'
    BY DEF Recover
  <1>3. TypeOK /\ RecoverWrite => TypeOK'
    BY DEF RecoverWrite
  <1>4. TypeOK /\ StartsFile /\ RecoverStart => TypeOK'
    BY DEF RecoverStart
  <1>5. TypeOK /\ PersistState => TypeOK'
    BY DEF PersistState
  <1>6. TypeOK /\ AgentRestarts => TypeOK'
    BY DEF AgentRestarts
  <1>7. TypeOK /\ PanelChanges => TypeOK'
    BY DEF PanelChanges
  <1>8. TypeOK /\ CoreDies => TypeOK'
    BY DEF CoreDies
  <1>9. TypeOK /\ Crash => TypeOK'
    BY DEF Crash
  <1>10. ASSUME TypeOK, NEW u \in User, TombstoneExpires(u) PROVE TypeOK'
    BY <1>10 DEF TombstoneExpires, Entries
  <1>11. QED
    BY <1>1, <1>2, <1>3, <1>4, <1>5, <1>6, <1>7, <1>8, <1>9, <1>10
       DEF Environment

LEMMA StartsFileStep ==
    TypeOK /\ StartsFile /\ [Next]_vars => StartsFile'
  <1> SUFFICES ASSUME TypeOK, StartsFile, [Next]_vars PROVE StartsFile'
    OBVIOUS
  <1> USE NoneAssumption
      DEF TypeOK, StartsFile, files, work, count, Goto, Return, Fault
  <1>1. pc \notin {"down", "idle", "fetch"} => Content # None
    BY ContentFacts
  <1>2. CASE StartSync \/ FetchDesired \/ FetchFails \/ WriteCorePolicy
             \/ WriteCorePolicyFails \/ StopCore \/ BuildConfigFails \/ Plan
    BY <1>2 DEF StartSync, FetchDesired, FetchFails, WriteCorePolicy,
       WriteCorePolicyFails, StopCore, BuildConfigFails, Plan
  <1>3. CASE Hot
    BY <1>1, <1>3 DEF Hot, HotValidate, RemoveUser, AddUser, OperationFails,
       OperationsDone, Store
  <1>4. CASE Swap
    BY <1>1, <1>4 DEF Swap, Apply, ForceApply, KeepOld, Install, Restart,
       KeepNew, Rollback, RollbackStart, Start, Started, NotStarted
  <1>5. CASE Health \/ Recover \/ RecoverWrite \/ RecoverStart \/ PersistState
    BY <1>5 DEF Health, Recover, RecoverWrite, RecoverStart, PersistState, Started,
       NotStarted
  <1>6. CASE AgentRestarts \/ Environment
    BY <1>6 DEF AgentRestarts, Environment, PanelChanges, CoreDies, Crash,
       TombstoneExpires
  <1>7. CASE UNCHANGED vars
    BY <1>7 DEF vars
  <1>8. QED
    BY <1>2, <1>3, <1>4, <1>5, <1>6, <1>7 DEF Next, Sync

LEMMA TypeStep == TypeOK /\ StartsFile /\ [Next]_vars => TypeOK'
  <1>1. TypeOK /\ UNCHANGED vars => TypeOK'
    BY DEF TypeOK, vars, files, work, count
  <1>2. QED
    BY <1>1, PlanType, HotType, SwapType, RestType DEF Next, Sync

LEMMA TypeInit == Init => TypeOK /\ StartsFile
  BY NoneAssumption, BoundAssumption
     DEF Init, TypeOK, StartsFile, PC, Entries

\* Every reachable state is well typed, whatever faults and crashes happen:
\* sync has a target exactly from the desired state to its return, and
\* never starts the core without a config file.
THEOREM TypeCorrect == Spec => []TypeOK
  BY TypeInit, TypeStep, StartsFileStep, PTL DEF Spec

-----------------------------------------------------------------------------
(* What only a restart changes is recorded after the core has run it,      *)
(* whatever faults happen.  The argument has three parts.  SyncInv: where  *)
(* sync is says what it has established of its target and base.  FilesInv: *)
(* what the files hold was validated, what was recorded is usable.         *)
(* CoreInv: what the core runs was started; a core that no recorded state  *)
(* accounts for runs the config file, so that Apply may take an unchanged  *)
(* file for an unchanged core.                                             *)

\* The core has been started on n, in a configuration it accepts and survives.
Usable(n) == \E c \in proven \ (Invalid \cup Unstartable) : c.net = n

SyncInv ==
    /\ pc \notin {"idle", "down"} => base = prev
    /\ pc \in {"stop"} => ~Serving(target)
    /\ pc \notin {"down", "idle", "fetch", "policy", "stop", "persist"}
         => Serving(target)
    /\ pc \in {"hotValidate", "ops", "store"}
         => Serving(base) /\ base.net = target.net
    /\ pc \in {"keepOld", "install", "restart"} => Content \notin Invalid
    /\ pc \in {"keepNew", "health", "recover", "recoverWrite", "recoverStart"}
         => Usable(target.net)
    /\ pc = "keepNew" => Content \notin Invalid
    /\ pc = "persist" => (Serving(target) => Usable(target.net))
    /\ pc \in {"restart", "start"} => config = Content

FilesInv ==
    /\ Serving(prev) => Usable(prev.net)
    /\ config # None => config \notin Invalid
    /\ backup # None => backup \notin Invalid

CoreInv ==
    /\ proc # None => Usable(proc.net)
    /\ pc \in {"rollback", "rollbackStart", "start", "recoverWrite", "recoverStart"}
         => proc = None
    /\ pc = "persist" /\ ~Serving(target) => proc = None
    /\ pc = "apply" /\ proc # None => ~Serving(base)
    /\ ~Serving(prev) /\ proc # None /\ pc # "restart" => proc = config

UsableInv == TypeOK /\ StartsFile /\ SyncInv /\ FilesInv /\ CoreInv

LEMMA UsableInit == Init => UsableInv
  BY TypeInit DEF Init, UsableInv, SyncInv, FilesInv, CoreInv, Serving

LEMMA UsablePlan ==
    UsableInv /\ (StartSync \/ FetchDesired \/ FetchFails \/ WriteCorePolicy
                  \/ WriteCorePolicyFails \/ StopCore \/ BuildConfigFails \/ Plan)
      => SyncInv' /\ FilesInv' /\ CoreInv'
  <1> USE DEF UsableInv, SyncInv, FilesInv, CoreInv, Usable, Content, Serving,
          files, work, count, Goto, Return, Fault
  <1>1. UsableInv /\ StartSync => SyncInv' /\ FilesInv' /\ CoreInv'
    BY DEF StartSync
  <1>2. UsableInv /\ FetchDesired => SyncInv' /\ FilesInv' /\ CoreInv'
    BY DEF FetchDesired
  <1>3. UsableInv /\ FetchFails => SyncInv' /\ FilesInv' /\ CoreInv'
    BY DEF FetchFails
  <1>4. UsableInv /\ WriteCorePolicy => SyncInv' /\ FilesInv' /\ CoreInv'
    BY DEF WriteCorePolicy
  <1>5. UsableInv /\ WriteCorePolicyFails => SyncInv' /\ FilesInv' /\ CoreInv'
    BY DEF WriteCorePolicyFails
  <1>6. UsableInv /\ StopCore => SyncInv' /\ FilesInv' /\ CoreInv'
    BY DEF StopCore
  <1>7. UsableInv /\ Plan => SyncInv' /\ FilesInv' /\ CoreInv'
    BY DEF Plan
  <1>8. UsableInv /\ BuildConfigFails => SyncInv' /\ FilesInv' /\ CoreInv'
    BY DEF BuildConfigFails
  <1>9. QED
    BY <1>1, <1>2, <1>3, <1>4, <1>5, <1>6, <1>7, <1>8

LEMMA UsableHot == UsableInv /\ Hot => SyncInv' /\ FilesInv' /\ CoreInv'
  <1> USE NoneAssumption
      DEF UsableInv, SyncInv, FilesInv, CoreInv, Usable, Serving,
          files, work, count, Goto, Fault, Validates, NotValidates
  <1>1. ASSUME UsableInv, pc \in {"hotValidate", "ops", "store"}
        PROVE  /\ Content \in Conf
               /\ Content.net = target.net
               /\ Usable(target.net)
               /\ \A u \in User : proc # None => Patched(u, Content.users[u]).net = proc.net
               /\ \A u \in User : proc # None => Patched(u, "none").net = proc.net
    BY <1>1, ContentFacts, PatchedFacts DEF TypeOK
  <1>9. ASSUME UNCHANGED target PROVE Content' = Content
    BY <1>9 DEF Content
  <1>2. UsableInv /\ HotValidate => SyncInv' /\ FilesInv' /\ CoreInv'
    BY DEF HotValidate, Content
  <1>3. ASSUME UsableInv, NEW u \in User, RemoveUser(u)
        PROVE  SyncInv' /\ FilesInv' /\ CoreInv'
    BY <1>1, <1>3 DEF RemoveUser
  <1>4. ASSUME UsableInv, NEW u \in User, AddUser(u)
        PROVE  SyncInv' /\ FilesInv' /\ CoreInv'
    BY <1>1, <1>4 DEF AddUser
  <1>5. ASSUME UsableInv, OperationFails PROVE SyncInv' /\ FilesInv' /\ CoreInv'
    <2>1. pc = "ops" /\ pc' = "health" /\ UNCHANGED <<files, work, proven>>
      BY <1>5 DEF OperationFails
    <2>2. proc' = proc \/ (proc # None /\ proc' # None /\ proc'.net = proc.net)
      BY <1>1, <1>5, <2>1, PatchedFacts, ContentFacts DEF OperationFails, TypeOK
    <2>3. QED
      BY <1>5, <2>1, <2>2
  <1>6. UsableInv /\ OperationsDone => SyncInv' /\ FilesInv' /\ CoreInv'
    BY DEF OperationsDone
  <1>7. UsableInv /\ Store => SyncInv' /\ FilesInv' /\ CoreInv'
    BY <1>1, <1>9 DEF Store
  <1>8. QED
    BY <1>2, <1>3, <1>4, <1>5, <1>6, <1>7 DEF Hot

LEMMA UsableSwap == UsableInv /\ Swap => SyncInv' /\ FilesInv' /\ CoreInv'
  <1> USE NoneAssumption
      DEF UsableInv, StartsFile, SyncInv, FilesInv, CoreInv, Usable, Serving,
          files, work, count, Goto, Return, Fault, Validates, NotValidates,
          Started, NotStarted
  <1>1. ASSUME UsableInv, target # None
        PROVE  Content \in Conf /\ Content.net = target.net
    BY <1>1, ContentFacts DEF TypeOK
  <1>2. ASSUME UNCHANGED target PROVE Content' = Content
    BY <1>2 DEF Content
  <1>3. UsableInv /\ Apply => SyncInv' /\ FilesInv' /\ CoreInv'
    BY <1>1, <1>2 DEF Apply
  <1>4. UsableInv /\ ForceApply => SyncInv' /\ FilesInv' /\ CoreInv'
    BY <1>1, <1>2 DEF ForceApply
  <1>5. UsableInv /\ KeepOld => SyncInv' /\ FilesInv' /\ CoreInv'
    BY <1>2 DEF KeepOld
  <1>6. UsableInv /\ Install => SyncInv' /\ FilesInv' /\ CoreInv'
    BY <1>1, <1>2 DEF Install
  <1>7. UsableInv /\ Restart => SyncInv' /\ FilesInv' /\ CoreInv'
    BY <1>1, <1>2 DEF Restart
  <1>8. UsableInv /\ KeepNew => SyncInv' /\ FilesInv' /\ CoreInv'
    BY <1>1 DEF KeepNew
  <1>9. UsableInv /\ Rollback => SyncInv' /\ FilesInv' /\ CoreInv'
    BY DEF Rollback
  <1>10. UsableInv /\ RollbackStart => SyncInv' /\ FilesInv' /\ CoreInv'
    BY DEF RollbackStart
  <1>11. UsableInv /\ Start => SyncInv' /\ FilesInv' /\ CoreInv'
    BY <1>1 DEF Start
  <1>12. QED
    BY <1>3, <1>4, <1>5, <1>6, <1>7, <1>8, <1>9, <1>10, <1>11 DEF Swap

LEMMA UsableRest ==
    UsableInv /\ (Health \/ Recover \/ RecoverWrite \/ RecoverStart
                  \/ PersistState \/ AgentRestarts \/ Environment \/ UNCHANGED vars)
      => SyncInv' /\ FilesInv' /\ CoreInv'
  <1> USE NoneAssumption
      DEF UsableInv, StartsFile, SyncInv, FilesInv, CoreInv, Usable, Serving,
          files, work, count, Goto, Return, Fault, Started, NotStarted
  <1>1. UsableInv /\ Health => SyncInv' /\ FilesInv' /\ CoreInv'
    BY DEF Health
  <1>2. UsableInv /\ Recover => SyncInv' /\ FilesInv' /\ CoreInv'
    BY DEF Recover
  <1>3. UsableInv /\ RecoverWrite => SyncInv' /\ FilesInv' /\ CoreInv'
    BY DEF RecoverWrite
  <1>4. UsableInv /\ RecoverStart => SyncInv' /\ FilesInv' /\ CoreInv'
    BY DEF RecoverStart
  <1>5. UsableInv /\ PersistState => SyncInv' /\ FilesInv' /\ CoreInv'
    BY DEF PersistState
  <1>6. UsableInv /\ AgentRestarts => SyncInv' /\ FilesInv' /\ CoreInv'
    BY DEF AgentRestarts
  <1>7. UsableInv /\ PanelChanges => SyncInv' /\ FilesInv' /\ CoreInv'
    BY DEF PanelChanges, Content
  <1>8. UsableInv /\ CoreDies => SyncInv' /\ FilesInv' /\ CoreInv'
    BY DEF CoreDies, Content
  <1>9. UsableInv /\ Crash => SyncInv' /\ FilesInv' /\ CoreInv'
    BY DEF Crash
  <1>10. ASSUME UsableInv, NEW u \in User, TombstoneExpires(u)
         PROVE  SyncInv' /\ FilesInv' /\ CoreInv'
    BY <1>10 DEF TombstoneExpires
  <1>11. UsableInv /\ UNCHANGED vars => SyncInv' /\ FilesInv' /\ CoreInv'
    BY DEF vars, Content
  <1>12. QED
    BY <1>1, <1>2, <1>3, <1>4, <1>5, <1>6, <1>7, <1>8, <1>9, <1>10, <1>11
       DEF Environment

LEMMA UsableStep == UsableInv /\ [Next]_vars => UsableInv'
  <1> SUFFICES ASSUME UsableInv, [Next]_vars PROVE UsableInv'
    OBVIOUS
  <1>1. TypeOK' /\ StartsFile'
    BY TypeStep, StartsFileStep DEF UsableInv
  <1>2. SyncInv' /\ FilesInv' /\ CoreInv'
    BY UsablePlan, UsableHot, UsableSwap, UsableRest DEF Next, Sync
  <1>3. QED
    BY <1>1, <1>2 DEF UsableInv

\* The part of a recorded state that no hot change can bring about is one
\* the core has been started on, whatever faults and crashes happen
\* (Restart, Recover, PersistState).
THEOREM RecordedNetHasRun == Spec => []NetHasRun
  <1>1. UsableInv => NetHasRun
    BY DEF UsableInv, FilesInv, Usable, NetHasRun
  <1>2. QED
    BY UsableInit, UsableStep, <1>1, PTL DEF Spec

-----------------------------------------------------------------------------
(* Crashes, deaths of the core, also in the middle of a plan, and lost     *)
(* backups never make the agent record what the core does not run, as long *)
(* as hot operations succeed on a running core, files can be written, a    *)
(* core that passes run -test starts, and run -test rejects nothing for    *)
(* its users (HotAccepted: the panel's credentials are well formed; with   *)
(* one that is not, the sync whose hot path it fails records it all the    *)
(* same, agent.go:191 and 206).  Half is the user table between the steps  *)
(* of a plan: what is still to remove is as in base, what is still to add  *)
(* is missing, the rest is as wanted.                                      *)

HotAccepted ==
    \A c, d \in Conf : c.net = d.net /\ c \notin Invalid => d \notin Invalid

Reliable ==
    FaultKinds \subseteq {"death", "api", "backup"} /\ Unstartable = {} /\ HotAccepted

\* A net the core has run is one it accepts, for any users.
LEMMA UsableIsAccepted ==
    ASSUME HotAccepted, UsableInv, target # None, Usable(target.net)
    PROVE  Content \notin Invalid
  <1>1. Content \in Conf /\ Content.net = target.net /\ proven \subseteq Conf
    BY ContentFacts DEF UsableInv, TypeOK
  <1>2. QED
    BY <1>1 DEF HotAccepted, Usable

AsRecorded == proc # None => Serving(prev) /\ proc = BuildConfig(prev)
AsWanted   == proc # None => proc = Content

Half(u) == IF u \in removing THEN BuildConfig(base).users[u]
           ELSE IF u \in adding THEN "none" ELSE Content.users[u]

HalfDone ==
    /\ \A u \in removing : /\ base.users[u] \in Cred
                           /\ u \in adding \/ target.users[u] \notin Cred
    /\ proc # None => /\ proc.net = target.net
                      /\ \A u \in User : proc.users[u] = Half(u)

PlannedUsers ==
    /\ removing = {u \in Changed(base, target) : base.users[u] \in Cred}
    /\ adding = {u \in Changed(base, target) : target.users[u] \in Cred}

StageInv ==
    /\ pc \in {"idle", "down", "fetch", "policy", "stop", "plan", "hotValidate"}
         => AsRecorded
    /\ pc = "hotValidate" => PlannedUsers
    /\ pc = "ops" => Content \notin Invalid /\ HalfDone
    /\ pc = "store" => Content \notin Invalid /\ AsWanted
    /\ pc = "force" => AsRecorded
    /\ pc \in {"apply", "start"} => proc = None
    /\ pc \in {"keepNew", "recover"} => config = Content
    /\ pc = "health" /\ proc # None => config = Content
    /\ pc \in {"keepNew", "health", "recover", "persist"} => AsWanted
    /\ pc \notin {"rollback", "rollbackStart", "recoverWrite", "recoverStart"}

AppliedInv == UsableInv /\ StageInv

LEMMA StageInit == Init => AppliedInv
  BY UsableInit DEF Init, AppliedInv, StageInv, AsRecorded

\* A hot plan starts from half-done and ends at the desired configuration.
LEMMA HalfDoneStarts ==
    ASSUME UsableInv, pc = "hotValidate", PlannedUsers,
           proc # None => proc = BuildConfig(base)
    PROVE  HalfDone
  <1>1. target \in State /\ base \in State
    BY DEF UsableInv, TypeOK, SyncInv, Serving
  <1>2. base.net = target.net
    BY DEF UsableInv, SyncInv
  <1>3. \A u \in User : BuildConfig(base).users[u] = Half(u)
    BY <1>1, BuildConfigFacts DEF PlannedUsers, Half, Changed, Content
  <1>4. BuildConfig(base).net = target.net
    BY <1>1, <1>2, BuildConfigFacts
  <1>5. \A u \in removing : /\ base.users[u] \in Cred
                            /\ u \in adding \/ target.users[u] \notin Cred
    BY DEF PlannedUsers
  <1>6. QED
    BY <1>3, <1>4, <1>5 DEF HalfDone

LEMMA HalfDoneGoesOn ==
    ASSUME UsableInv, HalfDone, NEW u \in User, RemoveUser(u) \/ AddUser(u)
    PROVE  HalfDone'
  <1>1. target \in State /\ base \in State
    BY DEF RemoveUser, AddUser, UsableInv, TypeOK, SyncInv, Serving
  <1>2. /\ Content.net = target.net
        /\ \A w \in User : Content.users[w] =
                               IF target.users[w] \in Cred THEN target.users[w] ELSE "none"
    BY <1>1, BuildConfigFacts DEF Content
  <1>3. proc \in Conf
    BY DEF RemoveUser, AddUser, UsableInv, TypeOK
  <1>4. CASE RemoveUser(u)
    BY <1>1, <1>2, <1>3, <1>4, PatchedFacts DEF RemoveUser, HalfDone, Half, Content
  <1>5. CASE AddUser(u)
    BY <1>1, <1>2, <1>3, <1>5, PatchedFacts DEF AddUser, HalfDone, Half, Content
  <1>6. QED
    BY <1>4, <1>5

\* The core refuses nothing of it.
LEMMA HalfDoneFails ==
    ASSUME UsableInv, HalfDone, OperationFails, ~Fault("op")
    PROVE  proc = None /\ proc' = None
  <1>1. base \in State
    BY DEF OperationFails, UsableInv, TypeOK, SyncInv, Serving
  <1>2. ASSUME proc # None, removing = {}, NEW u \in adding, proc.users[u] # "none"
        PROVE  FALSE
    BY <1>2 DEF HalfDone, Half, UsableInv, TypeOK
  <1>3. ASSUME proc # None, NEW u \in removing, proc.users[u] = "none"
        PROVE  FALSE
    <2>1. u \in User
      BY <1>3 DEF UsableInv, TypeOK
    <2>2. base.users[u] \in Cred /\ proc.users[u] = Half(u)
      BY <1>3, <2>1 DEF HalfDone
    <2>3. Half(u) = base.users[u]
      BY <1>1, <1>3, <2>1, <2>2, BuildConfigFacts DEF Half
    <2>4. QED
      BY <1>3, <2>2, <2>3, CredAssumption
  <1>4. QED
    BY <1>2, <1>3 DEF OperationFails

LEMMA HalfDoneEnds ==
    ASSUME UsableInv, HalfDone, OperationsDone
    PROVE  AsWanted
  <1> SUFFICES ASSUME proc # None PROVE proc = Content
    BY DEF AsWanted
  <1>1. proc \in Conf /\ Content \in Conf /\ Content.net = target.net
    BY ContentFacts DEF OperationsDone, UsableInv, TypeOK
  <1>2. proc.net = Content.net /\ \A u \in User : proc.users[u] = Content.users[u]
    BY <1>1 DEF OperationsDone, HalfDone, Half
  <1>3. proc.users = Content.users
    BY <1>1, <1>2 DEF Conf
  <1>4. QED
    BY <1>1, <1>2, <1>3 DEF Conf

LEMMA StagePlan ==
    Reliable /\ AppliedInv
    /\ (StartSync \/ FetchDesired \/ FetchFails \/ WriteCorePolicy
        \/ WriteCorePolicyFails \/ StopCore \/ BuildConfigFails \/ Plan)
      => StageInv'
  <1> USE DEF Reliable, AppliedInv, StageInv, AsRecorded, AsWanted, Serving,
          files, work, count, Goto, Return, Fault
  <1>1. AppliedInv /\ StartSync => StageInv'
    BY DEF StartSync
  <1>2. AppliedInv /\ FetchDesired => StageInv'
    BY DEF FetchDesired
  <1>3. AppliedInv /\ FetchFails => StageInv'
    BY DEF FetchFails
  <1>4. AppliedInv /\ WriteCorePolicy => StageInv'
    BY DEF WriteCorePolicy
  <1>5. Reliable /\ AppliedInv /\ WriteCorePolicyFails => StageInv'
    BY DEF WriteCorePolicyFails
  <1>6. AppliedInv /\ StopCore => StageInv'
    BY DEF StopCore
  <1>7. ASSUME AppliedInv, Plan PROVE StageInv'
    <2>1. base = prev
      BY <1>7 DEF Plan, UsableInv, SyncInv
    <2>2. QED
      BY <1>7, <2>1 DEF Plan, PlannedUsers, Changed
  <1>8. AppliedInv /\ BuildConfigFails => StageInv'
    BY DEF BuildConfigFails
  <1>9. QED
    BY <1>1, <1>2, <1>3, <1>4, <1>5, <1>6, <1>7, <1>8

LEMMA StageHot == Reliable /\ AppliedInv /\ Hot => StageInv'
  <1> SUFFICES ASSUME Reliable, AppliedInv, Hot PROVE StageInv'
    OBVIOUS
  <1> USE DEF files, work, count, Goto
  <1>1. pc \in {"hotValidate", "ops", "store"}
    BY DEF Hot, HotValidate, RemoveUser, AddUser, OperationFails, OperationsDone,
       Store
  <1>2. target \in State /\ base \in State /\ base = prev
    BY <1>1 DEF AppliedInv, UsableInv, TypeOK, SyncInv, Serving
  <1>3. /\ Content.net = target.net
        /\ \A u \in User : Content.users[u] =
                               IF target.users[u] \in Cred THEN target.users[u] ELSE "none"
    BY <1>2, BuildConfigFacts DEF Content
  <1>4. CASE HotValidate
    <2>1. HalfDone
      BY <1>2, <1>4, HalfDoneStarts DEF HotValidate, AppliedInv, StageInv, AsRecorded
    <2>2. Validates /\ Goto("ops")
      <3>1. Usable(target.net)
        BY <1>2, <1>4 DEF HotValidate, AppliedInv, UsableInv, SyncInv, FilesInv
      <3>2. QED
        BY <1>2, <1>4, <3>1, NoneAssumption, UsableIsAccepted
           DEF HotValidate, NotValidates, Reliable, Fault, AppliedInv
    <2>3. QED
      <3>1. HalfDone'
        BY <1>4, <2>1, <2>2 DEF HotValidate, HalfDone, Half, Content
      <3>2. Content' \notin Invalid
        BY <2>2 DEF Validates, Content
      <3>3. QED
        BY <2>2, <3>1, <3>2 DEF StageInv
  <1>5. ASSUME NEW u \in User, RemoveUser(u) PROVE StageInv'
    <2>1. Content \notin Invalid /\ HalfDone
      BY <1>5 DEF RemoveUser, AppliedInv, StageInv
    <2>2. HalfDone'
      BY <1>5, <2>1, HalfDoneGoesOn DEF AppliedInv
    <2>3. QED
      BY <1>5, <2>1, <2>2 DEF RemoveUser, StageInv, Content
  <1>6. ASSUME NEW u \in User, AddUser(u) PROVE StageInv'
    <2>1. Content \notin Invalid /\ HalfDone
      BY <1>6 DEF AddUser, AppliedInv, StageInv
    <2>2. HalfDone'
      BY <1>6, <2>1, HalfDoneGoesOn DEF AppliedInv
    <2>3. QED
      BY <1>6, <2>1, <2>2 DEF AddUser, StageInv, Content
  <1>7. CASE OperationFails
    <2>1. HalfDone /\ pc = "ops"
      BY <1>7 DEF OperationFails, AppliedInv, StageInv
    <2>2. ~Fault("op")
      BY DEF Reliable, Fault
    <2>3. proc = None /\ proc' = None
      BY <1>7, <2>1, <2>2, HalfDoneFails DEF AppliedInv
    <2>4. QED
      BY <1>7, <2>3 DEF OperationFails, StageInv, AsWanted
  <1>8. CASE OperationsDone
    <2>1. AsWanted
      BY <1>8, HalfDoneEnds DEF OperationsDone, AppliedInv, StageInv
    <2>2. AsWanted'
      BY <1>8, <2>1 DEF OperationsDone, AsWanted, Content
    <2>3. QED
      BY <1>8, <2>2 DEF OperationsDone, AppliedInv, StageInv, Content
  <1>9. CASE Store
    <2>1. Content \notin Invalid /\ AsWanted
      BY <1>9 DEF Store, AppliedInv, StageInv
    <2>2. ~NotValidates /\ ~Fault("write")
      BY <2>1 DEF Reliable, NotValidates, Fault
    <2>3. Content' = Content /\ AsWanted'
      BY <1>9, <2>1, <2>2 DEF Store, AsWanted, Content
    <2>4. QED
      BY <1>9, <2>2, <2>3 DEF Store, StageInv
  <1>10. QED
    BY <1>4, <1>5, <1>6, <1>7, <1>8, <1>9 DEF Hot

LEMMA StageSwap == Reliable /\ AppliedInv /\ Swap => StageInv'
  <1> USE DEF Reliable, AppliedInv, StageInv, AsRecorded, AsWanted,
          files, work, count, Goto, Return, Fault
  <1>1. ASSUME UNCHANGED target PROVE Content' = Content
    BY <1>1 DEF Content
  <1>2. ASSUME AppliedInv, target # None PROVE Content.net = target.net
    BY <1>2, ContentFacts DEF UsableInv, TypeOK
  <1>3. AppliedInv /\ Apply => StageInv'
    BY DEF Apply
  <1>4. ASSUME Reliable, AppliedInv, ForceApply PROVE StageInv'
    <2>1. Content.net = target.net
      BY <1>2, <1>4 DEF ForceApply, UsableInv, TypeOK
    <2>2. QED
      BY <1>4, <2>1 DEF ForceApply, NotValidates
  <1>5. AppliedInv /\ KeepOld => StageInv'
    BY DEF KeepOld
  <1>6. Reliable /\ AppliedInv /\ Install => StageInv'
    BY DEF Install
  <1>7. ASSUME Reliable, AppliedInv, Restart PROVE StageInv'
    <2>1. config = Content
      BY <1>7 DEF Restart, UsableInv, SyncInv
    <2>2. QED
      BY <1>1, <1>7, <2>1 DEF Restart, Started, NotStarted
  <1>8. AppliedInv /\ KeepNew => StageInv'
    BY <1>1 DEF KeepNew
  <1>9. AppliedInv => ~Rollback /\ ~RollbackStart
    BY DEF Rollback, RollbackStart
  <1>10. ASSUME Reliable, AppliedInv, Start PROVE StageInv'
    <2>1. config = Content
      BY <1>10 DEF Start, UsableInv, SyncInv
    <2>2. QED
      BY <1>1, <1>10, <2>1 DEF Start, Started, NotStarted
  <1>11. QED
    BY <1>3, <1>4, <1>5, <1>6, <1>7, <1>8, <1>9, <1>10 DEF Swap

LEMMA StageRest ==
    Reliable /\ AppliedInv
    /\ (Health \/ Recover \/ RecoverWrite \/ RecoverStart \/ PersistState
        \/ AgentRestarts \/ Environment \/ UNCHANGED vars)
      => StageInv'
  <1> USE DEF Reliable, AppliedInv, StageInv, AsRecorded, AsWanted,
          files, work, count, Goto, Return, Fault
  <1>1. ASSUME UNCHANGED target PROVE Content' = Content
    BY <1>1 DEF Content
  <1>2. AppliedInv /\ Health => StageInv'
    BY <1>1 DEF Health
  <1>3. Reliable /\ AppliedInv /\ Recover => StageInv'
    BY <1>1 DEF Recover, Started, NotStarted
  <1>4. AppliedInv => ~RecoverWrite /\ ~RecoverStart
    BY DEF RecoverWrite, RecoverStart
  <1>5. ASSUME Reliable, AppliedInv, PersistState PROVE StageInv'
    <2>1. proc # None => Serving(target) /\ proc = BuildConfig(target)
      BY <1>5 DEF PersistState, UsableInv, CoreInv, Content
    <2>2. QED
      BY <1>5, <2>1 DEF PersistState
  <1>6. AppliedInv /\ AgentRestarts => StageInv'
    BY DEF AgentRestarts
  <1>7. AppliedInv /\ PanelChanges => StageInv'
    BY DEF PanelChanges, PlannedUsers, HalfDone, Half, Content
  <1>8. AppliedInv /\ CoreDies => StageInv'
    BY DEF CoreDies, PlannedUsers, HalfDone, Content
  <1>9. AppliedInv /\ Crash => StageInv'
    BY DEF Crash
  <1>10. ASSUME AppliedInv, NEW u \in User, TombstoneExpires(u) PROVE StageInv'
    BY <1>10 DEF TombstoneExpires
  <1>11. AppliedInv /\ UNCHANGED vars => StageInv'
    BY DEF vars, PlannedUsers, HalfDone, Half, Content
  <1>12. QED
    BY <1>2, <1>3, <1>4, <1>5, <1>6, <1>7, <1>8, <1>9, <1>10, <1>11
       DEF Environment

LEMMA AppliedStep == Reliable /\ AppliedInv /\ [Next]_vars => AppliedInv'
  <1> SUFFICES ASSUME Reliable, AppliedInv, [Next]_vars PROVE AppliedInv'
    OBVIOUS
  <1>1. UsableInv'
    BY UsableStep DEF AppliedInv
  <1>2. StageInv'
    BY StagePlan, StageHot, StageSwap, StageRest DEF Next, Sync
  <1>3. QED
    BY <1>1, <1>2 DEF AppliedInv

LEMMA AppliedInvariant ==
    ASSUME Reliable
    PROVE  Spec => []AppliedInv
  BY Reliable, StageInit, AppliedStep, PTL DEF Spec

\* The state sync persists and reports as applied is the one the running
\* core has, through crashes, API faults and cores that die during a plan.
THEOREM RecordsWhatRuns ==
    ASSUME Reliable
    PROVE  Spec => []AppliedBeforePersist
  <1>1. AppliedInv => AppliedBeforePersist
    BY DEF AppliedInv, StageInv, AsWanted, AppliedBeforePersist, UsableInv, CoreInv
  <1>2. QED
    BY AppliedInvariant, <1>1, PTL

\* Every hot plan is a difference from what the core really runs.
THEOREM PlansFromWhatRuns ==
    ASSUME Reliable
    PROVE  Spec => []PlanFromRunning
  <1>1. AppliedInv => PlanFromRunning
    BY DEF AppliedInv, StageInv, AsRecorded, PlanFromRunning, UsableInv, SyncInv
  <1>2. QED
    BY AppliedInvariant, <1>1, PTL

-----------------------------------------------------------------------------
(* Draining.  ApplyDrain leaves the target without users base did not      *)
(* know; whatever changes the core brings it closer to the target.         *)

DrainInv ==
    base # None /\ target # None /\ target.mode = "draining" =>
        \A u \in User : base.users[u] = "absent" => target.users[u] = "absent"

LEMMA DrainStep == AppliedInv /\ DrainInv /\ [Next]_vars => DrainInv'
  <1> SUFFICES ASSUME AppliedInv, DrainInv, [Next]_vars PROVE DrainInv'
    OBVIOUS
  <1> USE DEF DrainInv, files, work, count, Goto, Return
  <1>1. CASE FetchDesired
    <2>1. base \in State \cup {None} /\ panel \in State
      BY DesiredAssumption DEF AppliedInv, UsableInv, TypeOK
    <2>2. QED
      BY <1>1, <2>1, ApplyDrainFacts DEF FetchDesired
  <1>2. CASE StartSync
    BY <1>2, NoneAssumption DEF StartSync, AppliedInv, UsableInv, TypeOK
  <1>3. CASE UNCHANGED <<base, target>> \/ target' = None
    BY <1>3
  <1>4. Next => FetchDesired \/ StartSync \/ UNCHANGED <<base, target>> \/ target' = None
    BY DEF Next, Sync, FetchFails, WriteCorePolicy, WriteCorePolicyFails,
       StopCore, BuildConfigFails, Plan, Hot, HotValidate, RemoveUser, AddUser, OperationFails,
       OperationsDone, Store, Swap, Apply, ForceApply, KeepOld, Install, Restart,
       KeepNew, Rollback, RollbackStart, Start, Health, Recover, RecoverWrite,
       RecoverStart, PersistState, AgentRestarts, Environment, PanelChanges,
       CoreDies, Crash, TombstoneExpires
  <1>5. QED
    BY <1>1, <1>2, <1>3, <1>4 DEF vars

Planned == pc \notin {"down", "idle", "fetch", "policy"}

\* What a step makes of the core: nothing, less, or more like the target.
LEMMA CoreStep ==
    ASSUME Reliable, AppliedInv, [Next]_vars, proc' # None, NEW u \in User,
           proc'.users[u] # "none"
    PROVE  \/ proc # None /\ proc.users[u] # "none"
           \/ Planned /\ Content.users[u] # "none"
  <1> USE DEF AppliedInv, StageInv, files, work, count
  <1>1. ASSUME NEW w \in User, NEW c \in Cred \cup {"none"}, proc # None,
               proc' = Patched(w, c), c = "none" \/ c = Content.users[w]
        PROVE  proc.users[u] # "none" \/ Content.users[u] # "none"
    <2>1. proc \in Conf
      BY <1>1 DEF UsableInv, TypeOK
    <2>2. CASE w = u
      BY <1>1, <2>1, <2>2, PatchedFacts
    <2>3. CASE w # u
      BY <1>1, <2>1, <2>3, PatchedFacts
    <2>4. QED
      BY <2>2, <2>3
  <1>2. target # None => \A w \in User : Content.users[w] \in Cred \cup {"none"}
    BY ContentFacts DEF UsableInv, TypeOK
  <1>3. Planned => target # None
    BY DEF Planned, UsableInv, TypeOK
  <1>4. ASSUME NEW w \in User, RemoveUser(w)
        PROVE  \/ proc # None /\ proc.users[u] # "none"
               \/ Planned /\ Content.users[u] # "none"
    <2>1. proc # None /\ proc' = Patched(w, "none") /\ Planned
      BY <1>4 DEF RemoveUser, Planned
    <2>2. proc.users[u] # "none" \/ Content.users[u] # "none"
      BY <1>1, <2>1
    <2>3. QED
      BY <2>1, <2>2
  <1>5. ASSUME NEW w \in User, AddUser(w)
        PROVE  \/ proc # None /\ proc.users[u] # "none"
               \/ Planned /\ Content.users[u] # "none"
    <2>1. proc # None /\ proc' = Patched(w, Content.users[w]) /\ Planned
      BY <1>5 DEF AddUser, Planned
    <2>2. Content.users[w] \in Cred \cup {"none"}
      BY <1>2, <1>3, <2>1
    <2>3. proc.users[u] # "none" \/ Content.users[u] # "none"
      BY <1>1, <2>1, <2>2
    <2>4. QED
      BY <2>1, <2>3
  <1>6. CASE OperationFails
    <2>1. \/ proc' = proc
          \/ proc # None /\ \E w \in removing : proc' = Patched(w, "none")
          \/ proc # None /\ \E w \in adding : proc' = Patched(w, Content.users[w])
      BY <1>6 DEF OperationFails
    <2>2. removing \subseteq User /\ adding \subseteq User /\ Planned
      BY <1>6 DEF OperationFails, Planned, UsableInv, TypeOK
    <2>3. QED
      BY <1>1, <1>2, <1>3, <2>1, <2>2
  <1>7. CASE Restart \/ Start \/ Recover
    <2>1. config = Content /\ Planned
      BY <1>7 DEF Restart, Start, Recover, Planned, UsableInv, SyncInv
    <2>2. proc' = config
      BY <1>7 DEF Restart, Start, Recover, Started, NotStarted
    <2>3. QED
      BY <2>1, <2>2
  <1>8. ~Rollback /\ ~RollbackStart /\ ~RecoverWrite /\ ~RecoverStart
    BY DEF Rollback, RollbackStart, RecoverWrite, RecoverStart
  <1>9. CASE proc' = proc
    BY <1>9
  <1>10. proc' = proc \/ OperationFails \/ Restart \/ Start \/ Recover
         \/ \E w \in User : RemoveUser(w) \/ AddUser(w)
    BY <1>8 DEF vars, Next, Sync, StartSync, FetchDesired, FetchFails,
       WriteCorePolicy, WriteCorePolicyFails, StopCore, BuildConfigFails, Plan, Hot, HotValidate,
       OperationsDone, Store, Swap, Apply, ForceApply, KeepOld, Install, KeepNew,
       Health, PersistState, AgentRestarts, Environment, PanelChanges, CoreDies,
       Crash, TombstoneExpires
  <1>11. QED
    BY <1>4, <1>5, <1>6, <1>7, <1>9, <1>10

\* A sync that drains the node lets in nobody the persisted state did not
\* know, whether it patches, restarts or recovers the core.
THEOREM DrainIsClosed ==
    ASSUME Reliable
    PROVE  Spec => DrainAddsNobody
  <1>1. Init => DrainInv
    BY DEF Init, DrainInv
  <1>2. ASSUME AppliedInv, DrainInv, [Next]_vars
        PROVE  [(base # None /\ target # None /\ target.mode = "draining" /\ proc' # None) =>
                  \A u \in User : base.users[u] = "absent" /\ proc'.users[u] # "none"
                                  => proc # None /\ proc.users[u] # "none"]_vars
    <2>1. target # None => \A u \in User : target.users[u] = "absent" => Content.users[u] = "none"
      BY <1>2, BuildConfigFacts, CredAssumption
         DEF Content, AppliedInv, UsableInv, TypeOK
    <2>2. QED
      BY Reliable, <1>2, <2>1, CoreStep DEF DrainInv
  <1>3. QED
    BY Reliable, AppliedInvariant, DrainStep, <1>1, <1>2, PTL DEF Spec, DrainAddsNobody

-----------------------------------------------------------------------------
(* The policy file covers the core: before the policy of a sync is written *)
(* the core has nobody the file does not carry as a user, after it nobody  *)
(* the file does not carry at least as a tombstone.                        *)

PolicyInv ==
    /\ ~Planned /\ proc # None =>
         \A u \in User : proc.users[u] # "none" => policy[u] \in {"open", "blocked"}
    /\ Planned => \A u \in User : target.users[u] \in Cred => policy[u] = "open"
    /\ proc # None => \A u \in User : proc.users[u] # "none" => policy[u] # "none"

LEMMA WantedIsOpen ==
    ASSUME AppliedInv, PolicyInv, Planned, NEW u \in User, Content.users[u] # "none"
    PROVE  policy[u] = "open"
  BY BuildConfigFacts, CredAssumption, NoneAssumption
     DEF Planned, PolicyInv, Content, AppliedInv, UsableInv, TypeOK

\* The steps that change the file or leave a sync: all others keep Planned,
\* the target and the file.
LEMMA PolicySteps ==
    ASSUME Reliable, Unbuildable = {}, Invalid = {}, AppliedInv, [Next]_vars
    PROVE  \/ Planned' = Planned /\ UNCHANGED <<target, policy>>
           \/ ~Planned /\ ~Planned' /\ UNCHANGED policy /\ (proc' = proc \/ proc' = None)
           \/ WriteCorePolicy
           \/ PersistState
           \/ Crash
           \/ \E u \in User : TombstoneExpires(u)
  <1> USE DEF Reliable, AppliedInv, StageInv, Planned, files, work, count, Goto,
          Return, Fault
  <1>1. CASE StartSync \/ FetchDesired \/ FetchFails \/ WriteCorePolicyFails
             \/ StopCore \/ BuildConfigFails \/ Plan
    BY <1>1 DEF StartSync, FetchDesired, FetchFails, WriteCorePolicyFails,
       StopCore, BuildConfigFails, Plan
  <1>2. CASE Hot
    BY <1>2 DEF Hot, HotValidate, RemoveUser, AddUser, OperationFails,
       OperationsDone, Store
  <1>3. CASE Swap
    BY <1>3 DEF Swap, Apply, ForceApply, KeepOld, Install, Restart, KeepNew,
       Rollback, RollbackStart, Start, Started, NotStarted, NotValidates
  <1>4. CASE Health \/ Recover \/ RecoverWrite \/ RecoverStart
    BY <1>4 DEF Health, Recover, RecoverWrite, RecoverStart, Started, NotStarted
  <1>5. CASE AgentRestarts \/ PanelChanges \/ CoreDies \/ UNCHANGED vars
    BY <1>5 DEF AgentRestarts, PanelChanges, CoreDies, vars
  <1>6. QED
    BY <1>1, <1>2, <1>3, <1>4, <1>5 DEF Next, Sync, Environment

LEMMA PolicyStep ==
    ASSUME Reliable, Unbuildable = {}, Invalid = {}
    PROVE  AppliedInv /\ PolicyInv /\ [Next]_vars => PolicyInv'
  <1> SUFFICES ASSUME AppliedInv, PolicyInv, [Next]_vars PROVE PolicyInv'
    OBVIOUS
  <1>1. CASE Planned' = Planned /\ UNCHANGED <<target, policy>>
    <2>1. ASSUME NEW u \in User, proc' # None, proc'.users[u] # "none"
          PROVE  \/ proc # None /\ proc.users[u] # "none"
                 \/ Planned /\ policy[u] = "open"
      BY Reliable, <2>1, CoreStep, WantedIsOpen
    <2>2. QED
      BY <1>1, <2>1 DEF PolicyInv
  <1>2. CASE ~Planned /\ ~Planned' /\ UNCHANGED policy /\ (proc' = proc \/ proc' = None)
    BY <1>2 DEF PolicyInv
  <1>3. CASE WriteCorePolicy
    <2>1. target \in State /\ UNCHANGED <<proc, target>> /\ ~Planned
      BY <1>3 DEF WriteCorePolicy, Goto, work, Planned, AppliedInv, UsableInv, TypeOK
    <2>2. Planned'
      BY <1>3 DEF WriteCorePolicy, Goto, Planned
    <2>3. \A u \in User : /\ target.users[u] \in Cred => policy'[u] = "open"
                          /\ policy[u] # "none" => policy'[u] # "none"
      BY <1>3, <2>1, CredAssumption DEF WriteCorePolicy, PolicyOf, State
    <2>4. QED
      BY <2>1, <2>2, <2>3 DEF PolicyInv
  <1>4. CASE PersistState
    <2>1. /\ UNCHANGED <<proc, policy>> /\ Planned /\ ~Planned'
          /\ proc # None => proc = Content
      BY <1>4 DEF PersistState, Return, Planned, AppliedInv, StageInv, AsWanted
    <2>2. QED
      BY <2>1, WantedIsOpen DEF PolicyInv
  <1>5. CASE Crash
    BY <1>5 DEF Crash, PolicyInv, Planned
  <1>6. ASSUME NEW u \in User, TombstoneExpires(u) PROVE PolicyInv'
    <2>1. ~Planned /\ ~Planned' /\ UNCHANGED proc
      BY <1>6 DEF TombstoneExpires, Planned
    <2>2. \A w \in User : policy[w] \in {"open", "blocked"} => policy'[w] = policy[w]
      BY <1>6 DEF TombstoneExpires, AppliedInv, UsableInv, TypeOK
    <2>3. QED
      BY <2>1, <2>2 DEF PolicyInv
  <1>7. QED
    BY Reliable, Unbuildable = {}, Invalid = {}, PolicySteps,
       <1>1, <1>2, <1>3, <1>4, <1>5, <1>6

\* Nobody can authenticate whom the policy file does not know, while the
\* panel asks for configurations BuildConfig builds and the core accepts.
THEOREM PolicyCoversCore ==
    ASSUME Reliable, Unbuildable = {}, Invalid = {}
    PROVE  Spec => []AuthenticatedHasPolicy
  <1>1. Init => PolicyInv
    BY DEF Init, PolicyInv, Planned
  <1>2. PolicyInv => AuthenticatedHasPolicy
    BY DEF PolicyInv, AuthenticatedHasPolicy
  <1>3. QED
    BY Reliable, Unbuildable = {}, Invalid = {}, AppliedInvariant, PolicyStep,
       <1>1, <1>2, PTL DEF Spec


-----------------------------------------------------------------------------
(* The last-good file.  The configuration file itself is proven but        *)
(* between its installation and the restart, which only a crash of the     *)
(* agent separates.                                                        *)

GoodInv ==
    /\ pc # "down"
    /\ pc = "restart" \/ config \in proven \cup {None}
    /\ backup \in proven \cup {None}
    /\ pc \in {"store", "keepNew"} => Content \in proven

LEMMA GoodHot ==
    Reliable /\ AppliedInv /\ GoodInv /\ Hot => GoodInv'
  <1> SUFFICES ASSUME Reliable, AppliedInv, GoodInv, Hot PROVE GoodInv'
    OBVIOUS
  <1> USE DEF GoodInv, Goto, work, files, count, Content
  <1>1. CASE HotValidate
    BY <1>1 DEF HotValidate
  <1>2. CASE OperationFails
    BY <1>2 DEF OperationFails
  <1>3. ASSUME NEW u \in User, RemoveUser(u) PROVE GoodInv'
    BY <1>3 DEF RemoveUser
  <1>4. ASSUME NEW u \in User, AddUser(u) PROVE GoodInv'
    BY <1>4 DEF AddUser
  <1>5. CASE OperationsDone
    <2>1. proc # None => proc = Content
      BY <1>5, HalfDoneEnds DEF OperationsDone, AppliedInv, StageInv, AsWanted
    <2>2. Content \in proven' /\ proven \subseteq proven'
      BY <1>5, <2>1 DEF OperationsDone
    <2>3. QED
      BY <1>5, <2>2 DEF OperationsDone
  <1>6. CASE Store
    BY <1>6 DEF Store
  <1>7. QED
    BY <1>1, <1>2, <1>3, <1>4, <1>5, <1>6 DEF Hot

LEMMA GoodSwap ==
    Reliable /\ AppliedInv /\ GoodInv /\ Swap => GoodInv'
  <1> SUFFICES ASSUME Reliable, AppliedInv, GoodInv, Swap PROVE GoodInv'
    OBVIOUS
  <1> USE DEF GoodInv, Goto, Return, work, files, count, Content
  <1>1. CASE Apply
    BY <1>1 DEF Apply
  <1>2. CASE ForceApply
    BY <1>2 DEF ForceApply
  <1>3. CASE KeepOld
    BY <1>3 DEF KeepOld
  <1>4. CASE Install
    BY <1>4 DEF Install
  <1>5. CASE Restart
    <2>1. ~NotStarted
      BY DEF NotStarted, Fault, Reliable
    <2>2. config = Content
      BY <1>5 DEF Restart, AppliedInv, UsableInv, SyncInv
    <2>3. QED
      BY <1>5, <2>1, <2>2 DEF Restart, Started
  <1>6. CASE KeepNew
    BY <1>6 DEF KeepNew
  <1>7. CASE Rollback \/ RollbackStart
    BY <1>7 DEF Rollback, RollbackStart, AppliedInv, StageInv
  <1>8. CASE Start
    BY <1>8 DEF Start, Started, NotStarted
  <1>9. QED
    BY <1>1, <1>2, <1>3, <1>4, <1>5, <1>6, <1>7, <1>8 DEF Swap

LEMMA GoodRest ==
    Reliable /\ MaxCrashes = 0 /\ AppliedInv /\ GoodInv /\ [Next]_vars /\ ~Hot /\ ~Swap
      => GoodInv'
  <1> SUFFICES ASSUME Reliable, MaxCrashes = 0, AppliedInv, GoodInv, [Next]_vars, ~Hot, ~Swap
               PROVE  GoodInv'
    OBVIOUS
  <1> USE DEF GoodInv, Goto, Return, work, files, count, Content
  <1>1. CASE StartSync \/ FetchDesired \/ FetchFails
    BY <1>1 DEF StartSync, FetchDesired, FetchFails
  <1>2. CASE WriteCorePolicy \/ WriteCorePolicyFails \/ StopCore \/ BuildConfigFails \/ Plan
    BY <1>2 DEF WriteCorePolicy, WriteCorePolicyFails, StopCore, BuildConfigFails, Plan
  <1>3. CASE Health
    BY <1>3 DEF Health
  <1>4. CASE Recover
    BY <1>4 DEF Recover, Started, NotStarted
  <1>5. CASE RecoverWrite \/ RecoverStart
    BY <1>5 DEF RecoverWrite, RecoverStart, AppliedInv, StageInv
  <1>6. CASE PersistState
    BY <1>6 DEF PersistState
  <1>7. CASE AgentRestarts
    BY <1>7 DEF AgentRestarts
  <1>8. CASE PanelChanges \/ CoreDies
    BY <1>8 DEF PanelChanges, CoreDies
  <1>9. ~Crash
    BY DEF Crash, AppliedInv, UsableInv, TypeOK
  <1>10. ASSUME NEW u \in User, TombstoneExpires(u) PROVE GoodInv'
    BY <1>10 DEF TombstoneExpires
  <1>11. CASE UNCHANGED vars
    BY <1>11 DEF vars
  <1>12. QED
    BY <1>1, <1>2, <1>3, <1>4, <1>5, <1>6, <1>7, <1>8, <1>9, <1>10, <1>11
       DEF Next, Sync, Environment

\* What was proven is not forgotten, and what becomes last-good is the
\* configuration file or what was just started.
FromGood ==
    \/ backup' = backup
    \/ pc = "keepOld" /\ config # None /\ backup' = config
    \/ pc = "keepNew" /\ backup' = Content

LEMMA GoodStep == [Next]_vars => proven \subseteq proven' /\ FromGood
  <1> SUFFICES ASSUME [Next]_vars PROVE proven \subseteq proven' /\ FromGood
    OBVIOUS
  <1> USE DEF FromGood, files
  <1>1. CASE UNCHANGED vars
    BY <1>1 DEF vars
  <1>2. CASE Hot
    BY <1>2 DEF Hot, HotValidate, RemoveUser, AddUser, OperationFails, OperationsDone, Store
  <1>3. CASE Apply \/ ForceApply \/ KeepOld \/ Install \/ KeepNew \/ Rollback
    BY <1>3 DEF Apply, ForceApply, KeepOld, Install, KeepNew, Rollback
  <1>4. CASE Restart \/ RollbackStart \/ Start
    BY <1>4 DEF Restart, RollbackStart, Start, Started, NotStarted
  <1>5. CASE StartSync \/ FetchDesired \/ FetchFails \/ WriteCorePolicy
             \/ WriteCorePolicyFails \/ StopCore \/ BuildConfigFails \/ Plan
    BY <1>5 DEF StartSync, FetchDesired, FetchFails, WriteCorePolicy,
                WriteCorePolicyFails, StopCore, BuildConfigFails, Plan
  <1>6. CASE Health \/ Recover \/ RecoverWrite \/ RecoverStart \/ PersistState
    BY <1>6 DEF Health, Recover, RecoverWrite, RecoverStart, PersistState, Started, NotStarted
  <1>7. CASE AgentRestarts \/ Environment
    BY <1>7 DEF AgentRestarts, Environment, PanelChanges, CoreDies, Crash, TombstoneExpires
  <1>8. QED
    BY <1>1, <1>2, <1>3, <1>4, <1>5, <1>6, <1>7 DEF Next, Sync, Swap

\* While the agent does not crash between installing and starting a
\* configuration, the last-good file only ever holds what the core has run.
THEOREM LastGoodIsProven ==
    ASSUME Reliable, MaxCrashes = 0
    PROVE  Spec => LastGoodStaysGood
  <1>1. Init => GoodInv
    BY DEF Init, GoodInv
  <1>2. AppliedInv /\ GoodInv /\ [Next]_vars => GoodInv'
    BY Reliable, MaxCrashes = 0, GoodHot, GoodSwap, GoodRest
  <1>3. GoodInv /\ [Next]_vars => (backup \in proven => backup' \in proven')
    BY GoodStep DEF GoodInv, FromGood
  <1>4. QED
    BY Reliable, AppliedInvariant, <1>1, <1>2, <1>3, PTL DEF Spec, LastGoodStaysGood


-----------------------------------------------------------------------------
(* Starts that fail.  Whatever the panel asks for, a configuration that    *)
(* does not start leaves things as they were: the last-good file is a copy *)
(* of the configuration file, which is that of the recorded state, and     *)
(* the core runs it or nothing.                                            *)

StartFaults ==
    FaultKinds \subseteq {"start"} /\ MaxCrashes = 0 /\ HotAccepted

Calm == {"idle", "fetch", "policy", "stop", "plan", "hotValidate", "ops", "store",
         "apply", "force", "keepOld", "start", "health", "persist"}

Wanted == Serving(target) => config = Content

Kept == pc \in Calm => backup = None \/ backup = config

Recorded ==
    /\ pc \in Calm \ {"health", "persist"} => (Serving(prev) => config = BuildConfig(prev))
    /\ pc \in {"install", "restart", "rollback", "rollbackStart"}
         => (Serving(prev) => backup = BuildConfig(prev))
    /\ pc = "rollbackStart" => config = backup
    /\ pc \in {"health", "persist"} => Wanted
    /\ pc = "force" => Serving(prev) /\ prev.net # target.net
    /\ pc = "keepOld" => config # Content

Runs ==
    /\ pc \in Calm \ {"ops", "store"} => proc \in {None, config}
    /\ pc \in {"hotValidate", "ops"} => proc # None
    /\ pc = "hotValidate" => PlannedUsers
    /\ pc = "ops" => HalfDone
    /\ pc \in {"store", "keepNew"} => proc = Content /\ Content \in proven
    /\ pc = "keepNew" => config = Content

RollInv ==
    /\ UsableInv /\ Kept /\ Recorded /\ Runs
    /\ pc \notin {"down", "recover", "recoverWrite", "recoverStart"}

LEMMA Intact ==
    ASSUME RollInv, UNCHANGED <<prev, config, backup, proc, proven, base, target, removing, adding, pc>>
    PROVE  Kept' /\ Recorded' /\ Runs'
  <1> USE DEF RollInv, Serving, BuildConfig, Content
  <1>1. Kept'
    BY DEF Kept
  <1>2. Recorded'
    BY DEF Recorded, Wanted
  <1>3. Runs'
    BY DEF Runs, PlannedUsers, HalfDone, Half
  <1>4. QED
    BY <1>1, <1>2, <1>3

LEMMA RollPlan ==
    ASSUME StartFaults, RollInv,
           StartSync \/ FetchDesired \/ FetchFails \/ WriteCorePolicy
             \/ WriteCorePolicyFails \/ StopCore \/ BuildConfigFails \/ Plan
    PROVE  Kept' /\ Recorded' /\ Runs'
  <1> USE DEF StartFaults, RollInv, Calm, Kept, Recorded, Runs, files, work, count,
              Goto, Return, Fault
  <1>1. CASE StartSync
    BY <1>1 DEF StartSync
  <1>2. CASE FetchDesired \/ FetchFails
    BY <1>2 DEF FetchDesired, FetchFails
  <1>3. CASE WriteCorePolicy \/ WriteCorePolicyFails
    BY <1>3 DEF WriteCorePolicy, WriteCorePolicyFails
  <1>4. CASE StopCore
    BY <1>4 DEF StopCore, UsableInv, SyncInv, Wanted
  <1>5. CASE Plan
    <2>1. base = prev
      BY <1>5 DEF Plan, UsableInv, SyncInv
    <2>2. QED
      BY <1>5, <2>1 DEF Plan, PlannedUsers, Changed
  <1>6. CASE BuildConfigFails
    BY <1>6 DEF BuildConfigFails
  <1>7. QED
    BY <1>1, <1>2, <1>3, <1>4, <1>5, <1>6

LEMMA RollHot ==
    ASSUME StartFaults, RollInv, Hot
    PROVE  Kept' /\ Recorded' /\ Runs'
  <1> USE DEF Calm, files, work, count, Goto
  <1>1. pc \in {"hotValidate", "ops", "store"}
    BY DEF Hot, HotValidate, RemoveUser, AddUser, OperationFails, OperationsDone, Store
  <1>2. target \in State /\ base \in State /\ base = prev /\ Serving(prev) /\ UsableInv
    BY <1>1 DEF RollInv, UsableInv, TypeOK, SyncInv, Serving
  <1>3. Content \notin Invalid
    <2>1. Usable(target.net)
      BY <1>1, <1>2 DEF UsableInv, SyncInv, FilesInv
    <2>2. QED
      BY <1>2, <2>1, NoneAssumption, UsableIsAccepted DEF StartFaults
  <1>4. /\ backup = None \/ backup = config
        /\ config = BuildConfig(prev)
    BY <1>1, <1>2 DEF RollInv, Kept, Recorded
  <1>5. UNCHANGED target => Content' = Content
    BY DEF Content
  <1>6. CASE HotValidate
    <2>1. HalfDone
      BY <1>2, <1>4, <1>6, HalfDoneStarts DEF HotValidate, RollInv, Runs
    <2>2. ~NotValidates
      BY <1>3 DEF NotValidates, StartFaults, Fault
    <2>3. pc' = "ops" /\ UNCHANGED <<prev, config, backup, proc, proven, base, target, removing, adding>>
      BY <1>6, <2>2 DEF HotValidate
    <2>4. HalfDone'
      BY <2>1, <2>3 DEF HalfDone, Half, Content
    <2>5. proc # None
      BY <1>6 DEF HotValidate, RollInv, Runs
    <2>6. QED
      BY <1>4, <2>3, <2>4, <2>5 DEF Kept, Recorded, Runs
  <1>7. ASSUME NEW u \in User, RemoveUser(u) \/ AddUser(u)
        PROVE  Kept' /\ Recorded' /\ Runs'
    <2>1. pc = "ops" /\ pc' = "ops" /\ UNCHANGED <<prev, config, backup>>
      BY <1>7 DEF RemoveUser, AddUser
    <2>2. HalfDone'
      BY <1>2, <1>7, <2>1, HalfDoneGoesOn DEF RollInv, Runs
    <2>3. proc' # None
      <3>1. proc \in Conf
        BY <1>2, <1>7 DEF RemoveUser, AddUser, UsableInv, TypeOK
      <3>2. \A w \in User : Content.users[w] \in Cred \cup {"none"}
        BY <1>2, ContentFacts
      <3>3. proc' \in Conf
        BY <1>7, <3>1, <3>2, PatchedFacts DEF RemoveUser, AddUser
      <3>4. QED
        BY <3>3, NoneAssumption
    <2>4. QED
      BY <1>4, <2>1, <2>2, <2>3 DEF Kept, Recorded, Runs
  <1>8. CASE OperationFails
    <2>1. HalfDone /\ proc # None
      BY <1>8 DEF OperationFails, RollInv, Runs
    <2>2. ~Fault("op")
      BY DEF StartFaults, Fault
    <2>3. QED
      BY <1>2, <1>8, <2>1, <2>2, HalfDoneFails
  <1>9. CASE OperationsDone
    <2>1. proc = Content
      BY <1>2, <1>9, HalfDoneEnds DEF OperationsDone, RollInv, Runs, AsWanted
    <2>2. pc' = "store" /\ proc' = Content' /\ Content' \in proven' /\ UNCHANGED <<prev, config, backup>>
      BY <1>5, <1>9, <2>1 DEF OperationsDone
    <2>3. QED
      BY <1>4, <2>2 DEF Kept, Recorded, Runs
  <1>10. CASE Store
    <2>1. ~NotValidates /\ ~Fault("write")
      BY <1>3 DEF StartFaults, NotValidates, Fault
    <2>2. proc' = Content' /\ Content' \in proven' /\ Content' = Content /\ UNCHANGED <<prev, backup>>
      BY <1>5, <1>10 DEF Store, RollInv, Runs
    <2>3. \/ pc' = "health" /\ config' = config /\ config = Content
          \/ pc' = "keepNew" /\ config' = Content
      BY <1>10, <2>1 DEF Store
    <2>4. QED
      BY <1>4, <2>2, <2>3 DEF Kept, Recorded, Runs, Wanted
  <1>11. QED
    BY <1>6, <1>7, <1>8, <1>9, <1>10 DEF Hot

LEMMA RollSwap ==
    ASSUME StartFaults, RollInv, Swap
    PROVE  Kept' /\ Recorded' /\ Runs'
  <1> USE DEF Calm, files, work, count
  <1>1. target \in State /\ UsableInv
    BY DEF Swap, Apply, ForceApply, KeepOld, Install, Restart, KeepNew, Rollback,
           RollbackStart, Start, RollInv, UsableInv, TypeOK
  <1>2. /\ Content \in Conf /\ Content.net = target.net /\ Content # None
        /\ UNCHANGED target => Content' = Content
    BY <1>1, ContentFacts, NoneAssumption DEF Content
  <1>3. Serving(prev) => BuildConfig(prev) # None /\ BuildConfig(prev).net = prev.net
    BY <1>1, BuildConfigFacts, NoneAssumption DEF UsableInv, TypeOK, Serving
  <1>4. \A k \in {"write", "backup", "validate"} : ~Fault(k)
    BY DEF StartFaults, Fault
  <1>5. CASE Apply
    BY <1>2, <1>5 DEF Apply, Goto, Return, RollInv, Kept, Recorded, Runs, Wanted
  <1>6. CASE ForceApply
    <2>1. Serving(prev) /\ prev.net # target.net /\ config = BuildConfig(prev)
      BY <1>6 DEF ForceApply, RollInv, Recorded
    <2>2. config # Content
      BY <1>2, <1>3, <2>1
    <2>3. QED
      BY <1>2, <1>6, <2>2 DEF ForceApply, Goto, Return, RollInv, Kept, Recorded, Runs, Wanted
  <1>7. CASE KeepOld
    <2>1. /\ pc' = "install" /\ UNCHANGED <<prev, config, proc>>
          /\ backup' = IF config \in {None, Content} THEN backup ELSE config
      BY <1>4, <1>7 DEF KeepOld, Goto
    <2>2. config # Content /\ (Serving(prev) => config = BuildConfig(prev))
      BY <1>7 DEF KeepOld, RollInv, Recorded
    <2>3. QED
      BY <1>3, <2>1, <2>2 DEF Kept, Recorded, Runs, Serving, BuildConfig
  <1>8. CASE Install
    <2>1. pc' = "restart" /\ UNCHANGED <<prev, backup>>
      BY <1>4, <1>8 DEF Install, Goto
    <2>2. Serving(prev) => backup = BuildConfig(prev)
      BY <1>8 DEF Install, RollInv, Recorded
    <2>3. QED
      BY <2>1, <2>2 DEF Kept, Recorded, Runs, Serving, BuildConfig
  <1>9. CASE Restart
    <2>1. config = Content
      BY <1>1, <1>9 DEF Restart, UsableInv, SyncInv
    <2>2. QED
      BY <1>2, <1>9, <2>1 DEF Restart, Started, NotStarted, Goto, RollInv, Kept, Recorded, Runs
  <1>10. CASE KeepNew
    BY <1>2, <1>4, <1>10 DEF KeepNew, Goto, RollInv, Kept, Recorded, Runs, Wanted
  <1>11. CASE Rollback
    <2>1. proc = None
      BY <1>1, <1>11 DEF Rollback, UsableInv, CoreInv
    <2>2. Serving(prev) => backup = BuildConfig(prev)
      BY <1>11 DEF Rollback, RollInv, Recorded
    <2>3. QED
      BY <1>3, <1>4, <1>11, <2>1, <2>2 DEF Rollback, Goto, Return, Kept, Recorded, Runs, Serving, BuildConfig
  <1>12. CASE RollbackStart
    BY <1>12 DEF RollbackStart, Started, NotStarted, Return, RollInv, Kept, Recorded, Runs, Serving, BuildConfig
  <1>13. CASE Start
    <2>1. config = Content
      BY <1>1, <1>13 DEF Start, UsableInv, SyncInv
    <2>2. QED
      BY <1>2, <1>13, <2>1
         DEF Start, Started, NotStarted, Goto, Return, RollInv, Kept, Recorded, Runs, Wanted
  <1>14. QED
    BY <1>5, <1>6, <1>7, <1>8, <1>9, <1>10, <1>11, <1>12, <1>13 DEF Swap

LEMMA RollRest ==
    ASSUME StartFaults, RollInv,
           \/ Health \/ Recover \/ RecoverWrite \/ RecoverStart \/ PersistState
           \/ AgentRestarts \/ Environment \/ UNCHANGED vars
    PROVE  Kept' /\ Recorded' /\ Runs'
  <1> USE DEF Calm, files, work, count
  <1>1. \A k \in {"api", "persist", "death"} : ~Fault(k)
    BY DEF StartFaults, Fault
  <1>2. CASE Health
    <2>1. pc' = "persist" /\ UNCHANGED <<prev, config, backup, proc, target>>
      BY <1>1, <1>2 DEF Health, Goto
    <2>2. QED
      BY <1>2, <2>1 DEF Health, RollInv, Kept, Recorded, Runs, Wanted, Content
  <1>3. ~Recover /\ ~RecoverWrite /\ ~RecoverStart /\ ~AgentRestarts
    BY DEF Recover, RecoverWrite, RecoverStart, AgentRestarts, RollInv
  <1>4. CASE PersistState
    <2>1. pc' = "idle" /\ prev' = target /\ UNCHANGED <<config, backup, proc>>
      BY <1>1, <1>4 DEF PersistState, Return
    <2>2. Serving(prev') => config = BuildConfig(prev')
      BY <1>4, <2>1 DEF PersistState, RollInv, Recorded, Wanted, Content
    <2>3. QED
      BY <1>4, <2>1, <2>2 DEF PersistState, RollInv, Kept, Recorded, Runs
  <1>5. CASE PanelChanges \/ \E u \in User : TombstoneExpires(u)
    BY <1>5, Intact DEF PanelChanges, TombstoneExpires
  <1>6. ~CoreDies /\ ~Crash
    BY <1>1 DEF CoreDies, Crash, StartFaults, RollInv, UsableInv, TypeOK
  <1>7. CASE UNCHANGED vars
    BY <1>7, Intact DEF vars
  <1>8. QED
    BY <1>2, <1>3, <1>4, <1>5, <1>6, <1>7 DEF Environment

LEMMA RollStep == StartFaults /\ RollInv /\ [Next]_vars => RollInv'
  <1> SUFFICES ASSUME StartFaults, RollInv, [Next]_vars PROVE RollInv'
    OBVIOUS
  <1>1. UsableInv'
    BY UsableStep DEF RollInv
  <1>2. Kept' /\ Recorded' /\ Runs'
    BY RollPlan, RollHot, RollSwap, RollRest DEF Next, Sync
  <1>3. pc' \notin {"down", "recover", "recoverWrite", "recoverStart"}
    <2> USE DEF RollInv, Goto, Return, work
    <2>1. ~Crash /\ ~Fault("api")
      BY DEF Crash, Fault, StartFaults, UsableInv, TypeOK
    <2>2. ASSUME UNCHANGED pc PROVE pc' \notin {"down", "recover", "recoverWrite", "recoverStart"}
      BY <2>2
    <2>3. CASE Hot
      BY <2>3 DEF Hot, HotValidate, RemoveUser, AddUser, OperationFails, OperationsDone, Store
    <2>4. CASE Swap
      BY <2>4 DEF Swap, Apply, ForceApply, KeepOld, Install, Restart, KeepNew, Rollback,
                  RollbackStart, Start
    <2>5. CASE StartSync \/ FetchDesired \/ FetchFails \/ WriteCorePolicy
               \/ WriteCorePolicyFails \/ StopCore \/ BuildConfigFails \/ Plan
      BY <2>5 DEF StartSync, FetchDesired, FetchFails, WriteCorePolicy,
                  WriteCorePolicyFails, StopCore, BuildConfigFails, Plan
    <2>6. CASE Health \/ Recover \/ RecoverWrite \/ RecoverStart \/ PersistState \/ AgentRestarts
      BY <2>1, <2>6 DEF Health, Recover, RecoverWrite, RecoverStart, PersistState, AgentRestarts
    <2>7. CASE Environment \/ UNCHANGED vars
      BY <2>1, <2>2, <2>7 DEF Environment, PanelChanges, CoreDies, TombstoneExpires, vars
    <2>8. QED
      BY <2>3, <2>4, <2>5, <2>6, <2>7 DEF Next, Sync
  <1>4. QED
    BY <1>1, <1>2, <1>3 DEF RollInv

LEMMA RollInvariant ==
    ASSUME StartFaults
    PROVE  Spec => []RollInv
  <1>1. Init => RollInv
    BY UsableInit DEF Init, RollInv, Kept, Recorded, Runs, Calm, Serving, Wanted
  <1>2. QED
    BY StartFaults, RollStep, <1>1, PTL DEF Spec

\* However many starts fail, and whatever cannot be started: what sync persists
\* and reports as applied is what the core runs (Restart, Rollback).
THEOREM RecordsAfterRollback ==
    ASSUME StartFaults
    PROVE  Spec => []AppliedBeforePersist
  <1>1. RollInv => AppliedBeforePersist
    BY DEF RollInv, Runs, Recorded, Wanted, Calm, UsableInv, CoreInv, AppliedBeforePersist
  <1>2. QED
    BY RollInvariant, StartFaults, <1>1, PTL

\* And a hot plan that follows a rollback starts from what was rolled back to.
THEOREM PlansAfterRollback ==
    ASSUME StartFaults
    PROVE  Spec => []PlanFromRunning
  <1>1. RollInv => PlanFromRunning
    BY DEF RollInv, Runs, Recorded, Calm, UsableInv, SyncInv, Serving, PlanFromRunning
  <1>2. QED
    BY RollInvariant, StartFaults, <1>1, PTL

\* And a configuration that failed to start does not become the last-good one
\* (KeepOld, Rollback).
THEOREM LastGoodSurvives ==
    ASSUME StartFaults
    PROVE  Spec => LastGoodStaysGood
  <1>1. RollInv /\ [Next]_vars => (backup \in proven => backup' \in proven')
    <2> SUFFICES ASSUME RollInv, [Next]_vars, backup \in proven PROVE backup' \in proven'
      OBVIOUS
    <2>1. backup # None
      BY NoneAssumption DEF RollInv, UsableInv, TypeOK
    <2>2. proven \subseteq proven' /\ FromGood
      BY GoodStep
    <2>3. pc = "keepOld" => backup = config
      BY <2>1 DEF RollInv, Kept, Calm
    <2>4. pc = "keepNew" => Content \in proven
      BY DEF RollInv, Runs
    <2>5. QED
      BY <2>2, <2>3, <2>4 DEF FromGood
  <1>2. QED
    BY RollInvariant, StartFaults, <1>1, PTL DEF Spec, LastGoodStaysGood
=============================================================================
