---------------------------- MODULE NodeReconciler ----------------------------
(***************************************************************************)
(* How the agent makes one node follow the panel: Agent.sync from the      *)
(* desired state to persistState (internal/agent/agent.go), the config     *)
(* files and the core process of Manager (internal/xray/process.go), the   *)
(* hot operations of PlanRuntime and ApplyRuntime (internal/xray/          *)
(* runtime.go) and the policy file of WriteCorePolicy (internal/limits/    *)
(* policyfile.go).                                                         *)
(*                                                                         *)
(* A desired state is a mode, the users of one inbound and the rest of the *)
(* configuration (net: outbounds, routing, DNS), which only a restart can  *)
(* change.  A user is absent, suspended ("off") or enabled with one of the *)
(* credentials Cred.  What the core runs and what the config files hold is *)
(* a Conf: the credentials of the enabled users, and net.                  *)
(*                                                                         *)
(* The agent is one thread; each file it writes, each process it starts or *)
(* stops and each API call it makes is a step, so that it can crash, or    *)
(* the core can die, between any two.                                      *)
(***************************************************************************)
EXTENDS Naturals

CONSTANTS
    User, Cred,
    Net,           \* configurations outside the users
    Desired,       \* what the panel may ask for
    Unbuildable,   \* whole configurations BuildConfig refuses
    Invalid,       \* those it builds and xray run -test rejects
    Unstartable,   \* those run -test accepts and that exit when started
    FaultKinds,    \* spurious faults that may happen
    MaxFaults, MaxCrashes, \* bounds
    None           \* no file, no process

Modes == {"active", "draining", "stopped"}

State == [mode : Modes, users : [User -> Cred \cup {"absent", "off"}], net : Net]
Conf  == [users : [User -> Cred \cup {"none"}], net : Net]

\* op: an API call fails or its answer is lost; api: the API does not answer
\* the health check; start: the core exits in its first 350 ms; death: it
\* exits later; validate, write, backup, persist: that step returns an error.
AllFaults == {"op", "api", "start", "death", "validate", "write", "backup", "persist"}

ASSUME ConfAssumption == Unbuildable \cup Invalid \cup Unstartable \subseteq Conf
ASSUME CredAssumption == {"absent", "off", "none"} \cap Cred = {}
ASSUME DesiredAssumption == Desired \subseteq State
ASSUME FaultAssumption == FaultKinds \subseteq AllFaults
ASSUME BoundAssumption == MaxFaults \in Nat /\ MaxCrashes \in Nat
ASSUME NoneAssumption == None \notin State \cup Conf

VARIABLES
    panel,      \* what the panel asks for
    prev,       \* the state file, loaded as "previous"
    config,     \* xray.json
    backup,     \* xray.json.last-good
    proc,       \* what the core runs, None if it is not running
    policy,     \* the policy file, per user
    proven,     \* history: configurations the core was started on and ran,
                \* or was brought to by a complete plan
    pc,         \* where the agent is
    base,       \* previous, as loaded by this sync
    target,     \* the state this sync applies
    removing, adding,  \* users the plan has yet to remove and add
    faults, crashes

files == <<prev, config, backup, policy>>
work  == <<base, target, removing, adding>>
count == <<faults, crashes>>
vars  == <<panel, files, proc, proven, pc, work, count>>

PC == {"down", "idle", "fetch", "policy", "stop", "plan", "hotValidate", "ops",
       "store", "apply", "force", "keepOld", "install", "restart", "rollback",
       "rollbackStart", "keepNew", "start", "health", "recover",
       "recoverWrite", "recoverStart", "persist"}

Entries == {"none", "open", "blocked", "tombstone"}

TypeOK ==
    /\ panel \in Desired
    /\ prev \in State \cup {None}
    /\ config \in Conf \cup {None}
    /\ backup \in Conf \cup {None}
    /\ proc \in Conf \cup {None}
    /\ policy \in [User -> Entries]
    /\ proven \subseteq Conf
    /\ pc \in PC
    /\ base \in State \cup {None}
    /\ target \in State \cup {None}
    /\ removing \subseteq User
    /\ adding \subseteq User
    /\ faults \in 0..MaxFaults
    /\ crashes \in 0..MaxCrashes
    /\ (target = None) <=> (pc \in {"down", "idle", "fetch"})

Init ==
    /\ panel \in Desired
    /\ prev = None
    /\ config = None
    /\ backup = None
    /\ proc = None
    /\ policy = [u \in User |-> "none"]
    /\ proven = {}
    /\ pc = "idle"
    /\ base = None
    /\ target = None
    /\ removing = {}
    /\ adding = {}
    /\ faults = 0
    /\ crashes = 0

-----------------------------------------------------------------------------
(* Helpers                                                                 *)

Fault(k) == k \in FaultKinds /\ faults < MaxFaults /\ faults' = faults + 1

\* BuildConfig: only enabled users are in the configuration.
BuildConfig(s) ==
    [users |-> [u \in User |-> IF s.users[u] \in Cred THEN s.users[u] ELSE "none"],
     net   |-> s.net]

Content == BuildConfig(target)

Serving(s) == s # None /\ s.mode # "stopped"

\* The end of sync, with or without an error.
Return ==
    /\ pc' = "idle"
    /\ base' = None
    /\ target' = None
    /\ removing' = {}
    /\ adding' = {}

Goto(l) == pc' = l /\ UNCHANGED work

\* The core is started on the config file: it runs, or exits within the
\* grace period.
Started ==
    /\ config \notin Unstartable
    /\ proc' = config
    /\ proven' = proven \cup {config}
    /\ UNCHANGED faults

NotStarted ==
    /\ \/ config \in Unstartable /\ UNCHANGED faults
       \/ Fault("start")
    /\ proc' = None
    /\ UNCHANGED proven

\* run -test reads the whole file: a malformed credential, which is applied
\* hot, fails it as well as a malformed route.
Validates == Content \notin Invalid /\ UNCHANGED faults

NotValidates ==
    \/ Content \in Invalid /\ UNCHANGED faults
    \/ Fault("validate")

-----------------------------------------------------------------------------
(* From the panel to a plan                                                *)

StartSync ==
    /\ pc = "idle"
    /\ base' = prev
    /\ pc' = "fetch"
    /\ UNCHANGED <<panel, files, proc, proven, target, removing, adding, count>>

\* Mutant: the drain changes the mode and keeps the panel's users.
ApplyDrainNot(p, d) == d

\* A draining node takes no user it did not know.
ApplyDrain(p, d) ==
    IF d.mode = "draining" /\ p # None
    THEN [d EXCEPT !.users =
            [u \in User |-> IF p.users[u] = "absent" THEN "absent" ELSE d.users[u]]]
    ELSE d

FetchDesired ==
    /\ pc = "fetch"
    /\ target' = ApplyDrain(base, panel)
    /\ pc' = "policy"
    /\ UNCHANGED <<panel, files, proc, proven, base, removing, adding, count>>

\* Mutant: the error of DesiredState is not returned.
FetchFailsGoesOn ==
    /\ pc = "fetch"
    /\ Goto("policy")
    /\ UNCHANGED <<panel, files, proc, proven, count>>

FetchFails ==
    /\ pc = "fetch"
    /\ Return
    /\ UNCHANGED <<panel, files, proc, proven, count>>

\* Mutant: users that left the desired state are left out of the file.
PolicyOfPresent(s) ==
    [u \in User |-> CASE s.users[u] \in Cred   -> "open"
                      [] s.users[u] = "off"    -> "blocked"
                      [] s.users[u] = "absent" -> "none"]

\* A user that left the desired state stays as a blocked tombstone.
PolicyOf(s) ==
    [u \in User |->
        CASE s.users[u] \in Cred     -> "open"
          [] s.users[u] = "off"      -> "blocked"
          [] s.users[u] = "absent"   ->
                IF policy[u] = "none" THEN "none" ELSE "tombstone"]

WriteCorePolicy ==
    /\ pc = "policy"
    /\ policy' = PolicyOf(target)
    /\ Goto(IF Serving(target) THEN "plan" ELSE "stop")
    /\ UNCHANGED <<panel, prev, config, backup, proc, proven, count>>

WriteCorePolicyFails ==
    /\ pc = "policy"
    /\ Fault("write")
    /\ Return
    /\ UNCHANGED <<panel, files, proc, proven, crashes>>

StopCore ==
    /\ pc = "stop"
    /\ proc' = None
    /\ Goto("persist")
    /\ UNCHANGED <<panel, files, proven, count>>

\* Mutant: the comparison of users leaves credentials out.
ChangedState(b, t) ==
    {u \in User : (t.users[u] \in Cred) # (b.users[u] \in Cred)}

Changed(b, t) == {u \in User : t.users[u] # b.users[u]}

\* BuildConfig refuses the state; its policy file is already written.
BuildConfigFails ==
    /\ pc = "plan"
    /\ Content \in Unbuildable
    /\ Return
    /\ UNCHANGED <<panel, files, proc, proven, count>>

\* PlanRuntime, or the reason for not planning: a restart, or no core to
\* operate on.
Plan ==
    /\ pc = "plan"
    /\ Content \notin Unbuildable
    /\ IF proc # None /\ Serving(base)
       THEN IF base.net = target.net
            THEN /\ pc' = "hotValidate"
                 /\ removing' = {u \in Changed(base, target) : base.users[u] \in Cred}
                 /\ adding' = {u \in Changed(base, target) : target.users[u] \in Cred}
            ELSE pc' = "force" /\ UNCHANGED <<removing, adding>>
       ELSE pc' = "apply" /\ UNCHANGED <<removing, adding>>
    /\ UNCHANGED <<panel, files, proc, proven, base, target, count>>

-----------------------------------------------------------------------------
(* The hot path: ValidateContent, ApplyRuntime, Store.  The err that       *)
(* decides on the fallback to ForceApply (agent.go:206) is not the one of  *)
(* these calls, which the if statement of line 191 declares anew: it is    *)
(* always nil, so a failure is logged and sync goes on.                    *)

HotValidate ==
    /\ pc = "hotValidate"
    /\ \/ Validates /\ Goto("ops")
       \/ NotValidates /\ Goto("health")
    /\ UNCHANGED <<panel, files, proc, proven, crashes>>

Patched(u, c) == [proc EXCEPT !.users[u] = c]

RemoveUser(u) ==
    /\ pc = "ops"
    /\ proc # None
    /\ u \in removing
    /\ removing' = removing \ {u}
    /\ proc' = Patched(u, "none")
    /\ UNCHANGED <<panel, files, proven, pc, base, target, adding, count>>

\* Removals come first; the core refuses a user it already has.
AddUser(u) ==
    /\ pc = "ops"
    /\ proc # None
    /\ removing = {}
    /\ u \in adding
    /\ proc.users[u] = "none"
    /\ adding' = adding \ {u}
    /\ proc' = Patched(u, Content.users[u])
    /\ UNCHANGED <<panel, files, proven, pc, base, target, removing, count>>

\* The call fails (the core is gone, refuses to add a user it has, or may
\* refuse to remove one it has not) or only its answer is lost.
OperationFails ==
    /\ pc = "ops"
    /\ \/ /\ proc = None /\ removing \cup adding # {}
          /\ UNCHANGED <<proc, faults>>
       \/ /\ proc # None /\ removing = {}
          /\ \E u \in adding : proc.users[u] # "none"
          /\ UNCHANGED <<proc, faults>>
       \/ /\ proc # None
          /\ \E u \in removing : proc.users[u] = "none"
          /\ UNCHANGED <<proc, faults>>
       \/ /\ proc # None /\ Fault("op")
          /\ \/ removing \cup adding # {} /\ UNCHANGED proc
             \/ \E u \in removing : proc' = Patched(u, "none")
             \/ /\ removing = {}
                /\ \E u \in adding : /\ proc.users[u] = "none"
                                     /\ proc' = Patched(u, Content.users[u])
    /\ Goto("health")
    /\ UNCHANGED <<panel, files, proven, crashes>>

OperationsDone ==
    /\ pc = "ops"
    /\ removing \cup adding = {}
    /\ proven' = proven \cup {IF proc = None THEN Content ELSE proc}
    /\ Goto("store")
    /\ UNCHANGED <<panel, files, proc, count>>

\* Mutant: Store compares with the backup, not with the file.
StoreSkips ==
    /\ pc = "store"
    /\ IF backup = Content
       THEN Goto("health") /\ UNCHANGED <<config, faults>>
       ELSE \/ Validates /\ config' = Content /\ Goto("keepNew")
            \/ (NotValidates \/ Fault("write")) /\ Goto("health") /\ UNCHANGED config
    /\ UNCHANGED <<panel, prev, backup, policy, proc, proven, crashes>>

Store ==
    /\ pc = "store"
    /\ IF config = Content
       THEN Goto("health") /\ UNCHANGED <<config, faults>>
       ELSE \/ Validates /\ config' = Content /\ Goto("keepNew")
            \/ (NotValidates \/ Fault("write")) /\ Goto("health") /\ UNCHANGED config
    /\ UNCHANGED <<panel, prev, backup, policy, proc, proven, crashes>>

-----------------------------------------------------------------------------
(* Apply and ForceApply.  They differ in their entry only: Apply returns   *)
(* when the file already holds the content, and sync then starts the core  *)
(* if it is not running.                                                   *)

\* Mutant: an unchanged file is taken for a running core.
ApplyUnchanged ==
    /\ pc = "apply"
    /\ IF config = Content
       THEN Goto("health") /\ UNCHANGED faults
       ELSE \/ Validates /\ Goto("keepOld")
            \/ NotValidates /\ Return
    /\ UNCHANGED <<panel, files, proc, proven, crashes>>

Apply ==
    /\ pc = "apply"
    /\ IF config = Content
       THEN Goto(IF proc = None THEN "start" ELSE "health") /\ UNCHANGED faults
       ELSE \/ Validates /\ Goto("keepOld")
            \/ NotValidates /\ Return
    /\ UNCHANGED <<panel, files, proc, proven, crashes>>

ForceApply ==
    /\ pc = "force"
    /\ \/ Validates /\ Goto("keepOld")
       \/ NotValidates /\ Return
    /\ UNCHANGED <<panel, files, proc, proven, crashes>>

\* Mutant: the new content is saved as last-good before it is started.
KeepOldSavesNew ==
    /\ pc = "keepOld"
    /\ backup' = Content
    /\ Goto("install")
    /\ UNCHANGED <<panel, prev, config, policy, proc, proven, count>>

\* The current file becomes the last-good one; an error is ignored.
KeepOld ==
    /\ pc = "keepOld"
    /\ \/ /\ backup' = IF config \in {None, Content} THEN backup ELSE config
          /\ UNCHANGED faults
       \/ Fault("backup") /\ UNCHANGED backup
    /\ Goto("install")
    /\ UNCHANGED <<panel, prev, config, policy, proc, proven, crashes>>

Install ==
    /\ pc = "install"
    /\ \/ config' = Content /\ Goto("restart") /\ UNCHANGED faults
       \/ Fault("write") /\ Return /\ UNCHANGED config
    /\ UNCHANGED <<panel, prev, backup, policy, proc, proven, crashes>>

\* Mutant: the error of restartLocked is ignored.
RestartIgnored ==
    /\ pc = "restart"
    /\ Started \/ NotStarted
    /\ Goto("keepNew")
    /\ UNCHANGED <<panel, files, crashes>>

Restart ==
    /\ pc = "restart"
    /\ \/ Started /\ Goto("keepNew")
       \/ NotStarted /\ Goto("rollback")
    /\ UNCHANGED <<panel, files, crashes>>

KeepNew ==
    /\ pc = "keepNew"
    /\ \/ backup' = Content /\ UNCHANGED faults
       \/ Fault("backup") /\ UNCHANGED backup
    /\ Goto("health")
    /\ UNCHANGED <<panel, prev, config, policy, proc, proven, crashes>>

\* rollbackLocked: whatever it achieves, sync returns the error.
Rollback ==
    /\ pc = "rollback"
    /\ \/ backup = None /\ Return /\ UNCHANGED <<config, faults>>
       \/ backup # None /\ config' = backup /\ Goto("rollbackStart") /\ UNCHANGED faults
       \/ backup # None /\ Fault("write") /\ Return /\ UNCHANGED config
    /\ UNCHANGED <<panel, prev, backup, policy, proc, proven, crashes>>

RollbackStart ==
    /\ pc = "rollbackStart"
    /\ Started \/ NotStarted
    /\ Return
    /\ UNCHANGED <<panel, files, crashes>>

Start ==
    /\ pc = "start"
    /\ \/ Started /\ Goto("health")
       \/ NotStarted /\ Return
    /\ UNCHANGED <<panel, files, crashes>>

-----------------------------------------------------------------------------
(* Health check, recovery, and the state file                              *)

\* Mutant: sync gives up on a core whose API does not answer.
HealthFailsReturns ==
    /\ pc = "health"
    /\ \/ Goto("persist") /\ UNCHANGED faults
       \/ proc # None /\ Fault("api") /\ Return
    /\ UNCHANGED <<panel, files, proc, proven, crashes>>

\* A core that is running and does not answer is recovered; one that is not
\* running is left to the next sync.
Health ==
    /\ pc = "health"
    /\ \/ Goto("persist") /\ UNCHANGED faults
       \/ proc # None /\ Fault("api") /\ Goto("recover")
    /\ UNCHANGED <<panel, files, proc, proven, crashes>>

Recover ==
    /\ pc = "recover"
    /\ \/ Started /\ Goto("persist")
       \/ NotStarted /\ Goto("recoverWrite")
    /\ UNCHANGED <<panel, files, crashes>>

RecoverWrite ==
    /\ pc = "recoverWrite"
    /\ \/ backup = None /\ Return /\ UNCHANGED <<config, faults>>
       \/ backup # None /\ config' = backup /\ Goto("recoverStart") /\ UNCHANGED faults
       \/ backup # None /\ Fault("write") /\ Return /\ UNCHANGED config
    /\ UNCHANGED <<panel, prev, backup, policy, proc, proven, crashes>>

RecoverStart ==
    /\ pc = "recoverStart"
    /\ \/ Started /\ Goto("persist")
       \/ NotStarted /\ Return
    /\ UNCHANGED <<panel, files, crashes>>

\* An error of persistState is ignored.
PersistState ==
    /\ pc = "persist"
    /\ \/ prev' = target /\ UNCHANGED faults
       \/ Fault("persist") /\ UNCHANGED prev
    /\ Return
    /\ UNCHANGED <<panel, config, backup, policy, proc, proven, crashes>>

-----------------------------------------------------------------------------
(* Everything else                                                         *)

PanelChanges ==
    /\ \E d \in Desired : d # panel /\ panel' = d
    /\ UNCHANGED <<files, proc, proven, pc, work, count>>

CoreDies ==
    /\ proc # None
    /\ Fault("death")
    /\ proc' = None
    /\ UNCHANGED <<panel, files, proven, pc, work, crashes>>

\* Five minutes after the user was removed, an age for a running sync.
TombstoneExpires(u) ==
    /\ pc \in {"idle", "down"}
    /\ policy[u] = "tombstone"
    /\ policy' = [policy EXCEPT ![u] = "none"]
    /\ UNCHANGED <<panel, prev, config, backup, proc, proven, pc, work, count>>

\* The core is in the control group of the agent and dies with it.
Crash ==
    /\ pc # "down"
    /\ crashes < MaxCrashes
    /\ crashes' = crashes + 1
    /\ pc' = "down"
    /\ proc' = None
    /\ base' = None /\ target' = None /\ removing' = {} /\ adding' = {}
    /\ UNCHANGED <<panel, files, proven, faults>>

AgentRestarts ==
    /\ pc = "down"
    /\ pc' = "idle"
    /\ UNCHANGED <<panel, files, proc, proven, work, count>>

-----------------------------------------------------------------------------
Hot == \/ HotValidate
       \/ \E u \in User : RemoveUser(u) \/ AddUser(u)
       \/ OperationFails \/ OperationsDone \/ Store

Swap == \/ Apply \/ ForceApply \/ KeepOld \/ Install \/ Restart \/ KeepNew
        \/ Rollback \/ RollbackStart \/ Start

Sync == \/ StartSync \/ FetchDesired \/ FetchFails
        \/ WriteCorePolicy \/ WriteCorePolicyFails \/ StopCore
        \/ BuildConfigFails \/ Plan
        \/ Hot \/ Swap
        \/ Health \/ Recover \/ RecoverWrite \/ RecoverStart \/ PersistState

Environment == \/ PanelChanges \/ CoreDies \/ Crash
               \/ \E u \in User : TombstoneExpires(u)

Next == Sync \/ AgentRestarts \/ Environment

Spec == Init /\ [][Next]_vars

\* The ticker keeps sync running, systemd restarts the agent, and a panel
\* that is asked again and again answers.
Fairness == WF_vars(Sync) /\ WF_vars(AgentRestarts) /\ SF_vars(FetchDesired)

FairSpec == Spec /\ Fairness

-----------------------------------------------------------------------------
(* Properties                                                              *)

\* The state sync is about to persist and report as applied is the one the
\* running core has.
AppliedBeforePersist ==
    pc = "persist" /\ proc # None => Serving(target) /\ proc = Content

\* A plan is a difference from what the core runs: the persisted state that
\* PlanRuntime is given describes the running core, user for user.
PlanFromRunning ==
    pc = "hotValidate" => proc = None \/ proc = BuildConfig(base)

\* No user can authenticate whom the policy file does not know: such a user
\* has no quota, limit or block at all.
AuthenticatedHasPolicy ==
    proc # None => \A u \in User : proc.users[u] # "none" => policy[u] # "none"

\* A sync that drains the node lets in nobody the persisted state did not
\* know, by whatever path it changes the core (ApplyDrain, evaluator.go).
DrainAddsNobody ==
    [][(base # None /\ target # None /\ target.mode = "draining" /\ proc' # None) =>
         \A u \in User : base.users[u] = "absent" /\ proc'.users[u] # "none"
                         => proc # None /\ proc.users[u] # "none"]_vars

\* The next sync plans hot changes on top of the recorded state.  A hot
\* change can be recorded although it failed (agent.go:206), but the part of
\* the state that only a restart changes is recorded only after the core has
\* been started on it, in a configuration it accepts and survives.
NetHasRun ==
    Serving(prev) => \E c \in proven \ (Invalid \cup Unstartable) : c.net = prev.net

\* Once the last-good file holds a configuration the core has run, it never
\* holds another one ("saved last-good config", docs/ARCHITECTURE.md).
LastGoodStaysGood == [][(backup \in proven) => (backup' \in proven')]_vars

\* docs/ARCHITECTURE.md: process startup failure attempts the saved
\* last-good config, unless that is the one that failed or there is none.
StartFailureRollsBack ==
    [][pc = "start" /\ pc' = "idle" => backup \in {None, config}]_vars

\* The panel asks, and goes on asking, for something the core can run, or for
\* no core.
Settled ==
    /\ <>[][UNCHANGED panel]_vars
    /\ <>[](Serving(panel) => BuildConfig(ApplyDrain(prev, panel))
                                \notin Unbuildable \cup Invalid \cup Unstartable)

\* Then the core is brought back for good, after any faults and crashes.
ComesBack == Settled => <>[](Serving(panel) <=> proc # None)

\* Whatever fails, also a hot operation, the files are what the panel asks
\* for in the end, so that the next start of the core runs it.
FilesFollow ==
    Settled => <>[](Serving(panel) => /\ prev # None /\ prev = ApplyDrain(prev, panel)
                                      /\ config = BuildConfig(prev))

InSync ==
    IF Serving(panel)
    THEN prev # None /\ prev = ApplyDrain(prev, panel) /\ proc = BuildConfig(prev)
    ELSE proc = None

\* And the node follows the panel: it runs what the panel asks for.
Converges == Settled => <>[]InSync
=============================================================================
