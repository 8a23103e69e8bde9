---------------------------- MODULE GatewaySetup ----------------------------
(***************************************************************************)
(* The two setup commands that write the Gateway's config.json beside the  *)
(* policy helper: `integrate` (infrastructure/live-setup/remote.py), which *)
(* installs files and the native telemetry settings without the product's  *)
(* lock, and the MCP helper (scripts/manage-demo-mcp.py), which registers  *)
(* a server and retires a hook under it.  The Gateway reads config.json    *)
(* when it starts, and saves it under its lock from what it read there.    *)
(***************************************************************************)
EXTENDS Naturals

CONSTANTS
  Operators,  \* processes that run one of the two commands on the host
  NFiles,     \* integration files that `integrate` installs
  MaxSaves,   \* bound on the Gateway's saves of config.json
  MaxFaults,  \* bound on failing calls and kills
  Rollback,   \* whether the managed policy may be removed meanwhile
  None, Free, Gateway

Files == 1 .. NFiles

\* The telemetry settings, the entries of hooks.auto_deny_tools, and the rest.
Config == [telemetry: BOOLEAN, hooks: SUBSET {"deny", "other"}, peer: BOOLEAN]

Plan == [config: Config, registered: BOOLEAN, hook: BOOLEAN]

\* A backup is named by the document it was made of.  integrate keeps the whole
\* document, the MCP helper the list of hooks it is about to change.
Backup == [kind: {"config", "hook"}, of: Config,
           holds: Config \cup [hooks: SUBSET {"deny", "other"}]]

BackupOf(kind, c) ==
  [kind |-> kind, of |-> c, holds |-> IF kind = "config" THEN c ELSE [hooks |-> c.hooks]]

ASSUME SetupAssumption ==
  /\ NFiles \in Nat /\ MaxSaves \in Nat /\ MaxFaults \in Nat /\ Rollback \in BOOLEAN
  /\ {Free, Gateway} \cap Operators = {} /\ Free # Gateway
  /\ None \notin Config \cup Plan

VARIABLES
  config,     \* the Gateway's config.json
  lock, view, \* holder of the product's lock; what it read under it
  running,    \* the Gateway process and what it loaded when it started
  policy,     \* whether the managed policy is installed
  files,      \* the integration files: absent, partial or whole
  backups,    \* whole backups
  stubs,      \* backups of which only a part was written
  timer,      \* whether the telemetry timer is active
  registered, \* whether the MCP server is registered
  receipt,    \* the MCP plan the operators hold
  pc,
  todo,       \* the files a process found absent
  read,       \* config.json as a process first read it
  change,     \* whether it is to change config.json
  outdated,   \* processes whose noted Gateway start is no longer the last
  result, saves, faults

locals == <<todo, read, change>>
counts == <<saves, faults>>
host == <<files, backups, stubs, timer, registered>>
gateway == <<lock, view, running, policy, receipt, outdated>>
vars == <<config, lock, view, running, policy, files, backups, stubs, timer, registered,
          receipt, pc, todo, read, change, outdated, result, saves, faults>>

-----------------------------------------------------------------------------
Init ==
  /\ config \in {c \in Config : "deny" \in c.hooks /\ ~c.peer}
  /\ lock = Free /\ view = None
  /\ policy \in BOOLEAN
  /\ running = [up |-> TRUE, governed |-> policy, telemetry |-> config.telemetry,
                hooks |-> config.hooks]
  /\ files = [f \in Files |-> "absent"]
  /\ backups = {} /\ stubs = {}
  /\ timer = FALSE /\ registered = FALSE
  /\ receipt = None
  /\ pc = [o \in Operators |-> "idle"]
  /\ todo = [o \in Operators |-> {}]
  /\ read = [o \in Operators |-> None]
  /\ change = [o \in Operators |-> FALSE]
  /\ outdated = {}
  /\ result = [o \in Operators |-> "none"]
  /\ saves = 0 /\ faults = 0

Goto(o, next) == pc' = [pc EXCEPT ![o] = next] /\ UNCHANGED <<locals, result>>

Stop(o, outcome) ==
  /\ pc' = [pc EXCEPT ![o] = "idle"]
  /\ todo' = [todo EXCEPT ![o] = {}]
  /\ read' = [read EXCEPT ![o] = None]
  /\ change' = [change EXCEPT ![o] = FALSE]
  /\ result' = [result EXCEPT ![o] = outcome]

Begin(o, next, absent, changes) ==
  /\ pc[o] = "idle"
  /\ pc' = [pc EXCEPT ![o] = next]
  /\ todo' = [todo EXCEPT ![o] = absent]
  /\ read' = [read EXCEPT ![o] = config]
  /\ change' = [change EXCEPT ![o] = changes]
  /\ result' = [result EXCEPT ![o] = "none"]

Fault == faults < MaxFaults /\ faults' = faults + 1 /\ UNCHANGED saves

\* A start reads config.json and the policy; plans name the process they saw.
GatewayStarts ==
  /\ running' = [up |-> TRUE, governed |-> policy, telemetry |-> config.telemetry,
                 hooks |-> config.hooks]
  /\ outdated' = Operators
  /\ receipt' = None

\* Whatever a process was saving is gone with it, and so is its lock.
Dies(p) ==
  /\ lock' = IF lock = p THEN Free ELSE lock
  /\ view' = IF lock = p THEN None ELSE view

GatewayDies == Dies(Gateway)

\* systemctl restart, and what the caller does after it.
RestartGateway(o, done) ==
  /\ GatewayDies
  /\ \/ GatewayStarts /\ done /\ UNCHANGED counts
     \/ /\ Fault /\ Stop(o, "failed")
        /\ running' = [running EXCEPT !.up = FALSE]
        /\ UNCHANGED <<outdated, receipt>>
  /\ UNCHANGED <<config, policy, host>>

-----------------------------------------------------------------------------
(* integrate.                                                               *)

WithTelemetry(c) == [c EXCEPT !.telemetry = TRUE]

\* As if whatever file is there were left alone.
AnyFiles == TRUE

\* file_plan: what is there has to be the staged bytes.
FilesMatch == \A f \in Files : files[f] # "partial"

BeginIntegrate(o, restart) ==
  /\ FilesMatch
  /\ config.telemetry \/ restart
  /\ Begin(o, "files", {f \in Files : files[f] = "absent"}, ~config.telemetry)
  /\ UNCHANGED <<config, gateway, host, counts>>

\* write_new creates exclusively, and leaves what it wrote when it fails.
WriteFile(o) ==
  /\ pc[o] = "files"
  /\ \E f \in todo[o] :
       /\ \A g \in todo[o] : f <= g
       /\ \/ /\ files[f] = "absent"
             /\ files' = [files EXCEPT ![f] = "whole"]
             /\ todo' = [todo EXCEPT ![o] = @ \ {f}]
             /\ UNCHANGED <<pc, read, change, result, counts>>
          \/ /\ files[f] = "absent" /\ Fault /\ Stop(o, "failed")
             /\ \/ files' = [files EXCEPT ![f] = "partial"]
                \/ UNCHANGED files
          \/ files[f] # "absent" /\ Stop(o, "failed") /\ UNCHANGED <<files, counts>>
  /\ UNCHANGED <<config, gateway, backups, stubs, timer, registered>>

FilesWritten(o) ==
  /\ pc[o] = "files" /\ todo[o] = {}
  /\ Goto(o, IF change[o] THEN "backup" ELSE "timer")
  /\ UNCHANGED <<config, gateway, host, counts>>

\* Exclusive creation of a backup; `found` if one of that name is there.
MakeBackup(o, kind, done, found) ==
  LET b == BackupOf(kind, read[o])
  IN /\ \/ b \notin backups \cup stubs /\ backups' = backups \cup {b} /\ done
           /\ UNCHANGED <<stubs, counts>>
        \/ b \notin backups \cup stubs /\ Fault /\ Stop(o, "failed")
           /\ stubs' = stubs \cup {b} /\ UNCHANGED backups
        \/ b \in backups \cup stubs /\ found /\ UNCHANGED <<backups, stubs, counts>>
     /\ UNCHANGED <<config, gateway, files, timer, registered>>

\* As if a backup of that name were taken for the backup.
BackupConfigOnce(o) ==
  /\ pc[o] = "backup"
  /\ MakeBackup(o, "config", Goto(o, "compare"), Goto(o, "compare"))

\* integrate refuses any file that has the backup's name.
BackupConfig(o) ==
  /\ pc[o] = "backup"
  /\ MakeBackup(o, "config", Goto(o, "compare"), Stop(o, "failed"))

\* The second look at config.json, without the product's lock.
Compare(o) ==
  /\ pc[o] = "compare"
  /\ \/ config = read[o] /\ Goto(o, "replace") /\ UNCHANGED counts
     \/ config # read[o] /\ Stop(o, "failed") /\ UNCHANGED counts
     \/ Fault /\ Stop(o, "failed")
  /\ UNCHANGED <<config, gateway, host>>

Replace(o) ==
  /\ pc[o] = "replace"
  /\ \/ config' = WithTelemetry(read[o]) /\ Goto(o, "timer") /\ UNCHANGED counts
     \/ Fault /\ Stop(o, "failed") /\ UNCHANGED config
  /\ UNCHANGED <<gateway, host>>

\* daemon-reload, a first server sample, and the timer.
StartTimer(o) ==
  /\ pc[o] = "timer"
  /\ \/ timer' = TRUE /\ Goto(o, IF change[o] THEN "restart" ELSE "active")
        /\ UNCHANGED counts
     \/ Fault /\ Stop(o, "failed") /\ UNCHANGED timer
  /\ UNCHANGED <<config, gateway, files, backups, stubs, registered>>

RestartForTelemetry(o) == pc[o] = "restart" /\ RestartGateway(o, Goto(o, "active"))

\* systemctl is-active succeeds when one of the units it is asked about is.
CheckActive(o) ==
  /\ pc[o] = "active"
  /\ \/ (timer \/ running.up) /\ Stop(o, "configured") /\ UNCHANGED counts
     \/ Fault /\ Stop(o, "failed")
  /\ UNCHANGED <<config, gateway, host>>

-----------------------------------------------------------------------------
(* The MCP helper.                                                          *)

\* policy_proof: the installed policy denies the tool and the process has it.
PolicyProof == policy /\ running.up /\ running.governed

CurrentPlan(hook) == [config |-> config, registered |-> registered, hook |-> hook]

MakePlan(retire) ==
  /\ PolicyProof
  /\ receipt' = CurrentPlan(retire /\ "deny" \in config.hooks)
  /\ UNCHANGED <<config, lock, view, running, policy, outdated, host, pc, locals, result,
                 counts>>

BeginRegister(o) ==
  /\ PolicyProof
  /\ receipt # None /\ receipt = CurrentPlan(receipt.hook)
  /\ Begin(o, IF registered THEN "recheck" ELSE "register", {}, receipt.hook)
  /\ outdated' = outdated \ {o}
  /\ UNCHANGED <<config, lock, view, running, policy, receipt, host, counts>>

\* The Gateway registers the server, and its answer may not arrive.
Register(o) ==
  /\ pc[o] = "register"
  /\ \/ running.up /\ registered' = TRUE /\ Goto(o, "recheck") /\ UNCHANGED counts
     \/ running.up /\ Fault /\ Stop(o, "failed") /\ registered' \in {registered, TRUE}
     \/ ~running.up /\ Stop(o, "failed") /\ UNCHANGED <<registered, counts>>
  /\ UNCHANGED <<config, gateway, files, backups, stubs, timer>>

\* The files again, and the policy again, of the same process.
StillPlanned(o) == registered /\ config = read[o] /\ PolicyProof /\ o \notin outdated

Recheck(o) ==
  /\ pc[o] = "recheck"
  /\ \/ StillPlanned(o) /\ IF change[o] THEN Goto(o, "hook_backup") ELSE Stop(o, "registered")
     \/ ~StillPlanned(o) /\ Stop(o, "failed")
  /\ UNCHANGED <<config, gateway, host, counts>>

\* A whole backup of the same document is used again; a part of one is not.
BackupHook(o) ==
  /\ pc[o] = "hook_backup"
  /\ MakeBackup(o, "hook", Goto(o, "retire"),
       IF BackupOf("hook", read[o]) \in backups THEN Goto(o, "retire")
                                             ELSE Stop(o, "failed"))

\* As if only the presence of the entry were looked at under the lock.
HookPresent(o) == "deny" \in config.hooks
SameConfig(o) == config = read[o]

\* update_config_locked: read and compared under the product's lock, and written
\* back under it, which keeps out the Gateway but not another operator's integrate.
RetireLook(o) ==
  /\ pc[o] = "retire" /\ lock = Free
  /\ \/ /\ SameConfig(o) /\ Goto(o, "retire_write")
        /\ lock' = o /\ view' = config
        /\ UNCHANGED counts
     \/ ~SameConfig(o) /\ Stop(o, "failed") /\ UNCHANGED <<lock, view, counts>>
     \/ Fault /\ Stop(o, "failed") /\ UNCHANGED <<lock, view>>
  /\ UNCHANGED <<config, running, policy, receipt, outdated, host>>

RetireWrite(o) ==
  /\ pc[o] = "retire_write"
  /\ \/ /\ config' = [view EXCEPT !.hooks = read[o].hooks \ {"deny"}]
        /\ Goto(o, "confirm")
        /\ UNCHANGED counts
     \/ Fault /\ Stop(o, "failed") /\ UNCHANGED config
  /\ lock' = Free /\ view' = None
  /\ UNCHANGED <<running, policy, receipt, outdated, host>>

\* What is read back has to be the planned document.
Confirm(o) ==
  /\ pc[o] = "confirm"
  /\ IF config = [read[o] EXCEPT !.hooks = @ \ {"deny"}] THEN Goto(o, "restart_mcp")
                                                         ELSE Stop(o, "failed")
  /\ UNCHANGED <<config, gateway, host, counts>>

\* As if the restart were left to whoever restarts the service next.
RestartSkipped(o) ==
  /\ pc[o] = "restart_mcp" /\ Goto(o, "observe")
  /\ UNCHANGED <<config, gateway, host, counts>>

RestartForHook(o) == pc[o] = "restart_mcp" /\ RestartGateway(o, Goto(o, "observe"))

\* Polled for five seconds: another process, governed like the first.
Observe(o) ==
  /\ pc[o] = "observe"
  /\ \/ running.up /\ running.governed /\ o \in outdated /\ Stop(o, "retired")
     \/ ~(running.up /\ running.governed /\ o \in outdated) /\ Stop(o, "failed")
  /\ UNCHANGED <<config, gateway, host, counts>>

-----------------------------------------------------------------------------
(* The environment.                                                         *)

GatewayLocks ==
  /\ running.up /\ lock = Free /\ saves < MaxSaves
  /\ lock' = Gateway /\ view' = config
  /\ saves' = saves + 1
  /\ UNCHANGED <<config, running, policy, receipt, outdated, host, pc, locals, result, faults>>

\* The owner's change of some other setting or of another hook entry, made to
\* the document as it was read under the lock.
GatewaySaves ==
  /\ lock = Gateway
  /\ config' \in {[view EXCEPT !.peer = ~@],
                  [view EXCEPT !.hooks = IF "other" \in @ THEN @ \ {"other"} ELSE @ \cup {"other"}]}
  /\ lock' = Free /\ view' = None
  /\ UNCHANGED <<running, policy, receipt, outdated, host, pc, locals, result, counts>>

GatewayFails ==
  /\ running.up
  /\ running' = [running EXCEPT !.up = FALSE]
  /\ GatewayDies
  /\ UNCHANGED <<config, policy, receipt, outdated, host, pc, locals, result, counts>>

GatewayRecovers ==
  /\ ~running.up
  /\ GatewayStarts
  /\ UNCHANGED <<config, lock, view, policy, host, pc, locals, result, counts>>

\* Another operator rolls the managed policy back, up to its restart.
PolicyRemoved ==
  /\ Rollback /\ policy
  /\ policy' = FALSE
  /\ UNCHANGED <<config, lock, view, running, receipt, outdated, host, pc, locals, result,
                 counts>>

Kill(o) ==
  /\ pc[o] # "idle" /\ Fault
  /\ Stop(o, "killed") /\ Dies(o)
  /\ UNCHANGED <<config, running, policy, receipt, outdated, host>>

-----------------------------------------------------------------------------
Integrate(o) ==
  \/ \E restart \in BOOLEAN : BeginIntegrate(o, restart)
  \/ WriteFile(o) \/ FilesWritten(o) \/ BackupConfig(o) \/ Compare(o) \/ Replace(o)
  \/ StartTimer(o) \/ RestartForTelemetry(o) \/ CheckActive(o)

ManageMcp(o) ==
  \/ BeginRegister(o) \/ Register(o) \/ Recheck(o) \/ BackupHook(o)
  \/ RetireLook(o) \/ RetireWrite(o) \/ Confirm(o) \/ RestartForHook(o) \/ Observe(o)

Next ==
  \/ \E retire \in BOOLEAN : MakePlan(retire)
  \/ \E o \in Operators : Integrate(o) \/ ManageMcp(o) \/ Kill(o)
  \/ GatewayLocks \/ GatewaySaves \/ GatewayFails \/ GatewayRecovers \/ PolicyRemoved

Spec == Init /\ [][Next]_vars

-----------------------------------------------------------------------------
\* The definitions above that begin with "As if" are of no action: they name
\* mistakes the properties below are there to catch.

PCs == {"idle", "files", "backup", "compare", "replace", "timer", "restart", "active",
        "register", "recheck", "hook_backup", "retire", "retire_write", "confirm", "restart_mcp", "observe"}

\* Every variable has its type.
TypeOK ==
  /\ config \in Config
  /\ lock \in {Free, Gateway} \cup Operators /\ view \in Config \cup {None}
  /\ running \in [up: BOOLEAN, governed: BOOLEAN, telemetry: BOOLEAN,
                  hooks: SUBSET {"deny", "other"}]
  /\ policy \in BOOLEAN /\ timer \in BOOLEAN /\ registered \in BOOLEAN
  /\ files \in [Files -> {"absent", "partial", "whole"}]
  /\ backups \subseteq Backup /\ stubs \subseteq Backup
  /\ receipt \in Plan \cup {None}
  /\ pc \in [Operators -> PCs]
  /\ todo \in [Operators -> SUBSET Files]
  /\ read \in [Operators -> Config \cup {None}]
  /\ change \in [Operators -> BOOLEAN]
  /\ outdated \subseteq Operators
  /\ result \in [Operators -> {"none", "failed", "killed", "configured", "registered", "retired"}]
  /\ saves \in Nat /\ faults \in Nat

Ends(o, outcome) == pc[o] # "idle" /\ pc'[o] = "idle" /\ result'[o] = outcome

\* A report that the integrations are installed means every one of them is
\* whole, also when an earlier attempt was cut short in the middle of one.
ConfiguredIsWhole ==
  [][\A o \in Operators : Ends(o, "configured") =>
       timer /\ \A f \in Files : files[f] = "whole"]_vars

\* Before an operator changes config.json, what it takes to put its change back is
\* on the host in a whole backup, whatever an earlier attempt left under that name:
\* the document integrate read, or the list of hooks the MCP helper read (integrate,
\* retire_hook).
ChangedIsBackedUp ==
  [][\A o \in Operators : pc'[o] # pc[o] /\ config' # config =>
       \E b \in backups :
         b.holds = IF pc[o] = "replace" THEN read[o] ELSE [hooks |-> read[o].hooks]]_vars

\* Retiring the hook removes that one entry from the document as it is when it is
\* written, and keeps what the owner saved since the plan was made: the comparison
\* finds an earlier save, and the product's lock keeps out a later one.
RetireKeepsOthers ==
  [][\A o \in Operators : pc[o] = "retire_write" /\ config' # config =>
       config' = [config EXCEPT !.hooks = @ \ {"deny"}]]_vars

\* A report of the retirement is about the running Gateway: it no longer has
\* the entry, though the service may fail and restart at any moment.
RetiredIsRunning ==
  [][\A o \in Operators : Ends(o, "retired") => "deny" \notin running.hooks]_vars
=============================================================================
