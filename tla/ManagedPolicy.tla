--------------------------- MODULE ManagedPolicy ---------------------------
(***************************************************************************)
(* The root-side lifecycle of the managed policy                           *)
(* (infrastructure/enterprise-policy/manage.py): plan, apply, activate and *)
(* rollback, one action per file-system or systemd call, run by any number *)
(* of operators that may be killed between two calls.  Around them: the    *)
(* Gateway, which edits config.json under the product's lock; an owner's   *)
(* text editor, which does not take it; the service and its restarts; a    *)
(* host administrator who puts files of their own at the managed paths.    *)
(***************************************************************************)
EXTENDS Naturals

CONSTANTS
  Operators,  \* processes that may run manage.py on the host
  Templates,  \* policy documents an operator may submit
  Actions,    \* the mutating modes the operators use in this instance
  InitConfigs,\* what config.json may hold when the policy is first planned
  EditKinds,  \* what its other writers change in this instance
  MaxEdits,   \* bound on their edits
  MaxFaults,  \* bound on failing writes and commands, kills and reboots
  RawEditor,  \* whether an editor that takes no lock is present
  Admin,      \* whether the administrator puts files at the managed paths
  LateFaults, \* whether a write may fail when its file is made already, and the
              \* fsync of a directory when the change in it is
  None, Free, Gateway, Managed, Foreign

Config == [dashboard: BOOLEAN, terminal: BOOLEAN, enabled: {"unset", "on", "off"},
           theme: BOOLEAN, font: BOOLEAN, interactive: BOOLEAN, canonical: BOOLEAN]

Plan == [template: Templates, config: Config]

\* A flag or a peer has the object around it.
WellFormed(c) ==
  /\ ~c.dashboard => ~c.terminal /\ ~c.theme
  /\ ~c.terminal => c.enabled = "unset" /\ ~c.font

ASSUME ValuesAssumption ==
  /\ InitConfigs \subseteq {c \in Config : WellFormed(c)}
  /\ Actions \subseteq {"apply", "activate", "rollback"}
  /\ EditKinds \subseteq {"theme", "font", "interactive", "on", "off"}
  /\ MaxEdits \in Nat /\ MaxFaults \in Nat
  /\ RawEditor \in BOOLEAN /\ Admin \in BOOLEAN /\ LateFaults \in BOOLEAN
  /\ {None, Foreign} \cap Templates = {}
  /\ None # Foreign /\ None # Managed /\ Managed # Foreign
  /\ None \notin Plan
  /\ Operators \cap (Templates \cup Plan \cup {None, Managed, Foreign}) = {}
  /\ {Free, Gateway} \cap Operators = {} /\ Free # Gateway

VARIABLES
  policy,     \* /etc/kirocrew-demo/security-policy.json
  dropin,     \* 60-kirocrew-enterprise-policy.conf
  manifest,   \* enterprise-policy-install.json: the plan it records
              \* (the name of an operator in one of these: the partial file
              \* that operator made there and has not written, or never will)
  before,     \* plans with a retained enterprise-policy-before-<plan>.json
  saved,      \* plans with a retained configuration backup
  partial,    \* the backups, of either kind, that are partial files
  config,     \* the Gateway's config.json
  lock,       \* holder of config.json.lock
  unit,       \* the drop-in systemd has loaded
  service,    \* the Gateway process: up, and the drop-in it was started with
  reviewed,   \* the plan receipt the operators hold
  receipt,    \* the install receipt the operators hold
  pc, mode,   \* where each operator is, and for which purpose
  plan,       \* the plan an operator is applying or rolling back
  view,       \* config.json as patch_terminal read it
  restarted,  \* operators whose first observed service start is outdated
  governed,   \* whether an activation's last snapshot passed its checks
  result,     \* what the last operation of an operator reported
  edits, faults

disk == <<policy, dropin, manifest, before, saved, partial>>
host == <<unit, service, restarted>>
files == <<reviewed, receipt>>
locals == <<plan, view, governed>>
counts == <<edits, faults>>
vars == <<policy, dropin, manifest, before, saved, partial, config, lock, unit, service,
          reviewed, receipt, pc, mode, plan, view, restarted, governed, result,
          edits, faults>>

-----------------------------------------------------------------------------
(* config.json: the terminal flag, the objects around it, a peer in each   *)
(* object, the approval posture, and whether its bytes are canonical.      *)

Peers(c) == <<c.theme, c.font, c.interactive>>
Terminal(c) == <<c.dashboard, c.terminal, c.enabled>>

Patched(c) == [c EXCEPT !.dashboard = TRUE, !.terminal = TRUE,
                        !.enabled = "off", !.canonical = TRUE]

\* As if the empty objects stayed.
RestoredInside(c, old) == [c EXCEPT !.enabled = old.enabled, !.canonical = TRUE]

\* The flag goes back to `old`; an object the patch created goes when empty.
Restored(c, old) ==
  LET terminal  == c.font \/ old.enabled # "unset" \/ old.terminal
      dashboard == c.theme \/ terminal \/ old.dashboard
  IN [c EXCEPT !.enabled = old.enabled, !.terminal = terminal,
               !.dashboard = dashboard, !.canonical = TRUE]

\* One save by the Gateway or the owner, in that writer's own formatting.
EditsOf(c) ==
  LET Edit(kind) ==
        CASE kind = "theme" -> [c EXCEPT !.dashboard = TRUE, !.theme = ~c.theme, !.canonical = FALSE]
          [] kind = "font" -> [c EXCEPT !.dashboard = TRUE, !.terminal = TRUE,
                                        !.font = ~c.font, !.canonical = FALSE]
          [] kind = "interactive" -> [c EXCEPT !.interactive = ~c.interactive, !.canonical = FALSE]
          [] kind \in {"on", "off"} -> [c EXCEPT !.dashboard = TRUE, !.terminal = TRUE,
                                                 !.enabled = kind, !.canonical = FALSE]
  IN {Edit(kind) : kind \in EditKinds}

-----------------------------------------------------------------------------
Init ==
  /\ policy = None /\ dropin = None /\ manifest = None
  /\ before = {} /\ saved = {} /\ partial = {}
  /\ config \in InitConfigs
  /\ lock = Free
  /\ unit = None /\ service = [up |-> TRUE, env |-> None]
  /\ reviewed = None /\ receipt = None
  /\ pc = [o \in Operators |-> "idle"]
  /\ mode = [o \in Operators |-> "none"]
  /\ plan = [o \in Operators |-> None]
  /\ view = [o \in Operators |-> None]
  /\ restarted = {}
  /\ governed = [o \in Operators |-> FALSE]
  /\ result = [o \in Operators |-> "none"]
  /\ edits = 0 /\ faults = 0

Goto(o, next) == pc' = [pc EXCEPT ![o] = next] /\ UNCHANGED <<mode, result, locals>>

\* operate returns or raises: its local state is gone.
Stop(o, outcome) ==
  /\ pc' = [pc EXCEPT ![o] = "idle"]
  /\ mode' = [mode EXCEPT ![o] = "none"]
  /\ plan' = [plan EXCEPT ![o] = None]
  /\ view' = [view EXCEPT ![o] = None]
  /\ governed' = [governed EXCEPT ![o] = FALSE]
  /\ result' = [result EXCEPT ![o] = outcome]

\* apply's except clause: undo what was created, from step `next` on.
Undo(o, next) ==
  /\ pc' = [pc EXCEPT ![o] = next]
  /\ mode' = [mode EXCEPT ![o] = "undo"]
  /\ UNCHANGED <<result, locals>>

Fault == faults < MaxFaults /\ faults' = faults + 1 /\ UNCHANGED edits

-----------------------------------------------------------------------------
(* Checks shared by the modes.                                              *)

\* service_snapshot reads every drop-in systemd has loaded.
SnapshotReads == unit # None => dropin # None

\* plan_for and binding_for.
PlanAllowed ==
  /\ SnapshotReads
  /\ service.up /\ unit = None /\ service.env = None
  /\ policy = None /\ dropin = None /\ manifest = None
  /\ config.interactive

\* load_install, the bindings, and the guards every later mode shares.
InstallLoads ==
  /\ SnapshotReads
  /\ manifest # None /\ receipt = manifest
  /\ policy = manifest.template /\ dropin = Managed
  /\ config.interactive

MakePlan(t) ==
  /\ PlanAllowed
  /\ reviewed' = [template |-> t, config |-> config]
  /\ UNCHANGED <<disk, config, lock, host, receipt, pc, mode, locals, result, counts>>

Begin(o, m, next, p) ==
  /\ pc[o] = "idle" /\ m \in Actions
  /\ pc' = [pc EXCEPT ![o] = next]
  /\ mode' = [mode EXCEPT ![o] = m]
  /\ plan' = [plan EXCEPT ![o] = p]
  /\ result' = [result EXCEPT ![o] = "none"]
  /\ UNCHANGED <<view, governed>>

BeginApply(o) ==
  /\ PlanAllowed
  /\ reviewed # None /\ reviewed.config = config
  /\ Begin(o, "apply", "backup", reviewed)
  /\ UNCHANGED <<disk, config, lock, host, files, counts>>

BeginRollback(o) ==
  /\ InstallLoads
  /\ manifest \in before /\ manifest \in saved
  /\ Begin(o, "rollback", "patch_lock", manifest)
  /\ UNCHANGED <<disk, config, lock, host, files, counts>>

BeginActivate(o) ==
  /\ InstallLoads
  /\ Begin(o, "activate", "reload", manifest)
  /\ restarted' = restarted \ {o}
  /\ UNCHANGED <<disk, config, lock, unit, service, files, counts>>

-----------------------------------------------------------------------------
(* apply.  Tree.write_new creates a file at a free name (Create), then      *)
(* writes it (Fill).  What it writes goes to the file it made, at the name  *)
(* or no longer; when the write fails, it unlinks what is at the name.      *)

Create(absent, made, kept, next, failed) ==
  \/ absent /\ made /\ next /\ UNCHANGED counts
  \/ absent /\ kept /\ Fault /\ failed
  \/ ~absent /\ kept /\ failed /\ UNCHANGED counts

Fill(whole, gone, next, failed) ==
  \/ whole /\ next /\ UNCHANGED counts
  \/ LateFaults /\ (whole \/ gone) /\ Fault /\ failed

Refused(o) == Stop(o, "refused")

CreateBackup(o, kind, done, next) ==
  /\ Create(plan[o] \notin done /\ <<kind, plan[o]>> \notin partial,
            partial' = partial \cup {<<kind, plan[o]>>}, UNCHANGED partial,
            Goto(o, next), Refused(o))
  /\ UNCHANGED <<policy, dropin, manifest, before, saved, config, lock, host, files>>

WriteBeforeOnly(o) ==
  /\ pc[o] = "backup"
  /\ CreateBackup(o, "before", before, "write_policy")

WriteBefore(o) ==
  /\ pc[o] = "backup"
  /\ CreateBackup(o, "before", before, "fill_before")

FillBefore(o) ==
  /\ pc[o] = "fill_before"
  /\ Fill(before' = before \cup {plan[o]}, UNCHANGED before,
          Goto(o, "backup_config"), Refused(o))
  /\ partial' = partial \ {<<"before", plan[o]>>}
  /\ UNCHANGED <<policy, dropin, manifest, saved, config, lock, host, files>>

WriteConfigBackup(o) ==
  /\ pc[o] = "backup_config"
  /\ \/ config = plan[o].config /\ CreateBackup(o, "saved", saved, "fill_config")
     \/ config # plan[o].config /\ Refused(o)
        /\ UNCHANGED <<disk, config, lock, host, files, counts>>

FillConfigBackup(o) ==
  /\ pc[o] = "fill_config"
  /\ Fill(saved' = saved \cup {plan[o]}, UNCHANGED saved,
          Goto(o, "write_policy"), Refused(o))
  /\ partial' = partial \ {<<"saved", plan[o]>>}
  /\ UNCHANGED <<policy, dropin, manifest, before, config, lock, host, files>>

\* What the name holds once o has written: its own file, if that is still there.
Written(o, there, whole) == IF there = o THEN whole ELSE there

WritePolicy(o) ==
  /\ pc[o] = "write_policy"
  /\ Create(policy = None, policy' = o, UNCHANGED policy, Goto(o, "fill_policy"), Refused(o))
  /\ UNCHANGED <<dropin, manifest, before, saved, partial, config, lock, host, files>>

FillPolicy(o) ==
  /\ pc[o] = "fill_policy"
  /\ Fill(policy' = Written(o, policy, plan[o].template), policy' = None,
          Goto(o, "write_dropin"), Refused(o))
  /\ UNCHANGED <<dropin, manifest, before, saved, partial, config, lock, host, files>>

WriteDropin(o) ==
  /\ pc[o] = "write_dropin"
  /\ Create(dropin = None, dropin' = o, UNCHANGED dropin,
            Goto(o, "fill_dropin"), Undo(o, "rm_policy"))
  /\ UNCHANGED <<policy, manifest, before, saved, partial, config, lock, host, files>>

FillDropin(o) ==
  /\ pc[o] = "fill_dropin"
  /\ Fill(dropin' = Written(o, dropin, Managed), dropin' = None,
          Goto(o, "patch_lock"), Undo(o, "rm_policy"))
  /\ UNCHANGED <<policy, manifest, before, saved, partial, config, lock, host, files>>

WriteManifest(o) ==
  /\ pc[o] = "write_manifest"
  /\ Create(manifest = None, manifest' = o, UNCHANGED manifest,
            Goto(o, "fill_manifest"), Undo(o, "patch_lock"))
  /\ UNCHANGED <<policy, dropin, before, saved, partial, config, lock, host, files>>

FillManifest(o) ==
  /\ pc[o] = "fill_manifest"
  /\ Fill(manifest' = Written(o, manifest, plan[o]), manifest' = None,
          Goto(o, "answer"), Undo(o, "patch_lock"))
  /\ UNCHANGED <<policy, dropin, before, saved, partial, config, lock, host, files>>

\* The install receipt reaches the operator's machine.
Answer(o) ==
  /\ pc[o] = "answer"
  /\ receipt' = plan[o]
  /\ Stop(o, "applied")
  /\ UNCHANGED <<disk, config, lock, host, reviewed, counts>>

-----------------------------------------------------------------------------
(* patch_terminal, for apply, for its undoing and for rollback: the lock   *)
(* without waiting, the checks on what is read, the second look at the     *)
(* file once the new one is written, and the replacement.                  *)

PatchFailsForward(o) ==
  CASE mode[o] = "apply"    -> Undo(o, "rm_policy")
    [] mode[o] = "undo"     -> Stop(o, "left")
    [] mode[o] = "rollback" -> Stop(o, "refused")

PatchFails(o) ==
  CASE mode[o] = "apply"    -> Undo(o, "rm_dropin")
    [] mode[o] = "undo"     -> Stop(o, "left")
    [] mode[o] = "rollback" -> Stop(o, "refused")

\* finally: closing the lock file releases it, whether the patch succeeded or not.
LockKept(o) == UNCHANGED lock
Unlock(o) == lock' = Free

PatchDone(o) == Goto(o, IF mode[o] = "apply" THEN "write_manifest" ELSE "rm_dropin")

\* As if the lock were taken from who holds it.
PatchLockAnyway(o) ==
  /\ pc[o] = "patch_lock"
  /\ lock' = o /\ Goto(o, "patch_read")
  /\ UNCHANGED <<disk, config, host, files, counts>>

PatchLock(o) ==
  /\ pc[o] = "patch_lock"
  /\ \/ lock = Free /\ lock' = o /\ Goto(o, "patch_read")
     \/ lock # Free /\ PatchFails(o) /\ UNCHANGED lock
  /\ UNCHANGED <<disk, config, host, files, counts>>

PatchReads(o) == IF mode[o] = "apply" THEN config = plan[o].config
                                      ELSE config.enabled = "off"

PatchRead(o) ==
  /\ pc[o] = "patch_read"
  /\ \/ /\ PatchReads(o)
        /\ view' = [view EXCEPT ![o] = config]
        /\ pc' = [pc EXCEPT ![o] = "patch_look"]
        /\ UNCHANGED <<lock, mode, plan, governed, result>>
     \/ ~PatchReads(o) /\ Unlock(o) /\ PatchFails(o)
  /\ UNCHANGED <<disk, config, host, files, counts>>

SameFile(o) == config = view[o]

PatchLook(o) ==
  /\ pc[o] = "patch_look"
  /\ \/ SameFile(o) /\ Goto(o, "patch_swap") /\ UNCHANGED <<lock, counts>>
     \/ ~SameFile(o) /\ PatchFails(o) /\ Unlock(o) /\ UNCHANGED counts
     \/ Fault /\ PatchFails(o) /\ Unlock(o)
  /\ UNCHANGED <<disk, config, host, files>>

NewConfig(o) == IF mode[o] = "apply" THEN Patched(view[o])
                                     ELSE Restored(view[o], plan[o].config)

PatchSwap(o) ==
  /\ pc[o] = "patch_swap"
  /\ Unlock(o)
  /\ \/ config' = NewConfig(o) /\ PatchDone(o) /\ UNCHANGED counts
     \/ Fault /\ PatchFails(o) /\ UNCHANGED config
     \/ Fault /\ LateFaults /\ config' = NewConfig(o) /\ PatchFails(o)
  /\ UNCHANGED <<disk, host, files>>

-----------------------------------------------------------------------------
(* Removal, by apply's except clause and by rollback: remove_exact compares *)
(* the file, then unlinks whatever is at its name.                          *)

Abandon(o) == Stop(o, IF mode[o] = "undo" THEN "left" ELSE "partial")

Compare(o, same, next) ==
  /\ \/ same /\ Goto(o, next) /\ UNCHANGED counts
     \/ ~same /\ Abandon(o) /\ UNCHANGED counts
     \/ Fault /\ Abandon(o)
  /\ UNCHANGED <<disk, config, lock, host, files>>

Unlink(there, gone, kept, done, failed) ==
  \/ there /\ gone /\ done /\ UNCHANGED counts
  \/ ~there /\ kept /\ failed /\ UNCHANGED counts
  \/ Fault /\ failed /\ (kept \/ (LateFaults /\ there /\ gone))

RemoveDropin(o) ==
  \/ pc[o] = "rm_dropin" /\ Compare(o, dropin = Managed, "unlink_dropin")
  \/ /\ pc[o] = "unlink_dropin"
     /\ Unlink(dropin # None, dropin' = None, UNCHANGED dropin,
               Goto(o, "rm_policy"), Abandon(o))
     /\ UNCHANGED <<policy, manifest, before, saved, partial, config, lock, host, files>>

RemovePolicy(o) ==
  \/ pc[o] = "rm_policy" /\ Compare(o, policy = plan[o].template, "unlink_policy")
  \/ /\ pc[o] = "unlink_policy"
     /\ Unlink(policy # None, policy' = None, UNCHANGED policy,
               IF mode[o] = "undo" THEN Stop(o, "undone") ELSE Goto(o, "rm_manifest"),
               Abandon(o))
     /\ UNCHANGED <<dropin, manifest, before, saved, partial, config, lock, host, files>>

RemoveManifest(o) ==
  \/ pc[o] = "rm_manifest" /\ Compare(o, manifest = plan[o], "unlink_manifest")
  \/ /\ pc[o] = "unlink_manifest"
     /\ Unlink(manifest # None, manifest' = None, UNCHANGED manifest,
               Goto(o, "reload"), Abandon(o))
     /\ UNCHANGED <<policy, dropin, before, saved, partial, config, lock, host, files>>

-----------------------------------------------------------------------------
(* systemd, for activate and rollback.                                      *)

\* A start takes the loaded drop-in, and ends what the old process held.
ServiceStart ==
  /\ service' = [up |-> TRUE, env |-> unit]
  /\ restarted' = {p \in Operators : mode[p] = "activate"}

GatewayDies == lock' = IF lock = Gateway THEN Free ELSE lock

CommandFails(o) == Stop(o, IF mode[o] = "activate" THEN "inactive" ELSE "partial")

DaemonReloadForgotten(o) ==
  /\ pc[o] = "reload"
  /\ Goto(o, "restart")
  /\ UNCHANGED <<disk, config, lock, host, files, counts>>

DaemonReload(o) ==
  /\ pc[o] = "reload"
  /\ \/ unit' = dropin /\ Goto(o, "restart") /\ UNCHANGED counts
     \/ Fault /\ CommandFails(o) /\ UNCHANGED unit
  /\ UNCHANGED <<disk, config, lock, service, restarted, files>>

RestartService(o) ==
  /\ pc[o] = "restart"
  /\ GatewayDies
  /\ \/ /\ ServiceStart
        /\ IF mode[o] = "activate" THEN Goto(o, "observe") ELSE Stop(o, "rolled_back")
        /\ UNCHANGED counts
     \/ /\ Fault /\ CommandFails(o)
        /\ service' = [service EXCEPT !.up = FALSE]
        /\ UNCHANGED restarted
  /\ UNCHANGED <<disk, config, unit, files>>

\* The polling loop ends at a snapshot that is ready, or at its twentieth.
Observe(o) ==
  /\ pc[o] = "observe"
  /\ \/ /\ SnapshotReads
        /\ governed' = [governed EXCEPT ![o] =
             service.up /\ o \in restarted /\ unit = Managed /\ service.env = Managed]
        /\ pc' = [pc EXCEPT ![o] = "check"]
        /\ UNCHANGED <<mode, plan, view, result>>
     \/ ~SnapshotReads /\ Stop(o, "inactive")
  /\ restarted' = restarted \ {o}
  /\ UNCHANGED <<disk, config, lock, unit, service, files, counts>>

CheckFlagless(o) ==
  /\ pc[o] = "check"
  /\ Stop(o, IF governed[o] THEN "activated" ELSE "inactive")
  /\ UNCHANGED <<disk, config, lock, host, files, counts>>

Check(o) ==
  /\ pc[o] = "check"
  /\ Stop(o, IF governed[o] /\ config.enabled = "off" THEN "activated" ELSE "inactive")
  /\ UNCHANGED <<disk, config, lock, host, files, counts>>

-----------------------------------------------------------------------------
(* The environment.                                                         *)

GatewayLocks ==
  /\ service.up /\ lock = Free /\ edits < MaxEdits
  /\ lock' = Gateway
  /\ edits' = edits + 1
  /\ UNCHANGED <<disk, config, host, files, pc, mode, locals, result, faults>>

GatewaySaves ==
  /\ lock = Gateway
  /\ config' \in EditsOf(config)
  /\ lock' = Free
  /\ UNCHANGED <<disk, host, files, pc, mode, locals, result, counts>>

RawEdit ==
  /\ RawEditor /\ edits < MaxEdits
  /\ config' \in EditsOf(config)
  /\ edits' = edits + 1
  /\ UNCHANGED <<disk, lock, host, files, pc, mode, locals, result, faults>>

AdminFile ==
  /\ Admin
  /\ \/ policy' = Foreign /\ UNCHANGED dropin
     \/ dropin' = Foreign /\ UNCHANGED policy
  /\ UNCHANGED <<manifest, before, saved, partial, config, lock, host, files, pc, mode,
                 locals, result, counts>>

\* Some other package reloads systemd.
AdminReload ==
  /\ unit' = dropin
  /\ UNCHANGED <<disk, config, lock, service, restarted, files, pc, mode, locals,
                 result, counts>>

ServiceFails ==
  /\ service.up
  /\ service' = [service EXCEPT !.up = FALSE]
  /\ GatewayDies
  /\ UNCHANGED <<disk, config, unit, restarted, files, pc, mode, locals, result, counts>>

ServiceRecovers ==
  /\ ~service.up
  /\ ServiceStart
  /\ UNCHANGED <<disk, config, lock, unit, files, pc, mode, locals, result, counts>>

\* The operator's process is killed; the kernel drops its lock.
Kill(o) ==
  /\ pc[o] # "idle" /\ Fault
  /\ Stop(o, "killed")
  /\ lock' = IF lock = o THEN Free ELSE lock
  /\ UNCHANGED <<disk, config, host, files>>

Reboot ==
  /\ Fault
  /\ pc' = [o \in Operators |-> "idle"]
  /\ mode' = [o \in Operators |-> "none"]
  /\ plan' = [o \in Operators |-> None]
  /\ view' = [o \in Operators |-> None]
  /\ governed' = [o \in Operators |-> FALSE]
  /\ result' = [o \in Operators |-> IF pc[o] = "idle" THEN result[o] ELSE "killed"]
  /\ lock' = Free
  /\ unit' = dropin /\ service' = [up |-> TRUE, env |-> dropin] /\ restarted' = {}
  /\ UNCHANGED <<disk, config, files>>

-----------------------------------------------------------------------------
Patch(o) == PatchLock(o) \/ PatchRead(o) \/ PatchLook(o) \/ PatchSwap(o)

Continue(o) ==
  \/ WriteBefore(o) \/ FillBefore(o) \/ WriteConfigBackup(o) \/ FillConfigBackup(o)
  \/ WritePolicy(o) \/ FillPolicy(o) \/ WriteDropin(o) \/ FillDropin(o) \/ Patch(o)
  \/ WriteManifest(o) \/ FillManifest(o) \/ Answer(o)
  \/ RemoveDropin(o) \/ RemovePolicy(o) \/ RemoveManifest(o)
  \/ DaemonReload(o) \/ RestartService(o) \/ Observe(o) \/ Check(o)

Environment ==
  \/ GatewayLocks \/ GatewaySaves \/ RawEdit \/ AdminFile \/ AdminReload
  \/ ServiceFails \/ ServiceRecovers \/ Reboot

Next ==
  \/ \E t \in Templates : MakePlan(t)
  \/ \E o \in Operators : BeginApply(o) \/ BeginRollback(o) \/ BeginActivate(o)
                          \/ Continue(o) \/ Kill(o)
  \/ Environment

Spec == Init /\ [][Next]_vars

\* An operator's process keeps running; a Gateway save ends.
FairSpec ==
  /\ Spec
  /\ \A o \in Operators : WF_vars(Continue(o))
  /\ WF_vars(GatewaySaves)

-----------------------------------------------------------------------------
(* Properties.  Definitions named above as a variant of the one they       *)
(* precede (WriteBeforeOnly, LockKept, ...) are that step with a bug the     *)
(* properties are there to catch; no action uses them.                      *)

PCs == {"idle", "backup", "fill_before", "backup_config", "fill_config", "write_policy",
        "fill_policy", "write_dropin", "fill_dropin", "patch_lock", "patch_read",
        "patch_look", "patch_swap", "write_manifest", "fill_manifest", "answer",
        "rm_dropin", "unlink_dropin", "rm_policy", "unlink_policy", "rm_manifest",
        "unlink_manifest", "reload", "restart", "observe", "check"}

Results == {"none", "refused", "applied", "undone", "left", "rolled_back", "partial",
            "activated", "inactive", "killed"}

\* What the drop-in's name may hold, and so what systemd may have loaded.
Dropins == {None, Managed, Foreign} \cup Operators

\* Every variable has its type.
TypeOK ==
  /\ policy \in Templates \cup {None, Foreign} \cup Operators
  /\ dropin \in Dropins
  /\ manifest \in Plan \cup {None} \cup Operators
  /\ before \subseteq Plan /\ saved \subseteq Plan
  /\ partial \subseteq {"before", "saved"} \X Plan
  /\ config \in Config
  /\ lock \in Operators \cup {Free, Gateway}
  /\ unit \in Dropins
  /\ service \in [up: BOOLEAN, env: Dropins]
  /\ reviewed \in Plan \cup {None} /\ receipt \in Plan \cup {None}
  /\ pc \in [Operators -> PCs]
  /\ mode \in [Operators -> {"none", "apply", "undo", "rollback", "activate"}]
  /\ plan \in [Operators -> Plan \cup {None}]
  /\ view \in [Operators -> Config \cup {None}]
  /\ restarted \subseteq Operators
  /\ governed \in [Operators -> BOOLEAN]
  /\ result \in [Operators -> Results]
  /\ edits \in Nat /\ faults \in Nat

\* At every instant, killed operators included, the drop-in that makes the
\* Gateway fail closed is on disk only with a whole policy file for it to
\* load: apply writes the policy first, undoing and rollback remove it last.
DropinHasPolicy == dropin = Managed => policy \notin {None} \cup Operators

\* Who answers for the policy file: the managed drop-in, or an operator that
\* has yet to create it, or one that has removed it and not yet the policy.
Claim(o) == pc[o] \in {"write_dropin", "rm_policy", "unlink_policy"}

\* However operators interleave, at most one of these claims stands, and the
\* policy file exists while it does: no operator removes another's policy.
OneClaim ==
  /\ \A o \in Operators : Claim(o) => policy \in Templates /\ dropin = None
  /\ \A o, p \in Operators : Claim(o) /\ Claim(p) => o = p

\* A manifest, and a receipt an operator holds, is only ever there with both
\* backups of its plan on the host: rollback and manual repair have them.
InstallBacked ==
  /\ manifest \in Plan => manifest \in before \cap saved
  /\ receipt # None => receipt \in before \cap saved

\* No step of an operator changes a peer of the terminal flag, whatever the
\* Gateway and other operators wrote, under the lock, since it planned.  (An
\* editor that takes no lock can save between the second look and os.replace.)
OperatorsKeepPeers ==
  [][(\E o \in Operators : pc'[o] # pc[o]) => Peers(config') = Peers(config)]_vars

\* Restoring, with the peers as planned, gives back the planned document:
\* objects the patch created disappear, objects that were there stay.
RestoreIsInverse ==
  [][\A o \in Operators :
       /\ pc[o] = "patch_swap" /\ pc'[o] # pc[o] /\ mode[o] # "apply"
       /\ config' # config
       /\ Peers(view[o]) = Peers(plan[o].config)
       => config' = [plan[o].config EXCEPT !.canonical = TRUE]]_vars

Ends(o, outcome) == pc[o] # "idle" /\ pc'[o] = "idle" /\ result'[o] = outcome

\* An apply that fails and completes its undoing leaves no managed file, and,
\* when nobody else edited config.json, the terminal flag it found.
UndoneLeavesNothing ==
  [][\A o \in Operators : Ends(o, "undone") =>
       /\ policy' = None /\ dropin' # Managed /\ manifest' # plan[o]
       /\ edits = 0 => Terminal(config') = Terminal(plan[o].config)]_vars

\* What a test asserts of an apply whose manifest write fails: it ends with
\* neither the policy nor the drop-in on disk.  (undo with the patch still to
\* be taken back is where such an apply is.)
FailedManifestWriteUndone ==
  [][\A o \in Operators :
       /\ mode[o] = "undo" /\ pc[o] \in {"patch_lock", "patch_read", "patch_look", "patch_swap"}
       /\ pc'[o] = "idle" /\ result'[o] # "killed"
       => policy' = None /\ dropin' # Managed]_vars

\* An activation that reports success leaves a service that runs, and will
\* restart, with the managed environment, the policy file it loads, and the
\* terminal still off although its owner may edit the flag at any time.  (Of
\* one operator, and unless the administrator replaced a file meanwhile.)
ActivatedIsGoverned ==
  [][\A o \in Operators : Ends(o, "activated") /\ policy # Foreign /\ dropin # Foreign =>
       /\ unit = Managed /\ service.env = Managed
       /\ policy \in Templates /\ manifest \in Plan /\ config.enabled = "off"]_vars

\* A rollback that reports success leaves no managed file, a unit and a
\* process without the managed environment.  (Of one operator.)
RolledBackIsClean ==
  [][\A o \in Operators : Ends(o, "rolled_back") =>
       /\ policy' \notin Templates /\ dropin' # Managed /\ manifest' = None
       /\ unit' # Managed /\ service'.env # Managed]_vars

\* Every operation ends and gives the configuration lock back: nothing in it
\* waits for another writer.
OperationsEnd ==
  \A o \in Operators :
    (pc[o] # "idle" \/ lock = o) ~> (pc[o] = "idle" /\ lock # o)
=============================================================================
