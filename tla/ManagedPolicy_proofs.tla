------------------------ MODULE ManagedPolicy_proofs ------------------------
(* Proofs about ManagedPolicy for every set of operators and of policy        *)
(* documents, and for any bound on edits and faults.                          *)
EXTENDS ManagedPolicy, TLAPS

BackupPCs == {"backup", "fill_before", "backup_config", "fill_config"}
InstallPCs == {"write_policy", "fill_policy", "write_dropin", "fill_dropin",
               "write_manifest", "fill_manifest", "answer"}
HeldPCs == {"patch_read", "patch_look", "patch_swap"}
PatchPCs == HeldPCs \cup {"patch_lock"}
RemovePCs == {"rm_dropin", "unlink_dropin", "rm_policy", "unlink_policy"}
ManifestPCs == {"rm_manifest", "unlink_manifest"}

\* Where an operator can be in each mode, and what it holds there.
Fits(p, m) ==
  /\ p \in BackupPCs \cup InstallPCs => m = "apply"
  /\ p \in PatchPCs => m \in {"apply", "undo", "rollback"}
  /\ p \in RemovePCs => m \in {"undo", "rollback"}
  /\ p \in ManifestPCs => m = "rollback"
  /\ p \in {"reload", "restart"} => m \in {"rollback", "activate"}
  /\ p \in {"observe", "check"} => m = "activate"

Looks(p) == p \in {"patch_look", "patch_swap"}

Phase(o) ==
  /\ pc[o] # "idle" => plan[o] \in Plan
  /\ Looks(pc[o]) => view[o] \in Config
  /\ Fits(pc[o], mode[o])

\* The operators' part of the type invariant, and the rest of it.
LocalsOK ==
  /\ pc \in [Operators -> PCs]
  /\ mode \in [Operators -> {"none", "apply", "undo", "rollback", "activate"}]
  /\ plan \in [Operators -> Plan \cup {None}]
  /\ view \in [Operators -> Config \cup {None}]
  /\ governed \in [Operators -> BOOLEAN]
  /\ result \in [Operators -> Results]
  /\ \A o \in Operators : Phase(o)

WorldOK ==
  /\ policy \in Templates \cup {None, Foreign} \cup Operators
  /\ dropin \in Dropins
  /\ manifest \in Plan \cup {None} \cup Operators
  /\ before \subseteq Plan /\ saved \subseteq Plan
  /\ partial \subseteq {"before", "saved"} \X Plan
  /\ config \in Config
  /\ lock \in Operators \cup {Free, Gateway}
  /\ unit \in Dropins
  /\ service \in [up: BOOLEAN, env: Dropins]
  /\ reviewed \in Plan \cup {None} /\ receipt \in Plan \cup {None}
  /\ restarted \subseteq Operators
  /\ edits \in Nat /\ faults \in Nat

TypeInv == WorldOK /\ LocalsOK

-----------------------------------------------------------------------------
(* config.json keeps its type through every writer.                           *)

LEMMA PatchedType == ASSUME NEW c \in Config PROVE Patched(c) \in Config
  BY DEF Config, Patched

LEMMA RestoredType ==
  ASSUME NEW c \in Config, NEW old \in Config PROVE Restored(c, old) \in Config
  BY DEF Config, Restored

\* What an edit can have made of a document, one kind after the other.
LEMMA EditsAre ==
  ASSUME NEW c, NEW d \in EditsOf(c)
  PROVE  \/ d = [c EXCEPT !.dashboard = TRUE, !.theme = ~c.theme, !.canonical = FALSE]
         \/ d = [c EXCEPT !.dashboard = TRUE, !.terminal = TRUE, !.font = ~c.font,
                          !.canonical = FALSE]
         \/ d = [c EXCEPT !.interactive = ~c.interactive, !.canonical = FALSE]
         \/ \E e \in {"on", "off"} :
              d = [c EXCEPT !.dashboard = TRUE, !.terminal = TRUE, !.enabled = e,
                            !.canonical = FALSE]
  BY ValuesAssumption DEF EditsOf

LEMMA EditsType == ASSUME NEW c \in Config, NEW d \in EditsOf(c) PROVE d \in Config
<1>1. CASE d = [c EXCEPT !.dashboard = TRUE, !.theme = ~c.theme, !.canonical = FALSE]
  BY <1>1 DEF Config
<1>2. CASE d = [c EXCEPT !.dashboard = TRUE, !.terminal = TRUE, !.font = ~c.font,
                         !.canonical = FALSE]
  BY <1>2 DEF Config
<1>3. CASE d = [c EXCEPT !.interactive = ~c.interactive, !.canonical = FALSE]
  BY <1>3 DEF Config
<1>4. CASE \E e \in {"on", "off"} :
             d = [c EXCEPT !.dashboard = TRUE, !.terminal = TRUE, !.enabled = e,
                           !.canonical = FALSE]
  BY <1>4 DEF Config
<1> QED BY <1>1, <1>2, <1>3, <1>4, EditsAre

LEMMA PlanType == ASSUME NEW p \in Plan PROVE p.template \in Templates /\ p.config \in Config
  BY DEF Plan

\* What an operator finds written where it wrote.
LEMMA WrittenIs ==
  ASSUME NEW o, NEW there, NEW whole
  PROVE  /\ Written(o, there, whole) \in {there, whole}
         /\ there # o => Written(o, there, whole) = there
         /\ there = o => Written(o, there, whole) = whole
  BY DEF Written

-----------------------------------------------------------------------------
(* The steps of an operator: where each starts, and the files it leaves alone. *)

OperatorSteps(o) ==
  BeginApply(o) \/ BeginRollback(o) \/ BeginActivate(o) \/ Continue(o) \/ Kill(o)

BackupSteps(o) == WriteBefore(o) \/ FillBefore(o) \/ WriteConfigBackup(o) \/ FillConfigBackup(o)
InstallSteps(o) ==
  \/ WritePolicy(o) \/ FillPolicy(o) \/ WriteDropin(o) \/ FillDropin(o)
  \/ WriteManifest(o) \/ FillManifest(o) \/ Answer(o)
RemoveSteps(o) == RemoveDropin(o) \/ RemovePolicy(o) \/ RemoveManifest(o)
SystemdSteps(o) == DaemonReload(o) \/ RestartService(o) \/ Observe(o) \/ Check(o)
BeginSteps(o) == BeginApply(o) \/ BeginRollback(o) \/ BeginActivate(o)

LEMMA StepsAre ==
  ASSUME NEW o
  PROVE  /\ OperatorSteps(o) <=> BeginSteps(o) \/ Kill(o) \/ Continue(o)
         /\ Continue(o) <=>
              BackupSteps(o) \/ InstallSteps(o) \/ Patch(o) \/ RemoveSteps(o) \/ SystemdSteps(o)
  BY DEF OperatorSteps, BeginSteps, Continue, BackupSteps, InstallSteps, RemoveSteps, SystemdSteps

LEMMA Where ==
  ASSUME NEW o
  PROVE  /\ BeginSteps(o) => pc[o] = "idle"
         /\ Kill(o) => pc[o] # "idle"
         /\ BackupSteps(o) => pc[o] \in BackupPCs
         /\ InstallSteps(o) => pc[o] \in InstallPCs
         /\ Patch(o) => pc[o] \in PatchPCs
         /\ RemoveSteps(o) => pc[o] \in RemovePCs \cup ManifestPCs
         /\ SystemdSteps(o) => pc[o] \in {"reload", "restart", "observe", "check"}
<1>1. BeginSteps(o) => pc[o] = "idle"
  BY DEF BeginSteps, BeginApply, BeginRollback, BeginActivate, Begin
<1>2. BackupSteps(o) => pc[o] \in BackupPCs
  BY DEF BackupSteps, WriteBefore, FillBefore, WriteConfigBackup, FillConfigBackup, BackupPCs
<1>3. InstallSteps(o) => pc[o] \in InstallPCs
  BY DEF InstallSteps, WritePolicy, FillPolicy, WriteDropin, FillDropin, WriteManifest,
         FillManifest, Answer, InstallPCs
<1>4. Patch(o) => pc[o] \in PatchPCs
  BY DEF Patch, PatchLock, PatchRead, PatchLook, PatchSwap, PatchPCs, HeldPCs
<1>5. RemoveSteps(o) => pc[o] \in RemovePCs \cup ManifestPCs
  BY DEF RemoveSteps, RemoveDropin, RemovePolicy, RemoveManifest, RemovePCs, ManifestPCs
<1>6. SystemdSteps(o) => pc[o] \in {"reload", "restart", "observe", "check"}
  BY DEF SystemdSteps, DaemonReload, RestartService, Observe, Check
<1> QED BY <1>1, <1>2, <1>3, <1>4, <1>5, <1>6 DEF Kill

\* Only the steps that name a file change it.
LEMMA Frame ==
  ASSUME NEW o, OperatorSteps(o)
  PROVE  /\ PatchSwap(o) \/ config' = config
         /\ WritePolicy(o) \/ FillPolicy(o) \/ RemovePolicy(o) \/ policy' = policy
         /\ WriteDropin(o) \/ FillDropin(o) \/ RemoveDropin(o) \/ dropin' = dropin
         /\ WriteManifest(o) \/ FillManifest(o) \/ RemoveManifest(o) \/ manifest' = manifest
         /\ BackupSteps(o) \/ UNCHANGED <<before, saved, partial>>
         /\ Answer(o) \/ receipt' = receipt
         /\ Patch(o) \/ RestartService(o) \/ Kill(o) \/ lock' = lock
         /\ reviewed' = reviewed /\ edits' = edits
<1>1. CASE BeginSteps(o)
  BY <1>1 DEF BeginSteps, BeginApply, BeginRollback, BeginActivate, disk, files, counts
<1>2. CASE Kill(o)
  BY <1>2 DEF Kill, Fault, disk, files
<1>3. CASE BackupSteps(o)
  BY <1>3 DEF BackupSteps, WriteBefore, FillBefore, WriteConfigBackup, FillConfigBackup,
              CreateBackup, Create, Fill, Fault, disk, files, counts
<1>4. CASE InstallSteps(o)
  BY <1>4 DEF InstallSteps, WritePolicy, FillPolicy, WriteDropin, FillDropin, WriteManifest,
              FillManifest, Answer, Create, Fill, Fault, disk, files, counts
<1>5. CASE Patch(o)
  BY <1>5 DEF Patch, PatchLock, PatchRead, PatchLook, PatchSwap, Fault, disk, files, counts
<1>6. CASE RemoveSteps(o)
  BY <1>6 DEF RemoveSteps, RemoveDropin, RemovePolicy, RemoveManifest, Compare, Unlink, Fault,
              disk, files, counts
<1>7. CASE SystemdSteps(o)
  BY <1>7 DEF SystemdSteps, DaemonReload, RestartService, Observe, Check, Fault, disk, files,
              counts
<1> QED BY <1>1, <1>2, <1>3, <1>4, <1>5, <1>6, <1>7, StepsAre

-----------------------------------------------------------------------------
(* How the local state of an operator moves.                                   *)

LEMMA GotoLocals ==
  ASSUME LocalsOK, NEW o \in Operators, NEW next \in PCs, Goto(o, next),
         pc[o] # "idle", Looks(next) => Looks(pc[o]), Fits(next, mode[o])
  PROVE  LocalsOK'
  BY DEF LocalsOK, Goto, Phase, locals

LEMMA StopLocals ==
  ASSUME LocalsOK, NEW o \in Operators, NEW outcome \in Results, Stop(o, outcome)
  PROVE  LocalsOK'
<1>1. Fits("idle", "none") /\ ~Looks("idle")
  BY DEF Fits, Looks, BackupPCs, InstallPCs, HeldPCs, PatchPCs, RemovePCs, ManifestPCs
<1>2. \A q \in Operators : Phase(q)'
  BY <1>1 DEF LocalsOK, Stop, Phase
<1> QED BY <1>2 DEF LocalsOK, Stop, PCs

LEMMA UndoLocals ==
  ASSUME LocalsOK, NEW o \in Operators, NEW next \in {"rm_dropin", "rm_policy", "patch_lock"},
         Undo(o, next), pc[o] # "idle"
  PROVE  LocalsOK'
<1>1. Fits(next, "undo") /\ ~Looks(next)
  BY DEF Fits, Looks, BackupPCs, InstallPCs, HeldPCs, PatchPCs, RemovePCs, ManifestPCs
<1>2. \A q \in Operators : Phase(q)'
  BY <1>1 DEF LocalsOK, Undo, Phase, locals
<1> QED BY <1>2 DEF LocalsOK, Undo, PCs, locals

LEMMA BeginLocals ==
  ASSUME LocalsOK, NEW o \in Operators, NEW p \in Plan, NEW m, NEW next,
         <<m, next>> \in {<<"apply", "backup">>, <<"rollback", "patch_lock">>,
                         <<"activate", "reload">>},
         Begin(o, m, next, p)
  PROVE  LocalsOK'
<1>1. Fits(next, m) /\ ~Looks(next)
  BY DEF Fits, Looks, BackupPCs, InstallPCs, HeldPCs, PatchPCs, RemovePCs, ManifestPCs
<1>2. \A q \in Operators : Phase(q)'
  BY <1>1 DEF LocalsOK, Begin, Phase
<1> QED BY <1>2 DEF LocalsOK, Begin, PCs, Results

LEMMA SameLocals ==
  ASSUME LocalsOK, UNCHANGED <<pc, mode, locals, result>>
  PROVE  LocalsOK'
  BY DEF LocalsOK, locals, Phase

LEMMA AtOperator == ASSUME LocalsOK, NEW o \in Operators PROVE Phase(o)
  BY DEF LocalsOK

\* Where a mode is at home.
LEMMA Modes ==
  ASSUME LocalsOK, NEW o \in Operators
  PROVE  /\ pc[o] \in BackupPCs \cup InstallPCs =>
              mode[o] = "apply" /\ pc[o] # "idle" /\ plan[o] \in Plan
         /\ pc[o] \in PatchPCs =>
              mode[o] \in {"apply", "undo", "rollback"} /\ pc[o] # "idle" /\ plan[o] \in Plan
         /\ pc[o] \in RemovePCs =>
              mode[o] \in {"undo", "rollback"} /\ pc[o] # "idle" /\ plan[o] \in Plan
         /\ pc[o] \in ManifestPCs =>
              mode[o] = "rollback" /\ pc[o] # "idle" /\ plan[o] \in Plan
<1>1. Phase(o)
  BY AtOperator
<1>2. "idle" \notin BackupPCs \cup InstallPCs \cup PatchPCs \cup RemovePCs \cup ManifestPCs
  BY DEF BackupPCs, InstallPCs, HeldPCs, PatchPCs, RemovePCs, ManifestPCs
<1> QED BY <1>1, <1>2 DEF Phase, Fits

-----------------------------------------------------------------------------
(* The type invariant, one lemma per group of actions.                         *)

LEMMA TypeInit == Init => TypeInv
<1> SUFFICES ASSUME Init PROVE TypeInv
  OBVIOUS
<1>1. WorldOK
  BY ValuesAssumption DEF Init, WorldOK, Dropins
<1>2. Fits("idle", "none") /\ ~Looks("idle")
  BY DEF Fits, Looks, BackupPCs, InstallPCs, HeldPCs, PatchPCs, RemovePCs, ManifestPCs
<1>3. LocalsOK
  BY <1>2 DEF Init, LocalsOK, Phase, PCs, Results
<1> QED BY <1>1, <1>3 DEF TypeInv

LEMMA MakePlanType == ASSUME TypeInv, NEW t \in Templates, MakePlan(t) PROVE TypeInv'
<1>1. [template |-> t, config |-> config] \in Plan
  BY DEF TypeInv, WorldOK, Plan
<1>2. WorldOK'
  BY <1>1 DEF TypeInv, WorldOK, MakePlan, disk, host, counts
<1> QED BY <1>2, SameLocals DEF TypeInv, MakePlan

\* A whole manifest is a plan: the receipts the operators hold are.
LEMMA InstalledPlan == ASSUME WorldOK, InstallLoads PROVE manifest \in Plan
  BY ValuesAssumption DEF WorldOK, InstallLoads

LEMMA BeginType == ASSUME TypeInv, NEW o \in Operators, BeginSteps(o) PROVE TypeInv'
<1>1. WorldOK'
  BY DEF TypeInv, WorldOK, BeginSteps, BeginApply, BeginRollback, BeginActivate, disk, host,
         files, counts
<1>2. CASE BeginApply(o)
  BY <1>1, <1>2, BeginLocals DEF TypeInv, WorldOK, BeginApply
<1>3. CASE BeginRollback(o)
  BY <1>1, <1>3, BeginLocals, InstalledPlan DEF TypeInv, BeginRollback
<1>4. CASE BeginActivate(o)
  BY <1>1, <1>4, BeginLocals, InstalledPlan DEF TypeInv, BeginActivate
<1> QED BY <1>2, <1>3, <1>4 DEF BeginSteps

\* Where the steps of apply before the patch go to.
LEMMA ApplyGoes ==
  ASSUME NEW o, BackupSteps(o) \/ InstallSteps(o)
  PROVE  \/ \E next \in BackupPCs \cup InstallPCs \cup {"patch_lock"} : Goto(o, next)
         \/ \E next \in {"rm_policy", "patch_lock"} : Undo(o, next)
         \/ \E outcome \in {"refused", "applied"} : Stop(o, outcome)
<1>1. CASE BackupSteps(o)
  BY <1>1 DEF BackupSteps, WriteBefore, FillBefore, WriteConfigBackup, FillConfigBackup,
              CreateBackup, Create, Fill, Refused, BackupPCs, InstallPCs
<1>2. CASE InstallSteps(o)
  BY <1>2 DEF InstallSteps, WritePolicy, FillPolicy, WriteDropin, FillDropin, WriteManifest,
              FillManifest, Answer, Create, Fill, Refused, InstallPCs
<1> QED BY <1>1, <1>2

LEMMA ApplyLocals ==
  ASSUME LocalsOK, NEW o \in Operators, BackupSteps(o) \/ InstallSteps(o)
  PROVE  LocalsOK'
<1>1. mode[o] = "apply" /\ pc[o] # "idle"
  BY Where, Modes
<1>2. ASSUME NEW next \in BackupPCs \cup InstallPCs \cup {"patch_lock"}, Goto(o, next)
      PROVE  LocalsOK'
  <2>1. next \in PCs /\ ~Looks(next) /\ Fits(next, mode[o])
    BY <1>1 DEF PCs, Fits, Looks, BackupPCs, InstallPCs, HeldPCs, PatchPCs, RemovePCs,
                ManifestPCs
  <2> QED BY <1>1, <1>2, <2>1, GotoLocals
<1>3. ASSUME NEW next \in {"rm_policy", "patch_lock"}, Undo(o, next) PROVE LocalsOK'
  BY <1>1, <1>3, UndoLocals
<1>4. ASSUME NEW outcome \in {"refused", "applied"}, Stop(o, outcome) PROVE LocalsOK'
  BY <1>4, StopLocals DEF Results
<1> QED BY <1>2, <1>3, <1>4, ApplyGoes

LEMMA BackupType == ASSUME TypeInv, NEW o \in Operators, BackupSteps(o) PROVE TypeInv'
<1>1. plan[o] \in Plan
  BY Where, Modes DEF TypeInv
<1>2. WorldOK'
  BY <1>1 DEF TypeInv, WorldOK, BackupSteps, WriteBefore, FillBefore, WriteConfigBackup,
              FillConfigBackup, CreateBackup, Create, Fill, Fault, disk, host, files, counts
<1> QED BY <1>2, ApplyLocals DEF TypeInv

LEMMA InstallType == ASSUME TypeInv, NEW o \in Operators, InstallSteps(o) PROVE TypeInv'
<1>1. plan[o] \in Plan /\ plan[o].template \in Templates
  BY Where, Modes, PlanType DEF TypeInv
<1>2. /\ Written(o, policy, plan[o].template) \in {policy, plan[o].template}
      /\ Written(o, dropin, Managed) \in {dropin, Managed}
      /\ Written(o, manifest, plan[o]) \in {manifest, plan[o]}
  BY WrittenIs
<1>3. CASE WritePolicy(o) \/ FillPolicy(o)
  <2>1. WorldOK'
    BY <1>1, <1>2, <1>3 DEF TypeInv, WorldOK, WritePolicy, FillPolicy, Create, Fill, Fault,
                            host, files, counts
  <2> QED BY <2>1, ApplyLocals DEF TypeInv
<1>4. CASE WriteDropin(o) \/ FillDropin(o)
  <2>1. dropin' \in Dropins
    BY <1>2, <1>4 DEF TypeInv, WorldOK, WriteDropin, FillDropin, Create, Fill, Dropins
  <2>2. WorldOK'
    BY <1>4, <2>1 DEF TypeInv, WorldOK, WriteDropin, FillDropin, Create, Fill, Fault,
                      host, files, counts
  <2> QED BY <2>2, ApplyLocals DEF TypeInv
<1>5. CASE WriteManifest(o) \/ FillManifest(o)
  <2>1. WorldOK'
    BY <1>1, <1>2, <1>5 DEF TypeInv, WorldOK, WriteManifest, FillManifest, Create, Fill, Fault,
                            host, files, counts
  <2> QED BY <2>1, ApplyLocals DEF TypeInv
<1>6. CASE Answer(o)
  <2>1. WorldOK'
    BY <1>1, <1>6 DEF TypeInv, WorldOK, Answer, disk, host, counts
  <2> QED BY <2>1, ApplyLocals DEF TypeInv
<1> QED BY <1>3, <1>4, <1>5, <1>6 DEF InstallSteps

\* A patch that fails stops the operator or sends it to undo.
LEMMA PatchFailsIs ==
  ASSUME LocalsOK, NEW o \in Operators, PatchFails(o), pc[o] \in PatchPCs
  PROVE  \/ mode[o] = "apply" /\ Undo(o, "rm_dropin")
         \/ Stop(o, "left") \/ Stop(o, "refused")
<1>1. mode[o] \in {"apply", "undo", "rollback"}
  BY Modes
<1> QED BY <1>1 DEF PatchFails

LEMMA PatchFailsLocals ==
  ASSUME LocalsOK, NEW o \in Operators, PatchFails(o), pc[o] \in PatchPCs
  PROVE  LocalsOK'
<1>1. pc[o] # "idle"
  BY Modes
<1>2. CASE Undo(o, "rm_dropin")
  BY <1>1, <1>2, UndoLocals
<1>3. CASE Stop(o, "left") \/ Stop(o, "refused")
  BY <1>3, StopLocals DEF Results
<1> QED BY <1>2, <1>3, PatchFailsIs

\* Where a patch that goes on goes to.
PatchGoes(o) ==
  \/ PatchLock(o) /\ lock = Free /\ lock' = o /\ Goto(o, "patch_read")
  \/ /\ PatchRead(o) /\ PatchReads(o) /\ lock' = lock
     /\ view' = [view EXCEPT ![o] = config]
     /\ pc' = [pc EXCEPT ![o] = "patch_look"]
     /\ UNCHANGED <<mode, plan, governed, result>>
  \/ PatchLook(o) /\ SameFile(o) /\ lock' = lock /\ Goto(o, "patch_swap")
  \/ PatchSwap(o) /\ config' = NewConfig(o) /\ lock' = Free /\ PatchDone(o)

LEMMA PatchIs ==
  ASSUME NEW o, Patch(o)
  PROVE  \/ PatchGoes(o)
         \/ PatchFails(o) /\ (lock' = Free \/ (PatchLock(o) /\ lock # Free /\ lock' = lock))
<1>1. CASE PatchLock(o)
  BY <1>1 DEF PatchLock, PatchGoes
<1>2. CASE PatchRead(o)
  BY <1>2 DEF PatchRead, Unlock, PatchGoes
<1>3. CASE PatchLook(o)
  BY <1>3 DEF PatchLook, Unlock, PatchGoes
<1>4. CASE PatchSwap(o)
  BY <1>4 DEF PatchSwap, Unlock, PatchGoes
<1> QED BY <1>1, <1>2, <1>3, <1>4 DEF Patch

LEMMA PatchLocals ==
  ASSUME LocalsOK, config \in Config, NEW o \in Operators, Patch(o) PROVE LocalsOK'
<1>1. /\ pc[o] \in PatchPCs /\ pc[o] # "idle" /\ Phase(o)
      /\ mode[o] \in {"apply", "undo", "rollback"}
  BY Where, Modes, AtOperator
<1>2. CASE PatchFails(o)
  BY <1>1, <1>2, PatchFailsLocals
<1>3. CASE PatchLock(o) /\ Goto(o, "patch_read")
  <2>1. "patch_read" \in PCs /\ ~Looks("patch_read") /\ Fits("patch_read", mode[o])
    BY <1>1 DEF PCs, Fits, Looks, BackupPCs, InstallPCs, HeldPCs, PatchPCs, RemovePCs,
                ManifestPCs
  <2> QED BY <1>1, <1>3, <2>1, GotoLocals
<1>4. CASE /\ view' = [view EXCEPT ![o] = config]
           /\ pc' = [pc EXCEPT ![o] = "patch_look"]
           /\ UNCHANGED <<mode, plan, governed, result>>
  <2>1. Fits("patch_look", mode[o])
    BY <1>1 DEF Fits, BackupPCs, InstallPCs, HeldPCs, PatchPCs, RemovePCs, ManifestPCs
  <2>2. \A q \in Operators : Phase(q)'
    BY <1>1, <1>4, <2>1 DEF LocalsOK, Phase, Looks
  <2> QED BY <1>4, <2>2 DEF LocalsOK, PCs
<1>5. CASE PatchLook(o) /\ Goto(o, "patch_swap")
  <2>1. "patch_swap" \in PCs /\ Looks(pc[o]) /\ Fits("patch_swap", mode[o])
    BY <1>1, <1>5 DEF PatchLook, PCs, Fits, Looks, BackupPCs, InstallPCs, HeldPCs, PatchPCs,
                RemovePCs, ManifestPCs
  <2> QED BY <1>1, <1>5, <2>1, GotoLocals
<1>6. CASE PatchDone(o)
  <2> DEFINE next == IF mode[o] = "apply" THEN "write_manifest" ELSE "rm_dropin"
  <2>1. next \in PCs /\ ~Looks(next) /\ Fits(next, mode[o])
    BY <1>1 DEF PCs, Fits, Looks, BackupPCs, InstallPCs, HeldPCs, PatchPCs, RemovePCs,
                ManifestPCs
  <2>2. Goto(o, next)
    BY <1>6 DEF PatchDone
  <2> HIDE DEF next
  <2> QED BY <1>1, <2>1, <2>2, GotoLocals
<1> QED BY <1>2, <1>3, <1>4, <1>5, <1>6, PatchIs DEF PatchGoes

LEMMA PatchType == ASSUME TypeInv, NEW o \in Operators, Patch(o) PROVE TypeInv'
<1>1. LocalsOK /\ config \in Config /\ Phase(o)
  BY AtOperator DEF TypeInv, WorldOK
<1>2. config' \in Config
  <2>1. CASE PatchSwap(o)
    <3>1. view[o] \in Config /\ plan[o].config \in Config
      BY <1>1, <2>1, PlanType DEF PatchSwap, Phase, Looks
    <3>2. NewConfig(o) \in Config
      BY <3>1, PatchedType, RestoredType DEF NewConfig
    <3> QED BY <1>1, <2>1, <3>2 DEF PatchSwap
  <2>2. CASE ~PatchSwap(o)
    BY <1>1, <2>2 DEF Patch, PatchLock, PatchRead, PatchLook
  <2> QED BY <2>1, <2>2
<1>3. WorldOK'
  BY <1>2 DEF TypeInv, WorldOK, Patch, PatchLock, PatchRead, PatchLook, PatchSwap, Unlock,
              Fault, disk, host, files, counts
<1> QED BY <1>1, <1>3, PatchLocals DEF TypeInv

\* Where the steps that compare and unlink go to.
RemoveGoes(o) ==
  \/ RemoveDropin(o) /\ Goto(o, "unlink_dropin") /\ pc[o] = "rm_dropin" /\ dropin' = dropin
  \/ RemoveDropin(o) /\ Goto(o, "rm_policy") /\ pc[o] = "unlink_dropin" /\ dropin # None /\ dropin' = None
  \/ RemovePolicy(o) /\ Goto(o, "unlink_policy") /\ pc[o] = "rm_policy" /\ policy' = policy
  \/ /\ RemovePolicy(o) /\ pc[o] = "unlink_policy" /\ policy' = None
     /\ IF mode[o] = "undo" THEN Stop(o, "undone") ELSE Goto(o, "rm_manifest")
  \/ RemoveManifest(o) /\ Goto(o, "unlink_manifest") /\ pc[o] = "rm_manifest" /\ manifest' = manifest
  \/ RemoveManifest(o) /\ Goto(o, "reload") /\ pc[o] = "unlink_manifest" /\ manifest' = None

\* And those that fail: the files stay, or, when only the directory's fsync
\* failed, one of them is gone.
RemoveFails(o) ==
  /\ Abandon(o)
  /\ UNCHANGED <<policy, dropin, manifest>> \/ LateFaults

LEMMA RemoveIs ==
  ASSUME NEW o, RemoveSteps(o) PROVE RemoveGoes(o) \/ RemoveFails(o)
<1>1. CASE RemoveDropin(o)
  BY <1>1 DEF RemoveDropin, Compare, Unlink, RemoveGoes, RemoveFails, disk
<1>2. CASE RemovePolicy(o)
  BY <1>2 DEF RemovePolicy, Compare, Unlink, RemoveGoes, RemoveFails, disk
<1>3. CASE RemoveManifest(o)
  BY <1>3 DEF RemoveManifest, Compare, Unlink, RemoveGoes, RemoveFails, disk
<1> QED BY <1>1, <1>2, <1>3 DEF RemoveSteps

LEMMA RemoveType == ASSUME TypeInv, NEW o \in Operators, RemoveSteps(o) PROVE TypeInv'
<1>1. /\ LocalsOK /\ Phase(o) /\ pc[o] # "idle"
      /\ pc[o] \in RemovePCs \cup ManifestPCs
      /\ mode[o] \in {"undo", "rollback"}
  BY Where, Modes, AtOperator DEF TypeInv
<1>2. WorldOK'
  BY DEF TypeInv, WorldOK, RemoveSteps, RemoveDropin, RemovePolicy, RemoveManifest, Compare,
         Unlink, Fault, Dropins, disk, host, files, counts
<1>3. ASSUME NEW outcome \in {"left", "partial", "undone"}, Stop(o, outcome)
      PROVE  TypeInv'
  BY <1>2, <1>3, StopLocals DEF TypeInv, Results
<1>4. ASSUME NEW next, Goto(o, next),
             \/ next \in {"unlink_dropin", "rm_policy", "unlink_policy"}
             \/ next \in {"rm_manifest", "unlink_manifest", "reload"} /\ mode[o] = "rollback"
      PROVE  TypeInv'
  <2>1. next \in PCs /\ ~Looks(next) /\ Fits(next, mode[o])
    BY <1>1, <1>4 DEF PCs, Fits, Looks, BackupPCs, InstallPCs, HeldPCs, PatchPCs, RemovePCs,
                ManifestPCs
  <2> QED BY <1>1, <1>2, <1>4, <2>1, GotoLocals DEF TypeInv
<1>5. CASE RemoveManifest(o)
  <2>1. mode[o] = "rollback"
    BY <1>1, <1>5 DEF RemoveManifest, Phase, Fits, ManifestPCs
  <2> QED BY <1>3, <1>4, <1>5, <2>1 DEF RemoveManifest, Compare, Unlink, Abandon
<1>6. CASE RemovePolicy(o)
  BY <1>1, <1>3, <1>4, <1>6 DEF RemovePolicy, Compare, Unlink, Abandon
<1>7. CASE RemoveDropin(o)
  BY <1>3, <1>4, <1>7 DEF RemoveDropin, Compare, Unlink, Abandon
<1> QED BY <1>5, <1>6, <1>7 DEF RemoveSteps

LEMMA ServiceTypes ==
  ASSUME WorldOK
  PROVE  /\ ServiceStart => service' \in [up: BOOLEAN, env: Dropins] /\ restarted' \subseteq Operators
         /\ [service EXCEPT !.up = FALSE] \in [up: BOOLEAN, env: Dropins]
         /\ GatewayDies => lock' \in Operators \cup {Free, Gateway}
<1>1. ServiceStart => service' \in [up: BOOLEAN, env: Dropins] /\ restarted' \subseteq Operators
  BY DEF WorldOK, ServiceStart
<1>2. service \in [up: BOOLEAN, env: Dropins]
  BY DEF WorldOK
<1>3. [service EXCEPT !.up = FALSE] \in [up: BOOLEAN, env: Dropins]
  BY <1>2
<1>4. GatewayDies => lock' \in Operators \cup {Free, Gateway}
  BY DEF WorldOK, GatewayDies
<1> QED BY <1>1, <1>3, <1>4

\* Where the steps that command systemd go to.
Observes(o) ==
  /\ Observe(o)
  /\ governed' = [governed EXCEPT ![o] =
       service.up /\ o \in restarted /\ unit = Managed /\ service.env = Managed]
  /\ pc' = [pc EXCEPT ![o] = "check"]
  /\ UNCHANGED <<mode, plan, view, result>>

LEMMA SystemdIs ==
  ASSUME NEW o, SystemdSteps(o)
  PROVE  \/ DaemonReload(o) /\ unit' = dropin /\ Goto(o, "restart")
         \/ RestartService(o) /\ mode[o] = "activate" /\ Goto(o, "observe")
         \/ RestartService(o) /\ mode[o] # "activate" /\ ServiceStart /\ Stop(o, "rolled_back")
         \/ Observes(o)
         \/ Check(o) /\ governed[o] /\ config.enabled = "off" /\ Stop(o, "activated")
         \/ Stop(o, "inactive") \/ Stop(o, "partial")
<1>1. CASE DaemonReload(o)
  BY <1>1 DEF DaemonReload, CommandFails
<1>2. CASE RestartService(o)
  BY <1>2 DEF RestartService, CommandFails
<1>3. CASE Observe(o)
  BY <1>3 DEF Observe, Observes
<1>4. CASE Check(o)
  BY <1>4 DEF Check
<1> QED BY <1>1, <1>2, <1>3, <1>4 DEF SystemdSteps

LEMMA SystemdType == ASSUME TypeInv, NEW o \in Operators, SystemdSteps(o) PROVE TypeInv'
<1>1. LocalsOK /\ Phase(o) /\ pc[o] # "idle"
  BY Where, AtOperator DEF TypeInv
<1>2. WorldOK'
  <2>1. CASE DaemonReload(o)
    BY <2>1 DEF TypeInv, WorldOK, DaemonReload, Fault, disk, files, counts
  <2>2. CASE RestartService(o)
    <3>1. /\ service' \in [up: BOOLEAN, env: Dropins]
          /\ restarted' \subseteq Operators
          /\ lock' \in Operators \cup {Free, Gateway}
      <4>1. WorldOK /\ restarted \subseteq Operators
        BY DEF TypeInv, WorldOK
      <4> QED BY <2>2, <4>1, ServiceTypes DEF RestartService
    <3> QED BY <2>2, <3>1 DEF TypeInv, WorldOK, RestartService, Fault, disk, files, counts
  <2>3. CASE Observe(o) \/ Check(o)
    BY <2>3 DEF TypeInv, WorldOK, Observe, Check, disk, host, files, counts
  <2> QED BY <2>1, <2>2, <2>3 DEF SystemdSteps
<1>3. ASSUME NEW outcome \in {"inactive", "partial", "rolled_back", "activated"},
             Stop(o, outcome)
      PROVE  TypeInv'
  BY <1>2, <1>3, StopLocals DEF TypeInv, Results
<1>4. ASSUME NEW next, Goto(o, next),
             \/ next = "restart" /\ pc[o] = "reload"
             \/ next = "observe" /\ mode[o] = "activate"
      PROVE  TypeInv'
  <2>1. next \in PCs /\ ~Looks(next) /\ Fits(next, mode[o])
    BY <1>1, <1>4 DEF PCs, Phase, Fits, Looks, BackupPCs, InstallPCs, HeldPCs, PatchPCs,
                RemovePCs, ManifestPCs
  <2> QED BY <1>1, <1>2, <1>4, <2>1, GotoLocals DEF TypeInv
<1>5. CASE Observes(o)
  <2>1. Fits("check", mode[o]) /\ ~Looks("check")
    BY <1>1, <1>5 DEF Observes, Observe, Phase, Fits, Looks, BackupPCs, InstallPCs, HeldPCs,
       PatchPCs, RemovePCs, ManifestPCs
  <2>2. \A q \in Operators : Phase(q)'
    BY <1>1, <1>5, <2>1 DEF LocalsOK, Observes, Phase
  <2>3. service.up \in BOOLEAN
    BY DEF TypeInv, WorldOK
  <2>4. LocalsOK'
    BY <1>1, <1>5, <2>2, <2>3 DEF LocalsOK, Observes, PCs
  <2> QED BY <1>2, <2>4 DEF TypeInv
<1>6. DaemonReload(o) => pc[o] = "reload"
  BY DEF DaemonReload
<1> QED BY <1>3, <1>4, <1>5, <1>6, SystemdIs

LEMMA EnvironmentType == ASSUME TypeInv, Environment \/ UNCHANGED vars PROVE TypeInv'
<1>1. CASE GatewayLocks \/ GatewaySaves \/ RawEdit \/ AdminFile \/ AdminReload
           \/ ServiceFails \/ ServiceRecovers \/ UNCHANGED vars
  <2>1. WorldOK'
    <3>1. CASE GatewaySaves \/ RawEdit
      BY <3>1, EditsType DEF TypeInv, WorldOK, GatewaySaves, RawEdit, disk, host, files, counts
    <3>2. CASE ServiceFails \/ ServiceRecovers
      BY <3>2, ServiceTypes
         DEF TypeInv, WorldOK, ServiceFails, ServiceRecovers, disk, files, counts
    <3>3. CASE GatewayLocks \/ AdminReload \/ UNCHANGED vars
      BY <3>3 DEF TypeInv, WorldOK, GatewayLocks, AdminReload, disk, host, files, counts, vars
    <3>4. CASE AdminFile
      BY <3>4 DEF TypeInv, WorldOK, AdminFile, Dropins, host, files, counts
    <3> QED BY <1>1, <3>1, <3>2, <3>3, <3>4
  <2>2. UNCHANGED <<pc, mode, locals, result>>
    BY <1>1 DEF GatewayLocks, GatewaySaves, RawEdit, AdminFile, AdminReload, ServiceFails,
                ServiceRecovers, locals, vars
  <2> QED BY <2>1, <2>2, SameLocals DEF TypeInv
<1>2. CASE Reboot
  <2>1. WorldOK'
    BY <1>2 DEF TypeInv, WorldOK, Reboot, Fault, disk, files
  <2>2. Fits("idle", "none") /\ ~Looks("idle")
    BY DEF Fits, Looks, BackupPCs, InstallPCs, HeldPCs, PatchPCs, RemovePCs, ManifestPCs
  <2>3. LocalsOK'
    BY <1>2, <2>2 DEF TypeInv, LocalsOK, Reboot, Phase, PCs, Results
  <2> QED BY <2>1, <2>3 DEF TypeInv
<1> QED BY <1>1, <1>2 DEF Environment

LEMMA KillType == ASSUME TypeInv, NEW o \in Operators, Kill(o) PROVE TypeInv'
<1>1. WorldOK'
  BY DEF TypeInv, WorldOK, Kill, Fault, disk, host, files
<1> QED BY <1>1, StopLocals DEF TypeInv, Kill, Results

\* A step is one of an operator's, or one of the world around it.
World == Environment \/ (\E t \in Templates : MakePlan(t)) \/ UNCHANGED vars

LEMMA NextIs == ASSUME [Next]_vars PROVE World \/ \E o \in Operators : OperatorSteps(o)
  BY DEF Next, World, OperatorSteps

LEMMA TypeStep == TypeInv /\ [Next]_vars => TypeInv'
<1> SUFFICES ASSUME TypeInv, [Next]_vars PROVE TypeInv'
  OBVIOUS
<1>1. CASE World
  BY <1>1, MakePlanType, EnvironmentType DEF World
<1>2. ASSUME NEW o \in Operators, OperatorSteps(o) PROVE TypeInv'
  BY <1>2, StepsAre, BeginType, KillType, BackupType, InstallType, PatchType, RemoveType,
     SystemdType
<1> QED BY <1>1, <1>2, NextIs

\* Every variable keeps its type, whatever the operators, the Gateway, the
\* administrator and the faults do: TypeOK with, as the strengthening, which
\* mode an operator can be in at each step and that it holds a plan there.
THEOREM TypeCorrect == Spec => []TypeOK
<1>1. TypeInv => TypeOK
  BY DEF TypeInv, WorldOK, LocalsOK, TypeOK
<1> QED BY <1>1, TypeInit, TypeStep, PTL DEF Spec

-----------------------------------------------------------------------------
(* The drop-in never stands without a whole policy, and one operator at most   *)
(* has the policy file in hand.  A new policy is made only where none is, so   *)
(* where there is no drop-in, whole or partial, and nobody claims one; a claim *)
(* ends with the drop-in made or the policy removed.                            *)

ClaimInv ==
  /\ OneClaim
  /\ dropin # None => policy \in Templates /\ \A o \in Operators : ~Claim(o)
  /\ \A o \in Operators : pc[o] = "fill_policy" => policy = o

\* An operator comes neither to a claim nor to the writing of the policy.
NoNewClaim ==
  \A q \in Operators : /\ Claim(q)' => Claim(q)
                       /\ pc'[q] = "fill_policy" => pc[q] = "fill_policy"

LEMMA ClaimKept ==
  ASSUME ClaimInv, NoNewClaim, UNCHANGED <<policy, dropin>> PROVE ClaimInv'
  BY DEF ClaimInv, NoNewClaim, OneClaim

\* What is at a managed path of the operators' making.
LEMMA Values ==
  /\ None \notin Templates /\ None \notin Operators /\ None # Managed
  /\ Operators \cap Templates = {} /\ Managed \notin Operators
  /\ None \notin Plan /\ Operators \cap Plan = {}
  BY ValuesAssumption

OthersStay(o) ==
  \A q \in Operators \ {o} : pc'[q] = pc[q] /\ mode'[q] = mode[q] /\ plan'[q] = plan[q]

LEMMA LocalSteps ==
  ASSUME LocalsOK, NEW o \in Operators
  PROVE  /\ \A next : Goto(o, next) => /\ OthersStay(o) /\ pc'[o] = next
                                       /\ mode'[o] = mode[o] /\ plan'[o] = plan[o]
         /\ \A next : Undo(o, next) => /\ OthersStay(o) /\ pc'[o] = next
                                       /\ mode'[o] = "undo" /\ plan'[o] = plan[o]
         /\ \A outcome : Stop(o, outcome) => OthersStay(o) /\ pc'[o] = "idle"
         /\ \A m, next, p : Begin(o, m, next, p) => /\ OthersStay(o) /\ pc'[o] = next
                                                    /\ mode'[o] = m /\ plan'[o] = p
  BY DEF LocalsOK, OthersStay, Goto, Undo, Stop, Begin, locals

\* A step of one operator leaves the others where they are.
LEMMA OneMoves ==
  ASSUME TypeInv, NEW o \in Operators, OperatorSteps(o) PROVE OthersStay(o)
<1>1. LocalsOK
  BY DEF TypeInv
<1>2. CASE BeginSteps(o)
  BY <1>1, <1>2, LocalSteps DEF BeginSteps, BeginApply, BeginRollback, BeginActivate
<1>3. CASE Kill(o)
  BY <1>1, <1>3, LocalSteps DEF Kill
<1>4. CASE BackupSteps(o) \/ InstallSteps(o)
  BY <1>1, <1>4, LocalSteps, ApplyGoes
<1>5. CASE Patch(o)
  <2>1. CASE PatchFails(o)
    BY <1>1, <1>5, <2>1, Where, PatchFailsIs, LocalSteps
  <2>2. CASE PatchGoes(o)
    BY <1>1, <2>2, LocalSteps DEF PatchGoes, PatchDone, LocalsOK, OthersStay
  <2> QED BY <1>5, <2>1, <2>2, PatchIs
<1>6. CASE RemoveSteps(o)
  BY <1>1, <1>6, LocalSteps, RemoveIs DEF RemoveGoes, RemoveFails, Abandon
<1>7. CASE SystemdSteps(o)
  <2>1. CASE Observes(o)
    BY <1>1, <2>1 DEF Observes, LocalsOK, OthersStay
  <2> QED BY <1>1, <1>7, <2>1, LocalSteps, SystemdIs
<1> QED BY <1>2, <1>3, <1>4, <1>5, <1>6, <1>7, StepsAre

\* An operator's step that brings it elsewhere.
LEMMA NoClaimMoves ==
  ASSUME NEW o \in Operators, OthersStay(o),
         pc'[o] \notin {"fill_policy", "write_dropin", "rm_policy", "unlink_policy"}
  PROVE  NoNewClaim
  BY DEF NoNewClaim, OthersStay, Claim

\* The steps that touch neither file end elsewhere.
LEMMA OtherSteps ==
  ASSUME TypeInv, ClaimInv, NEW o \in Operators,
         \/ BeginSteps(o) \/ Kill(o) \/ BackupSteps(o)
         \/ WriteManifest(o) \/ FillManifest(o) \/ Answer(o)
         \/ Patch(o) \/ RemoveManifest(o) \/ SystemdSteps(o)
  PROVE  ClaimInv'
<1>1. OperatorSteps(o) /\ LocalsOK /\ OthersStay(o)
  BY OneMoves, StepsAre DEF InstallSteps, RemoveSteps, TypeInv
<1>2. \/ pc[o] \notin {"write_policy", "fill_policy", "write_dropin", "fill_dropin"} \cup RemovePCs
      \/ Kill(o)
  BY Where DEF WriteManifest, FillManifest, Answer, RemoveManifest, BackupPCs, HeldPCs,
               PatchPCs, RemovePCs
<1>3. UNCHANGED <<policy, dropin>>
  BY <1>1, <1>2, Frame DEF Kill, disk, WritePolicy, FillPolicy, RemovePolicy, WriteDropin,
                           FillDropin, RemoveDropin, RemovePCs
<1>4. pc'[o] \notin {"fill_policy", "write_dropin", "rm_policy", "unlink_policy"}
  <2>1. CASE BeginSteps(o)
    BY <1>1, <2>1, LocalSteps DEF BeginSteps, BeginApply, BeginRollback, BeginActivate
  <2>2. CASE Kill(o) \/ Answer(o)
    BY <1>1, <2>2, LocalSteps DEF Kill, Answer
  <2>3. CASE BackupSteps(o)
    BY <1>1, <2>3, LocalSteps DEF BackupSteps, WriteBefore, FillBefore, WriteConfigBackup,
              FillConfigBackup, CreateBackup, Create, Fill, Refused
  <2>4. CASE WriteManifest(o) \/ FillManifest(o)
    BY <1>1, <2>4, LocalSteps DEF WriteManifest, FillManifest, Create, Fill
  <2>5. CASE Patch(o)
    <3>1. CASE PatchFails(o)
      BY <1>1, <2>5, <3>1, Where, PatchFailsIs, LocalSteps
    <3>2. CASE PatchGoes(o)
      BY <1>1, <3>2, LocalSteps DEF PatchGoes, PatchDone, LocalsOK
    <3> QED BY <2>5, <3>1, <3>2, PatchIs
  <2>6. CASE RemoveManifest(o)
    BY <1>1, <2>6, LocalSteps DEF RemoveManifest, Compare, Unlink, Abandon
  <2>7. CASE SystemdSteps(o)
    <3>1. CASE Observes(o)
      BY <1>1, <3>1 DEF Observes, LocalsOK
    <3> QED BY <1>1, <2>7, <3>1, LocalSteps, SystemdIs
  <2> QED BY <2>1, <2>2, <2>3, <2>4, <2>5, <2>6, <2>7
<1> QED BY <1>1, <1>3, <1>4, NoClaimMoves, ClaimKept

\* A new policy is made only where none is, so where nobody has a claim.
LEMMA WritePolicyClaim ==
  ASSUME TypeInv, ClaimInv, NEW o \in Operators, WritePolicy(o) PROVE ClaimInv'
<1>1. LocalsOK /\ dropin' = dropin
  BY DEF TypeInv, WritePolicy
<1>2. CASE policy = None /\ policy' = o /\ Goto(o, "fill_policy")
  <2>1. /\ dropin = None
        /\ \A q \in Operators : ~Claim(q) /\ pc[q] # "fill_policy"
    BY <1>2, Values DEF ClaimInv, OneClaim
  <2>2. OthersStay(o) /\ pc'[o] = "fill_policy"
    BY <1>1, <1>2, LocalSteps
  <2>3. \A q \in Operators : ~Claim(q)' /\ (pc'[q] = "fill_policy" => q = o)
    BY <2>1, <2>2 DEF OthersStay, Claim
  <2> QED BY <1>1, <1>2, <2>1, <2>3 DEF ClaimInv, OneClaim
<1>3. CASE Stop(o, "refused") /\ UNCHANGED policy
  <2>1. OthersStay(o) /\ pc'[o] = "idle"
    BY <1>1, <1>3, LocalSteps
  <2> QED BY <1>1, <1>3, <2>1, NoClaimMoves, ClaimKept
<1> QED BY <1>2, <1>3 DEF WritePolicy, Create, Refused

\* Its own partial file becomes the policy, and the operator claims it.
LEMMA FillPolicyClaim ==
  ASSUME LateFaults = FALSE, TypeInv, ClaimInv, NEW o \in Operators, FillPolicy(o)
  PROVE  ClaimInv'
<1>1. LocalsOK /\ dropin' = dropin /\ pc[o] = "fill_policy" /\ Goto(o, "write_dropin")
  BY DEF TypeInv, FillPolicy, Fill
<1>2. plan[o].template \in Templates /\ policy = o
  BY <1>1, Modes, PlanType DEF ClaimInv, InstallPCs
<1>3. policy' \in Templates
  BY <1>2, WrittenIs DEF FillPolicy, Fill
<1>4. policy \notin Templates
  BY <1>2, Values
<1>5. dropin = None /\ \A q \in Operators : ~Claim(q)
  BY <1>4 DEF ClaimInv, OneClaim
<1>6. OthersStay(o) /\ pc'[o] = "write_dropin"
  BY <1>1, LocalSteps
<1>7. \A q \in Operators : (Claim(q)' => q = o) /\ pc'[q] # "fill_policy"
  BY <1>2, <1>5, <1>6 DEF OthersStay, Claim, ClaimInv
<1> QED BY <1>1, <1>3, <1>5, <1>7 DEF ClaimInv, OneClaim

\* The drop-in made: the claim ends.  Not made: it stays with the operator.
LEMMA WriteDropinClaim ==
  ASSUME TypeInv, ClaimInv, NEW o \in Operators, WriteDropin(o) PROVE ClaimInv'
<1>1. LocalsOK /\ policy' = policy /\ Claim(o)
  BY DEF TypeInv, WriteDropin, Claim
<1>2. policy \in Templates /\ dropin = None /\ \A q \in Operators : Claim(q) => q = o
  BY <1>1 DEF ClaimInv, OneClaim
<1>3. \A q \in Operators : pc[q] # "fill_policy"
  BY <1>2, Values DEF ClaimInv
<1>4. CASE dropin' = o /\ Goto(o, "fill_dropin")
  <2>1. \A q \in Operators : ~Claim(q)' /\ pc'[q] # "fill_policy"
    BY <1>1, <1>2, <1>3, <1>4, LocalSteps DEF Claim, OthersStay
  <2> QED BY <1>1, <1>2, <2>1 DEF ClaimInv, OneClaim
<1>5. CASE Undo(o, "rm_policy") /\ UNCHANGED dropin
  <2>1. \A q \in Operators : (Claim(q)' => q = o) /\ pc'[q] # "fill_policy"
    BY <1>1, <1>2, <1>3, <1>5, LocalSteps DEF Claim, OthersStay
  <2> QED BY <1>1, <1>2, <1>5, <2>1 DEF ClaimInv, OneClaim
<1> QED BY <1>4, <1>5 DEF WriteDropin, Create

\* Written into a file that is there, or into one that is not any more.
LEMMA FillDropinClaim ==
  ASSUME LateFaults = FALSE, TypeInv, ClaimInv, NEW o \in Operators, FillDropin(o)
  PROVE  ClaimInv'
<1>1. /\ LocalsOK /\ policy' = policy /\ Goto(o, "patch_lock")
      /\ dropin' = Written(o, dropin, Managed)
  BY DEF TypeInv, FillDropin, Fill
<1>2. dropin = None <=> dropin' = None
  BY <1>1, WrittenIs, Values
<1>3. NoNewClaim
  <2>1. OthersStay(o) /\ pc'[o] = "patch_lock"
    BY <1>1, LocalSteps
  <2> QED BY <2>1, NoClaimMoves
<1> QED BY <1>1, <1>2, <1>3 DEF ClaimInv, OneClaim, NoNewClaim

\* The drop-in removed, whoever made it: it was the one claim, and passes to
\* the operator.
LEMMA RemoveDropinClaim ==
  ASSUME LateFaults = FALSE, TypeInv, ClaimInv, NEW o \in Operators, RemoveDropin(o)
  PROVE  ClaimInv'
<1>1. LocalsOK /\ policy' = policy
  BY DEF TypeInv, RemoveDropin, Compare, disk
<1>2. CASE dropin # None /\ dropin' = None /\ Goto(o, "rm_policy")
  <2>1. policy \in Templates /\ \A q \in Operators : ~Claim(q)
    BY <1>2 DEF ClaimInv
  <2>2. OthersStay(o) /\ pc'[o] = "rm_policy"
    BY <1>1, <1>2, LocalSteps
  <2>3. \A q \in Operators : (Claim(q)' => q = o) /\ pc'[q] # "fill_policy"
    BY <2>1, <2>2, Values DEF OthersStay, Claim, ClaimInv
  <2> QED BY <1>1, <1>2, <2>1, <2>3 DEF ClaimInv, OneClaim
<1>3. ASSUME dropin' = dropin, pc'[o] \in {"unlink_dropin", "idle"}, OthersStay(o)
      PROVE  ClaimInv'
  BY <1>1, <1>3, NoClaimMoves, ClaimKept
<1>4. RemoveGoes(o) \/ RemoveFails(o)
  BY RemoveIs DEF RemoveSteps
<1>5. CASE RemoveFails(o)
  BY <1>1, <1>3, <1>5, LocalSteps DEF RemoveFails, Abandon
<1>6. CASE Goto(o, "unlink_dropin") /\ dropin' = dropin
  BY <1>1, <1>3, <1>6, LocalSteps
<1> QED BY <1>2, <1>4, <1>5, <1>6 DEF RemoveGoes, RemoveDropin, RemovePolicy, RemoveManifest

\* The policy compared: the claim stays.  Removed, or left with the operator
\* gone: it ends.
LEMMA RemovePolicyClaim ==
  ASSUME LateFaults = FALSE, TypeInv, ClaimInv, NEW o \in Operators, RemovePolicy(o)
  PROVE  ClaimInv'
<1>1. LocalsOK /\ dropin' = dropin /\ Claim(o) /\ OthersStay(o)
  BY OneMoves DEF TypeInv, RemovePolicy, Compare, Claim, disk, OperatorSteps, Continue
<1>2. policy \in Templates /\ dropin = None /\ \A q \in Operators : Claim(q) => q = o
  BY <1>1 DEF ClaimInv, OneClaim
<1>3. \A q \in Operators : pc[q] # "fill_policy"
  BY <1>2, Values DEF ClaimInv
<1>4. \/ pc'[o] = "unlink_policy" /\ policy' = policy
      \/ pc'[o] \in {"idle", "rm_manifest"}
  BY <1>1, LocalSteps, RemoveIs
     DEF RemoveSteps, RemoveGoes, RemoveFails, Abandon, RemovePolicy, RemoveDropin, RemoveManifest
<1>5. \A q \in Operators : (Claim(q)' => q = o) /\ pc'[q] # "fill_policy"
  BY <1>1, <1>2, <1>3, <1>4 DEF Claim, OthersStay
<1>6. Claim(o)' => policy' = policy
  BY <1>4 DEF Claim
<1> QED BY <1>1, <1>2, <1>5, <1>6 DEF ClaimInv, OneClaim

LEMMA WorldClaim ==
  ASSUME Admin = FALSE, TypeInv, ClaimInv, World PROVE ClaimInv'
<1>1. UNCHANGED <<policy, dropin>>
  BY DEF World, Environment, GatewayLocks, GatewaySaves, RawEdit, AdminFile, AdminReload,
         ServiceFails, ServiceRecovers, Reboot, MakePlan, vars, disk
<1>2. CASE Reboot
  <2>1. NoNewClaim
    BY <1>2 DEF Reboot, NoNewClaim, Claim
  <2> QED BY <1>1, <2>1, ClaimKept
<1>3. CASE pc' = pc
  BY <1>1, <1>3, ClaimKept DEF NoNewClaim, Claim
<1> QED BY <1>2, <1>3 DEF World, Environment, GatewayLocks, GatewaySaves, RawEdit, AdminFile,
           AdminReload, ServiceFails, ServiceRecovers, MakePlan, vars

LEMMA ClaimStep ==
  ASSUME LateFaults = FALSE, Admin = FALSE
  PROVE  TypeInv /\ ClaimInv /\ [Next]_vars => ClaimInv'
<1> SUFFICES ASSUME TypeInv, ClaimInv, [Next]_vars PROVE ClaimInv'
  OBVIOUS
<1>1. ASSUME NEW o \in Operators, OperatorSteps(o) PROVE ClaimInv'
  BY <1>1, StepsAre, OtherSteps, WritePolicyClaim, FillPolicyClaim, WriteDropinClaim,
     FillDropinClaim, RemoveDropinClaim, RemovePolicyClaim DEF InstallSteps, RemoveSteps
<1> QED BY <1>1, WorldClaim, NextIs

LEMMA ClaimInit == Init => ClaimInv
  BY DEF Init, ClaimInv, OneClaim, Claim

LEMMA ClaimMeans == TypeInv /\ ClaimInv => DropinHasPolicy
<1> SUFFICES ASSUME TypeInv, ClaimInv, dropin = Managed PROVE policy \notin {None} \cup Operators
  BY DEF DropinHasPolicy
<1> QED BY Values DEF ClaimInv

\* However many operators apply, undo, roll back and are killed, in the middle
\* of a write too, and however calls fail before they change anything: the
\* drop-in stands only with a whole policy, and no two operators have the policy
\* file in hand.  (Where the administrator puts no file of another origin at
\* the managed paths, and no write or directory fsync fails with its file
\* made: see the README for what two rollbacks then can do.)
THEOREM PolicyBeforeDropin ==
  ASSUME LateFaults = FALSE, Admin = FALSE
  PROVE  Spec => [](DropinHasPolicy /\ OneClaim)
<1>1. TypeInv /\ ClaimInv => DropinHasPolicy /\ OneClaim
  BY ClaimMeans DEF ClaimInv
<1> QED BY <1>1, ClaimInit, ClaimStep, TypeInit, TypeStep, PTL DEF Spec

-----------------------------------------------------------------------------
(* Both backups are there before anything is installed: apply makes them       *)
(* first, and carries the fact through every later step up to its answer.      *)

Backs(o) ==
  /\ pc[o] \in {"backup_config", "fill_config"} => plan[o] \in before
  /\ pc[o] \in InstallPCs \/ (pc[o] \in PatchPCs /\ mode[o] = "apply")
       => plan[o] \in before \cap saved

BackedInv == InstallBacked /\ \A o \in Operators : Backs(o)

\* Backups are only added.
Retained == before \subseteq before' /\ saved \subseteq saved'

LEMMA BackedStep ==
  ASSUME BackedInv, Retained, NEW o \in Operators, OthersStay(o), Backs(o)',
         manifest' = manifest \/ manifest' \notin Plan \/ manifest' \in before \cap saved,
         receipt' = receipt \/ receipt' \in before \cap saved
  PROVE  BackedInv'
<1>1. InstallBacked'
  BY DEF BackedInv, InstallBacked, Retained
<1>2. ASSUME NEW q \in Operators \ {o} PROVE Backs(q)'
  BY <1>2 DEF BackedInv, Backs, OthersStay, Retained
<1> QED BY <1>1, <1>2 DEF BackedInv

LEMMA BackupsRetained ==
  ASSUME NEW o, OperatorSteps(o) PROVE Retained
<1>1. CASE BackupSteps(o)
  BY <1>1 DEF BackupSteps, WriteBefore, FillBefore, WriteConfigBackup, FillConfigBackup,
              CreateBackup, Create, Fill, Retained, disk
<1> QED BY <1>1, Frame DEF Retained

LEMMA BackupBacked ==
  ASSUME TypeInv, BackedInv, NEW o \in Operators, BackupSteps(o) PROVE BackedInv'
<1>1. /\ LocalsOK /\ Backs(o) /\ Retained /\ OthersStay(o)
      /\ UNCHANGED <<manifest, receipt>>
  BY StepsAre, OneMoves, BackupsRetained, Where, Frame
     DEF TypeInv, BackedInv, WriteManifest, FillManifest, RemoveManifest, Answer, BackupPCs
<1>2. CASE pc'[o] \in {"idle", "fill_before"}
  BY <1>1, <1>2, BackedStep DEF Backs, InstallPCs, HeldPCs, PatchPCs
<1>3. CASE FillBefore(o) /\ before' = before \cup {plan[o]} /\ Goto(o, "backup_config")
  <2>1. Backs(o)'
    BY <1>1, <1>3, LocalSteps DEF Backs, InstallPCs, HeldPCs, PatchPCs
  <2> QED BY <1>1, <2>1, BackedStep
<1>4. CASE WriteConfigBackup(o) /\ Goto(o, "fill_config")
  <2>1. Backs(o)'
    BY <1>1, <1>4, LocalSteps
       DEF WriteConfigBackup, CreateBackup, Backs, InstallPCs, HeldPCs, PatchPCs, disk
  <2> QED BY <1>1, <2>1, BackedStep
<1>5. CASE FillConfigBackup(o) /\ saved' = saved \cup {plan[o]} /\ Goto(o, "write_policy")
  <2>1. Backs(o)'
    BY <1>1, <1>5, LocalSteps DEF FillConfigBackup, Backs, InstallPCs, HeldPCs, PatchPCs
  <2> QED BY <1>1, <2>1, BackedStep
<1>6. CASE WriteBefore(o)
  BY <1>1, <1>2, <1>6, LocalSteps DEF WriteBefore, CreateBackup, Create, Refused
<1>7. CASE FillBefore(o)
  BY <1>1, <1>2, <1>3, <1>7, LocalSteps DEF FillBefore, Fill, Refused
<1>8. CASE WriteConfigBackup(o)
  BY <1>1, <1>2, <1>4, <1>8, LocalSteps DEF WriteConfigBackup, CreateBackup, Create, Refused
<1>9. CASE FillConfigBackup(o)
  BY <1>1, <1>2, <1>5, <1>9, LocalSteps DEF FillConfigBackup, Fill, Refused
<1> QED BY <1>6, <1>7, <1>8, <1>9 DEF BackupSteps

LEMMA InstallStepBacked ==
  ASSUME TypeInv, BackedInv, NEW o \in Operators, InstallSteps(o) PROVE BackedInv'
<1>1. /\ LocalsOK /\ Retained /\ OthersStay(o) /\ UNCHANGED <<before, saved>>
      /\ plan[o] \in before \cap saved
  BY StepsAre, OneMoves, BackupsRetained, Where, Frame
     DEF TypeInv, BackedInv, Backs, BackupPCs, InstallPCs
<1>2. manifest' = manifest \/ manifest' \notin Plan \/ manifest' = plan[o]
  BY WrittenIs, Values, Where, Frame, StepsAre
     DEF WriteManifest, FillManifest, RemoveManifest, Create, Fill, InstallPCs, InstallSteps,
         Answer, disk
<1>3. receipt' = receipt \/ receipt' = plan[o]
  BY Frame, StepsAre DEF Answer
<1>4. Backs(o)'
  <2>1. CASE pc'[o] = "idle"
    BY <2>1 DEF Backs, InstallPCs, HeldPCs, PatchPCs
  <2>2. CASE plan'[o] = plan[o]
    BY <1>1, <2>2 DEF Backs
  <2>3. ASSUME NEW next, Goto(o, next) \/ Undo(o, next) PROVE plan'[o] = plan[o]
    BY <1>1, <2>3, LocalSteps
  <2>4. ASSUME NEW outcome, Stop(o, outcome) PROVE pc'[o] = "idle"
    BY <1>1, <2>4, LocalSteps
  <2> QED BY <2>1, <2>2, <2>3, <2>4, ApplyGoes
<1> QED BY <1>1, <1>2, <1>3, <1>4, BackedStep

LEMMA PatchBacked ==
  ASSUME TypeInv, BackedInv, NEW o \in Operators, Patch(o) PROVE BackedInv'
<1>1. /\ LocalsOK /\ Retained /\ OthersStay(o) /\ Backs(o) /\ pc[o] \in PatchPCs
      /\ UNCHANGED <<before, saved, manifest, receipt>>
  BY StepsAre, OneMoves, BackupsRetained, Where, Frame
     DEF TypeInv, BackedInv, Answer, WriteManifest, FillManifest, RemoveManifest, HeldPCs,
         PatchPCs, BackupPCs
<1>2. CASE pc'[o] \in {"rm_dropin", "idle"}
  BY <1>1, <1>2, BackedStep DEF Backs, InstallPCs, HeldPCs, PatchPCs
<1>3. CASE /\ pc'[o] \in PatchPCs \/ (mode[o] = "apply" /\ pc'[o] = "write_manifest")
           /\ mode'[o] = mode[o] /\ plan'[o] = plan[o]
  <2>1. Backs(o)'
    BY <1>1, <1>3 DEF Backs, InstallPCs, HeldPCs, PatchPCs
  <2> QED BY <1>1, <2>1, BackedStep
<1>4. CASE PatchFails(o)
  BY <1>1, <1>2, <1>4, PatchFailsIs, LocalSteps
<1>5. CASE PatchGoes(o)
  BY <1>1, <1>2, <1>3, <1>5, LocalSteps DEF PatchGoes, PatchDone, HeldPCs, PatchPCs, LocalsOK
<1> QED BY <1>4, <1>5, PatchIs

\* The steps that leave apply, or are none of its steps.
LEMMA OtherBacked ==
  ASSUME TypeInv, BackedInv, NEW o \in Operators,
         BeginSteps(o) \/ Kill(o) \/ RemoveSteps(o) \/ SystemdSteps(o)
  PROVE  BackedInv'
<1>1. /\ LocalsOK /\ OperatorSteps(o) /\ Retained /\ OthersStay(o)
  BY StepsAre, OneMoves, BackupsRetained DEF TypeInv
<1>2. receipt' = receipt /\ (manifest' = manifest \/ manifest' = None)
  <2>1. CASE BeginSteps(o) \/ Kill(o)
    BY <2>1 DEF BeginSteps, BeginApply, BeginRollback, BeginActivate, Kill, disk, files
  <2>2. CASE RemoveSteps(o)
    BY <2>2 DEF RemoveSteps, RemoveDropin, RemovePolicy, RemoveManifest, Compare, Unlink,
                disk, files
  <2>3. CASE SystemdSteps(o)
    BY <2>3 DEF SystemdSteps, DaemonReload, RestartService, Observe, Check, disk, files
  <2> QED BY <2>1, <2>2, <2>3
<1>3. Backs(o)'
  <2>1. CASE BeginSteps(o)
    BY <1>1, <2>1, LocalSteps
       DEF BeginSteps, BeginApply, BeginRollback, BeginActivate, Backs, InstallPCs, HeldPCs,
           PatchPCs
  <2>2. CASE pc'[o] \in RemovePCs \cup ManifestPCs \cup {"idle", "reload", "restart",
                                                         "observe", "check"}
    BY <2>2 DEF Backs, InstallPCs, HeldPCs, PatchPCs, RemovePCs, ManifestPCs
  <2>3. CASE Kill(o)
    BY <1>1, <2>2, <2>3, LocalSteps DEF Kill
  <2>4. CASE RemoveSteps(o)
    BY <1>1, <2>2, <2>4, LocalSteps, RemoveIs
       DEF RemoveGoes, RemoveFails, Abandon, RemovePCs, ManifestPCs
  <2>5. CASE SystemdSteps(o)
    <3>1. CASE Observes(o)
      BY <1>1, <2>2, <3>1 DEF Observes, LocalsOK
    <3> QED BY <1>1, <2>2, <2>5, <3>1, LocalSteps, SystemdIs
  <2> QED BY <2>1, <2>3, <2>4, <2>5
<1> QED BY <1>1, <1>2, <1>3, BackedStep, Values

LEMMA WorldBacked == ASSUME TypeInv, BackedInv, World PROVE BackedInv'
<1>1. UNCHANGED <<manifest, receipt, before, saved>>
  BY DEF World, Environment, GatewayLocks, GatewaySaves, RawEdit, AdminFile, AdminReload,
         ServiceFails, ServiceRecovers, Reboot, MakePlan, vars, disk, files
<1>2. CASE Reboot
  BY <1>1, <1>2 DEF Reboot, BackedInv, InstallBacked, Backs, InstallPCs, HeldPCs, PatchPCs
<1>3. CASE UNCHANGED <<pc, mode, plan>>
  BY <1>1, <1>3 DEF BackedInv, InstallBacked, Backs
<1> QED BY <1>2, <1>3 DEF World, Environment, GatewayLocks, GatewaySaves, RawEdit, AdminFile,
           AdminReload, ServiceFails, ServiceRecovers, MakePlan, vars, locals

LEMMA BackedInvStep ==
  TypeInv /\ BackedInv /\ [Next]_vars => BackedInv'
<1> SUFFICES ASSUME TypeInv, BackedInv, [Next]_vars PROVE BackedInv'
  OBVIOUS
<1>1. ASSUME NEW o \in Operators, OperatorSteps(o) PROVE BackedInv'
  BY <1>1, StepsAre, BackupBacked, InstallStepBacked, PatchBacked, OtherBacked
<1> QED BY <1>1, WorldBacked, NextIs

LEMMA BackedInit == Init => BackedInv
  BY Values DEF Init, BackedInv, InstallBacked, Backs, InstallPCs, HeldPCs, PatchPCs

\* A manifest on the host, or a receipt in the operators' hands, always has
\* both retained backups of its plan, whole, beside it.
THEOREM RollbackHasBackups == Spec => []InstallBacked
<1>1. BackedInv => InstallBacked
  BY DEF BackedInv
<1> QED BY <1>1, BackedInit, BackedInvStep, TypeInit, TypeStep, PTL DEF Spec

-----------------------------------------------------------------------------
(* The lock: who reads config.json, or is to write it, holds it.  So what was  *)
(* read is what is there, unless an editor wrote that takes no lock.           *)

Quiet == RawEditor = FALSE \/ edits = 0

LockInv ==
  /\ \A o \in Operators : pc[o] \in HeldPCs => lock = o
  /\ Quiet => \A o \in Operators : Looks(pc[o]) => view[o] = config

\* The views of the others stay.
LEMMA LocalViews ==
  ASSUME LocalsOK, NEW o \in Operators
  PROVE  /\ \A next : Goto(o, next) \/ Undo(o, next) => view' = view /\ governed' = governed
         /\ \A m, next, p : Begin(o, m, next, p) => view' = view /\ governed' = governed
         /\ \A outcome : Stop(o, outcome) =>
              /\ result'[o] = outcome /\ mode'[o] = "none" /\ governed'[o] = FALSE
              /\ \A q \in Operators \ {o} : view'[q] = view[q] /\ governed'[q] = governed[q]
  BY DEF LocalsOK, Goto, Undo, Stop, Begin, locals

\* Where a step leads: the local effect of each action of an operator.
Moved(o) ==
  \/ BeginSteps(o) /\ \E m \in {"apply", "rollback", "activate"},
        next \in {"backup", "patch_lock", "reload"}, p \in {reviewed, manifest} :
          Begin(o, m, next, p)
  \/ \E next \in PCs : ~Looks(next) /\ Goto(o, next)
  \/ PatchLook(o) /\ SameFile(o) /\ Goto(o, "patch_swap")
  \/ \E next \in {"rm_policy", "rm_dropin", "patch_lock"} : mode[o] = "apply" /\ Undo(o, next)
  \/ \E outcome \in Results : Stop(o, outcome)
  \/ /\ PatchRead(o) /\ PatchReads(o)
     /\ view' = [view EXCEPT ![o] = config] /\ pc' = [pc EXCEPT ![o] = "patch_look"]
     /\ UNCHANGED <<mode, plan, governed, result>>
  \/ Observes(o)

LEMMA StepMoves ==
  ASSUME TypeInv, NEW o \in Operators, OperatorSteps(o) PROVE Moved(o)
<1>1. LocalsOK
  BY DEF TypeInv
<1>2. CASE BeginSteps(o)
  BY <1>2 DEF BeginSteps, BeginApply, BeginRollback, BeginActivate, Moved
<1>3. CASE Kill(o)
  BY <1>3 DEF Kill, Moved, Results
<1>4. CASE BackupSteps(o) \/ InstallSteps(o)
  <2>1. mode[o] = "apply"
    BY <1>1, <1>4, Where, Modes
  <2>2. ASSUME NEW next \in BackupPCs \cup InstallPCs \cup {"patch_lock"}
        PROVE  next \in PCs /\ ~Looks(next)
    BY DEF BackupPCs, InstallPCs, PCs, Looks
  <2> QED BY <1>4, <2>1, <2>2, ApplyGoes DEF Moved, Results
<1>5. CASE Patch(o)
  <2>1. CASE PatchFails(o)
    BY <1>1, <1>5, <2>1, Where, PatchFailsIs DEF Moved, Results
  <2>2. CASE PatchGoes(o)
    BY <2>2 DEF PatchGoes, PatchDone, Moved, PCs, Looks
  <2> QED BY <1>5, <2>1, <2>2, PatchIs
<1>6. CASE RemoveSteps(o)
  BY <1>6, RemoveIs DEF RemoveGoes, RemoveFails, Abandon, Moved, PCs, Looks, Results
<1>7. CASE SystemdSteps(o)
  BY <1>7, SystemdIs DEF Moved, PCs, Looks, Results
<1> QED BY <1>2, <1>3, <1>4, <1>5, <1>6, <1>7, StepsAre

LEMMA OneViews ==
  ASSUME TypeInv, NEW o \in Operators, OperatorSteps(o)
  PROVE  \A q \in Operators \ {o} : view'[q] = view[q] /\ governed'[q] = governed[q]
<1>1. LocalsOK /\ Moved(o)
  BY StepMoves DEF TypeInv
<1>2. CASE /\ view' = [view EXCEPT ![o] = config]
           /\ UNCHANGED <<mode, plan, governed, result>>
  BY <1>1, <1>2 DEF LocalsOK
<1>3. CASE Observes(o)
  BY <1>1, <1>3 DEF LocalsOK, Observes
<1> QED BY <1>1, <1>2, <1>3, LocalViews DEF Moved

LEMMA LockStep == TypeInv /\ LockInv /\ [Next]_vars => LockInv'
<1> SUFFICES ASSUME TypeInv, LockInv, [Next]_vars PROVE LockInv'
  OBVIOUS
<1>1. \A q \in Operators : q # Free /\ q # Gateway
  BY ValuesAssumption
<1>2. LocalsOK /\ \A q \in Operators : Looks(pc[q]) => pc[q] \in HeldPCs
  BY DEF TypeInv, Looks, HeldPCs
<1>3. ASSUME NEW o \in Operators, OperatorSteps(o) PROVE LockInv'
  <2>1. OthersStay(o) /\ \A q \in Operators \ {o} : view'[q] = view[q]
    BY <1>3, OneMoves, OneViews
  <2>2. ASSUME NEW q \in Operators \ {o}, pc[q] \in HeldPCs
        PROVE  lock' = q /\ config' = config
    <3>1. lock = q /\ pc[o] \notin HeldPCs
      BY <2>2 DEF LockInv
    <3>2. ~PatchRead(o) /\ ~PatchLook(o) /\ ~PatchSwap(o)
      BY <3>1 DEF PatchRead, PatchLook, PatchSwap, HeldPCs
    <3>3. PatchLock(o) => lock' = lock
      BY <1>1, <3>1 DEF PatchLock
    <3>4. RestartService(o) \/ Kill(o) => lock' = lock
      BY <1>1, <3>1 DEF RestartService, Kill, GatewayDies
    <3> QED BY <1>3, <3>1, <3>2, <3>3, <3>4, Frame DEF Patch
  <2>3. pc'[o] \in HeldPCs => lock' = o /\ (Looks(pc'[o]) /\ Quiet => view'[o] = config')
    <3>1. CASE PatchGoes(o)
      <4>1. CASE PatchLock(o) /\ lock' = o /\ Goto(o, "patch_read")
        BY <1>2, <4>1, LocalSteps DEF Looks
      <4>2. CASE /\ PatchRead(o) /\ lock' = lock
                 /\ view' = [view EXCEPT ![o] = config]
        BY <1>2, <4>2 DEF PatchRead, LocalsOK, LockInv, HeldPCs
      <4>3. CASE PatchLook(o) /\ SameFile(o) /\ lock' = lock /\ Goto(o, "patch_swap")
        BY <1>2, <4>3, LocalViews DEF PatchLook, SameFile, LockInv, HeldPCs
      <4>4. CASE PatchDone(o)
        BY <1>2, <4>4, LocalSteps DEF PatchDone, HeldPCs
      <4> QED BY <3>1, <4>1, <4>2, <4>3, <4>4 DEF PatchGoes
    <3>2. CASE ~PatchGoes(o)
      <4>1. CASE Patch(o)
        BY <1>2, <3>2, <4>1, PatchIs, PatchFailsIs, Where, LocalSteps DEF HeldPCs
      <4>2. CASE BackupSteps(o) \/ InstallSteps(o)
        <5>1. \A next \in BackupPCs \cup InstallPCs \cup {"patch_lock"} : next \notin HeldPCs
          BY DEF BackupPCs, InstallPCs, HeldPCs
        <5> QED BY <1>2, <4>2, <5>1, ApplyGoes, LocalSteps DEF HeldPCs
      <4>3. CASE BeginSteps(o) \/ Kill(o)
        BY <1>2, <4>3, LocalSteps
           DEF BeginSteps, BeginApply, BeginRollback, BeginActivate, Kill, HeldPCs
      <4>4. CASE RemoveSteps(o)
        BY <1>2, <4>4, RemoveIs, LocalSteps DEF RemoveGoes, RemoveFails, Abandon, HeldPCs
      <4>5. CASE SystemdSteps(o)
        <5>1. CASE Observes(o)
          BY <1>2, <5>1 DEF Observes, LocalsOK, HeldPCs
        <5> QED BY <1>2, <4>5, <5>1, SystemdIs, LocalSteps DEF HeldPCs
      <4> QED BY <1>3, <4>1, <4>2, <4>3, <4>4, <4>5, StepsAre
    <3> QED BY <3>1, <3>2
  <2>4. edits' = edits
    BY <1>3, Frame
  <2>5. ASSUME NEW q \in Operators, pc'[q] \in HeldPCs PROVE lock' = q
    BY <2>1, <2>2, <2>3, <2>5 DEF OthersStay
  <2>6. ASSUME NEW q \in Operators, Looks(pc'[q]), Quiet' PROVE view'[q] = config'
    <3>1. Quiet /\ pc'[q] \in HeldPCs
      BY <2>4, <2>6 DEF Quiet, Looks, HeldPCs
    <3>2. CASE q = o
      BY <2>3, <2>6, <3>1, <3>2
    <3>3. CASE q # o
      <4>1. pc[q] = pc'[q] /\ view'[q] = view[q]
        BY <2>1, <3>3 DEF OthersStay
      <4> QED BY <2>2, <2>6, <3>1, <3>3, <4>1 DEF LockInv
    <3> QED BY <3>2, <3>3
  <2> QED BY <2>5, <2>6 DEF LockInv
<1>4. CASE Reboot
  BY <1>4 DEF Reboot, LockInv, Looks, HeldPCs
<1>5. CASE GatewayLocks \/ GatewaySaves
  <2>1. \A q \in Operators : pc[q] \notin HeldPCs
    BY <1>1, <1>5 DEF LockInv, GatewayLocks, GatewaySaves
  <2>2. pc' = pc
    BY <1>5 DEF GatewayLocks, GatewaySaves
  <2> QED BY <1>2, <2>1, <2>2 DEF LockInv
<1>6. CASE RawEdit
  <2>1. ~Quiet' /\ UNCHANGED <<pc, lock>>
    BY <1>6 DEF RawEdit, Quiet, TypeInv, WorldOK
  <2> QED BY <2>1 DEF LockInv
<1>7. CASE UNCHANGED <<pc, view, config, edits>> /\ \A q \in Operators : lock = q => lock' = q
  BY <1>7 DEF LockInv, Quiet
<1>8. CASE AdminFile \/ AdminReload \/ ServiceFails \/ ServiceRecovers
           \/ (\E t \in Templates : MakePlan(t)) \/ UNCHANGED vars
  BY <1>1, <1>7, <1>8 DEF AdminFile, AdminReload, ServiceFails, ServiceRecovers, GatewayDies,
                          MakePlan, vars, locals, counts
<1> QED BY <1>3, <1>4, <1>5, <1>6, <1>8, NextIs DEF World, Environment

LEMMA LockInit == Init => LockInv
  BY DEF Init, LockInv, Looks, HeldPCs

-----------------------------------------------------------------------------
(* config.json: what the operators' one write to it keeps, and what it gives   *)
(* back.                                                                        *)

LEMMA PatchedPeers == ASSUME NEW c \in Config PROVE Peers(Patched(c)) = Peers(c)
  BY DEF Config, Patched, Peers

LEMMA RestoredPeers ==
  ASSUME NEW c \in Config, NEW old \in Config PROVE Peers(Restored(c, old)) = Peers(c)
  BY DEF Config, Restored, Peers

\* The one step of an operator that changes config.json writes what it read.
LEMMA OneConfigWriter ==
  ASSUME TypeInv, NEW o \in Operators, config' # config, OperatorSteps(o)
  PROVE  /\ pc[o] = "patch_swap" /\ view[o] \in Config /\ config' = NewConfig(o)
         /\ plan[o] \in Plan /\ plan[o].config \in Config /\ OthersStay(o)
<1>1. PatchSwap(o) /\ OthersStay(o)
  BY Frame, OneMoves
<1>2. pc[o] = "patch_swap" /\ config' = NewConfig(o)
  BY <1>1 DEF PatchSwap
<1>3. Phase(o)
  BY AtOperator DEF TypeInv
<1> QED BY <1>1, <1>2, <1>3, PlanType DEF Phase, Looks

\* Where every writer of config.json takes its lock, an operator never undoes
\* an edit of another to a peer of the flag: the bytes it replaces are the ones
\* it computed the new ones from.
THEOREM PeersKept ==
  ASSUME RawEditor = FALSE
  PROVE  Spec => OperatorsKeepPeers
<1> DEFINE Steps == \E o \in Operators : pc'[o] # pc[o]
<1>1. TypeInv /\ LockInv /\ [Next]_vars => (Steps => Peers(config') = Peers(config))
  <2> SUFFICES ASSUME TypeInv, LockInv, [Next]_vars, Steps, config' # config
               PROVE  Peers(config') = Peers(config)
    OBVIOUS
  <2>1. ~World
    BY DEF World, Environment, GatewayLocks, GatewaySaves, RawEdit, AdminFile, AdminReload,
           ServiceFails, ServiceRecovers, Reboot, MakePlan, vars
  <2>2. PICK o \in Operators : OperatorSteps(o)
    BY <2>1, NextIs
  <2>3. /\ pc[o] = "patch_swap" /\ config' = NewConfig(o)
        /\ view[o] \in Config /\ plan[o].config \in Config
    BY <2>2, OneConfigWriter
  <2>4. view[o] = config
    BY <2>3 DEF LockInv, Quiet, Looks
  <2> QED BY <2>3, <2>4, PatchedPeers, RestoredPeers DEF NewConfig
<1> QED BY <1>1, LockInit, LockStep, TypeInit, TypeStep, PTL DEF Spec, OperatorsKeepPeers

\* No object of config.json is missing around what is in it, in the document
\* and in every plan that recorded one.
Formed(p) == p \in Plan => WellFormed(p.config)

FormInv ==
  /\ config \in Config /\ WellFormed(config)
  /\ Formed(reviewed) /\ Formed(receipt) /\ Formed(manifest)
  /\ \A o \in Operators : Formed(plan[o])

LEMMA PatchedFormed == ASSUME NEW c \in Config PROVE WellFormed(Patched(c))
  BY DEF Config, Patched, WellFormed

LEMMA RestoredFormed ==
  ASSUME NEW c \in Config, NEW old \in Config, WellFormed(old)
  PROVE  WellFormed(Restored(c, old))
  BY DEF Config, Restored, WellFormed

LEMMA EditsFormed ==
  ASSUME NEW c \in Config, WellFormed(c), NEW d \in EditsOf(c) PROVE WellFormed(d)
<1>1. CASE d = [c EXCEPT !.dashboard = TRUE, !.theme = ~c.theme, !.canonical = FALSE]
  BY <1>1 DEF Config, WellFormed
<1>2. CASE d = [c EXCEPT !.dashboard = TRUE, !.terminal = TRUE, !.font = ~c.font,
                         !.canonical = FALSE]
  BY <1>2 DEF Config, WellFormed
<1>3. CASE d = [c EXCEPT !.interactive = ~c.interactive, !.canonical = FALSE]
  BY <1>3 DEF Config, WellFormed
<1>4. CASE \E e \in {"on", "off"} :
             d = [c EXCEPT !.dashboard = TRUE, !.terminal = TRUE, !.enabled = e,
                           !.canonical = FALSE]
  BY <1>4 DEF Config, WellFormed
<1> QED BY <1>1, <1>2, <1>3, <1>4, EditsAre

\* Documents are equal when their fields are.
LEMMA SameDocument ==
  ASSUME NEW r \in Config, NEW s \in Config,
         r.dashboard = s.dashboard, r.terminal = s.terminal, r.enabled = s.enabled,
         r.theme = s.theme, r.font = s.font, r.interactive = s.interactive,
         r.canonical = s.canonical
  PROVE  r = s
BY DEF Config

\* Restoring into a document with the planned peers gives the planned one.
LEMMA RestoredInverse ==
  ASSUME NEW c \in Config, NEW old \in Config, WellFormed(old), Peers(c) = Peers(old)
  PROVE  Restored(c, old) = [old EXCEPT !.canonical = TRUE]
<1> DEFINE r == Restored(c, old)
           s == [old EXCEPT !.canonical = TRUE]
<1>1. c.theme = old.theme /\ c.font = old.font /\ c.interactive = old.interactive
  BY DEF Peers
<1>2. r \in Config /\ s \in Config
  BY RestoredType DEF Config
<1>3. (c.font \/ old.enabled # "unset" \/ old.terminal) = old.terminal
  BY <1>1 DEF WellFormed, Config
<1>4. (c.theme \/ old.terminal \/ old.dashboard) = old.dashboard
  BY <1>1 DEF WellFormed, Config
<1>5. /\ r.enabled = s.enabled /\ r.theme = s.theme /\ r.font = s.font
      /\ r.interactive = s.interactive /\ r.canonical = s.canonical
  BY <1>1 DEF Restored, Config
<1>6. r.terminal = s.terminal /\ r.dashboard = s.dashboard
  BY <1>3, <1>4 DEF Restored, Config
<1> HIDE DEF r, s
<1>7. r = s
  BY <1>2, <1>5, <1>6, SameDocument
<1> QED BY <1>7 DEF r, s

\* An operator's plan comes from the receipt or the manifest, and goes to them.
LEMMA PlanMoves ==
  ASSUME TypeInv, NEW o \in Operators, OperatorSteps(o)
  PROVE  /\ \A q \in Operators : plan'[q] \in {plan[q], None, reviewed, manifest}
         /\ reviewed' = reviewed
         /\ receipt' = receipt \/ receipt' = plan[o]
         /\ manifest' \in {manifest, None, plan[o], o}
<1>1. LocalsOK /\ Moved(o) /\ OthersStay(o)
  BY StepMoves, OneMoves DEF TypeInv
<1>2. plan'[o] \in {plan[o], None, reviewed, manifest}
  <2>1. ASSUME NEW outcome, Stop(o, outcome) PROVE plan'[o] = None
    BY <1>1, <2>1 DEF Stop, LocalsOK
  <2> QED BY <1>1, <2>1, LocalSteps DEF Moved, Observes
<1>3. receipt' = receipt \/ receipt' = plan[o]
  BY Frame DEF Answer
<1>4. manifest' \in {manifest, None, plan[o], o}
  <2>1. CASE WriteManifest(o)
    BY <2>1 DEF WriteManifest, Create
  <2>2. CASE FillManifest(o)
    BY <2>2, WrittenIs DEF FillManifest, Fill
  <2>3. CASE RemoveManifest(o)
    BY <2>3 DEF RemoveManifest, Compare, Unlink, disk
  <2> QED BY <2>1, <2>2, <2>3, Frame
<1> QED BY <1>1, <1>2, <1>3, <1>4, Frame DEF OthersStay

LEMMA FormedNone == Formed(None) /\ \A o \in Operators : Formed(o)
  BY Values DEF Formed

LEMMA FormStep == TypeInv /\ FormInv /\ [Next]_vars => FormInv'
<1> SUFFICES ASSUME TypeInv, FormInv, [Next]_vars PROVE FormInv'
  OBVIOUS
<1>1. ASSUME NEW o \in Operators, OperatorSteps(o) PROVE FormInv'
  <2>1. /\ Formed(reviewed') /\ Formed(receipt') /\ Formed(manifest')
        /\ \A q \in Operators : Formed(plan'[q])
    BY <1>1, PlanMoves, FormedNone DEF FormInv
  <2>2. CASE config' = config
    BY <2>1, <2>2 DEF FormInv, Formed
  <2>3. CASE config' # config
    <3>1. /\ view[o] \in Config /\ config' = NewConfig(o)
          /\ plan[o] \in Plan /\ plan[o].config \in Config
      BY <1>1, <2>3, OneConfigWriter
    <3>2. WellFormed(plan[o].config)
      BY <3>1 DEF FormInv, Formed
    <3>3. NewConfig(o) \in Config /\ WellFormed(NewConfig(o))
      BY <3>1, <3>2, PatchedType, PatchedFormed, RestoredType, RestoredFormed DEF NewConfig
    <3> QED BY <2>1, <3>1, <3>3 DEF FormInv, Formed
  <2> QED BY <2>2, <2>3
<1>2. CASE \E t \in Templates : MakePlan(t)
  <2>1. reviewed'.config = config /\ UNCHANGED <<config, receipt, manifest, plan>>
    BY <1>2 DEF MakePlan, disk, locals
  <2> QED BY <2>1 DEF FormInv, Formed
<1>3. CASE GatewaySaves \/ RawEdit
  <2>1. config' \in EditsOf(config) /\ UNCHANGED <<reviewed, receipt, manifest, plan>>
    BY <1>3 DEF GatewaySaves, RawEdit, disk, files, locals
  <2> QED BY <2>1, EditsType, EditsFormed DEF FormInv, Formed
<1>4. CASE Reboot
  <2>1. /\ UNCHANGED <<config, reviewed, receipt, manifest>>
        /\ \A o \in Operators : plan'[o] = None
    BY <1>4 DEF Reboot, disk, files
  <2> QED BY <2>1, FormedNone DEF FormInv, Formed
<1>5. CASE UNCHANGED <<config, reviewed, receipt, manifest, plan>>
  BY <1>5 DEF FormInv, Formed
<1>6. CASE GatewayLocks \/ AdminFile \/ AdminReload \/ ServiceFails \/ ServiceRecovers
           \/ UNCHANGED vars
  BY <1>5, <1>6 DEF GatewayLocks, AdminFile, AdminReload, ServiceFails, ServiceRecovers,
         vars, disk, files, locals
<1> QED BY <1>1, <1>2, <1>3, <1>4, <1>6, NextIs DEF World, Environment

LEMMA FormInit == Init => FormInv
<1> SUFFICES ASSUME Init PROVE FormInv
  OBVIOUS
<1>1. config \in Config /\ WellFormed(config)
  BY ValuesAssumption DEF Init
<1> QED BY <1>1, FormedNone DEF Init, FormInv

\* Taking the patch back, by a failed apply or by rollback, gives the document
\* that was planned wherever the peers, as it read them, are as planned: the
\* flag, and the objects around it, whichever of them the patch had to create.
THEOREM PlannedConfigRestored == Spec => RestoreIsInverse
<1> DEFINE Restores(o) == /\ pc[o] = "patch_swap" /\ pc'[o] # pc[o] /\ mode[o] # "apply"
                          /\ config' # config
                          /\ Peers(view[o]) = Peers(plan[o].config)
           Gives(o) == config' = [plan[o].config EXCEPT !.canonical = TRUE]
<1>1. TypeInv /\ FormInv /\ [Next]_vars => \A o \in Operators : Restores(o) => Gives(o)
  <2> SUFFICES ASSUME TypeInv, FormInv, [Next]_vars, NEW o \in Operators, Restores(o)
               PROVE  Gives(o)
    OBVIOUS
  <2>1. ~World
    BY DEF World, Environment, GatewayLocks, GatewaySaves, RawEdit, AdminFile, AdminReload,
           ServiceFails, ServiceRecovers, Reboot, MakePlan, vars
  <2>2. PICK p \in Operators : OperatorSteps(p)
    BY <2>1, NextIs
  <2>3. /\ view[p] \in Config /\ config' = NewConfig(p) /\ OthersStay(p)
        /\ plan[p] \in Plan /\ plan[p].config \in Config
    BY <2>2, OneConfigWriter
  <2>4. p = o
    BY <2>3 DEF OthersStay
  <2>5. WellFormed(plan[o].config)
    BY <2>3, <2>4 DEF FormInv, Formed
  <2>6. config' = Restored(view[o], plan[o].config)
    BY <2>3, <2>4 DEF NewConfig
  <2> QED BY <2>3, <2>4, <2>5, <2>6, RestoredInverse
<1> QED BY <1>1, FormInit, FormStep, TypeInit, TypeStep, PTL DEF Spec, RestoreIsInverse

-----------------------------------------------------------------------------
(* What the end of an operation promises.  First, which step a reported        *)
(* outcome ends.                                                                *)

\* An outcome other than "killed" is reported by the step of the operator itself.
LEMMA WhoEnds ==
  ASSUME TypeInv, [Next]_vars, NEW o \in Operators, NEW outcome \in Results \ {"killed"},
         Ends(o, outcome)
  PROVE  Continue(o)
<1>1. LocalsOK /\ pc[o] # "idle" /\ pc'[o] = "idle" /\ result'[o] = outcome
  BY DEF Ends, TypeInv
<1>2. ~World
  BY <1>1 DEF World, Environment, GatewayLocks, GatewaySaves, RawEdit, AdminFile, AdminReload,
              ServiceFails, ServiceRecovers, Reboot, MakePlan, vars
<1>3. PICK p \in Operators : OperatorSteps(p)
  BY <1>2, NextIs
<1>4. p = o
  BY <1>1, <1>3, OneMoves DEF OthersStay
<1>5. ~Kill(o)
  BY <1>1, LocalViews DEF Kill
<1>6. ~BeginSteps(o)
  BY <1>1, Where
<1> QED BY <1>3, <1>4, <1>5, <1>6, StepsAre

\* Which step reports success, and what it found.
LEMMA WhatEnds ==
  ASSUME TypeInv, NEW o \in Operators, Continue(o), NEW outcome, Ends(o, outcome)
  PROVE  /\ outcome = "undone" => /\ RemovePolicy(o) /\ pc[o] = "unlink_policy"
                                  /\ mode[o] = "undo" /\ policy' = None
         /\ outcome = "rolled_back" => RestartService(o) /\ mode[o] = "rollback" /\ ServiceStart
         /\ outcome = "activated" => Check(o) /\ governed[o] /\ config.enabled = "off"
<1>1. LocalsOK /\ pc'[o] = "idle" /\ result'[o] = outcome /\ Phase(o)
  BY AtOperator DEF TypeInv, Ends
<1>2. \A x : Stop(o, x) => outcome = x
  BY <1>1, LocalViews
<1>3. /\ \A next : Goto(o, next) => next = "idle"
      /\ \A next : Undo(o, next) => next = "idle"
  BY <1>1, LocalSteps
<1>4. CASE RemoveSteps(o)
  BY <1>2, <1>3, <1>4, RemoveIs DEF RemoveGoes, RemoveFails, Abandon
<1>5. CASE SystemdSteps(o)
  <2>1. RestartService(o) => mode[o] \in {"rollback", "activate"}
    BY <1>1 DEF RestartService, Phase, Fits
  <2>2. ~Observes(o)
    BY <1>1 DEF Observes, LocalsOK
  <2> QED BY <1>2, <1>3, <1>5, <2>1, <2>2, SystemdIs
<1>6. CASE BackupSteps(o) \/ InstallSteps(o)
  BY <1>2, <1>3, <1>6, ApplyGoes DEF BackupPCs, InstallPCs
<1>7. CASE Patch(o)
  <2>1. CASE PatchFails(o)
    BY <1>1, <1>2, <1>3, <1>7, <2>1, Where, PatchFailsIs
  <2>2. CASE PatchGoes(o)
    BY <1>1, <1>3, <2>2 DEF PatchGoes, PatchDone, LocalsOK
  <2> QED BY <1>7, <2>1, <2>2, PatchIs
<1> QED BY <1>4, <1>5, <1>6, <1>7, StepsAre

-----------------------------------------------------------------------------
(* An apply that was undone.  Each apply has a plan of its own, because the    *)
(* backup before-<plan> is created exclusively: so a manifest of its plan is   *)
(* its own, and is not there unless it wrote it.                               *)

ApplyMode(o) == mode[o] \in {"apply", "undo"} /\ pc[o] # "backup"

\* The name of the plan's first backup is in use.
Taken(p) == p \in before \/ <<"before", p>> \in partial

Own(o) == ApplyMode(o) => Taken(plan[o]) /\ (pc[o] # "answer" => manifest # plan[o])

OwnInv ==
  /\ \A o \in Operators : Own(o)
  /\ \A o, p \in Operators : ApplyMode(o) /\ ApplyMode(p) /\ plan[o] = plan[p] => o = p

\* An operator comes to no apply of another plan, nor back from its answer.
NoNewApply ==
  \A q \in Operators : ApplyMode(q)' => /\ ApplyMode(q) /\ plan'[q] = plan[q]
                                        /\ pc[q] = "answer" => pc'[q] = "answer"

LEMMA OwnKept ==
  ASSUME OwnInv, NoNewApply, \A p : Taken(p) => Taken(p)' /\ p \in Plan,
         manifest' = manifest \/ manifest' \notin Plan
  PROVE  OwnInv'
  BY DEF OwnInv, Own, NoNewApply

LEMMA TakenStays ==
  ASSUME LateFaults = FALSE, TypeInv, NEW o, OperatorSteps(o)
  PROVE  \A p : Taken(p) => Taken(p)' /\ p \in Plan
<1>1. \A p : Taken(p) => p \in Plan
  BY DEF TypeInv, WorldOK, Taken
<1>2. CASE WriteBefore(o) \/ FillBefore(o)
  BY <1>1, <1>2 DEF WriteBefore, FillBefore, CreateBackup, Create, Fill, Taken
<1>3. CASE WriteConfigBackup(o) \/ FillConfigBackup(o)
  BY <1>1, <1>3 DEF WriteConfigBackup, FillConfigBackup, CreateBackup, Create, Fill, Taken, disk
<1> QED BY <1>1, <1>2, <1>3, Frame DEF BackupSteps, Taken

\* Where an operator in an apply comes from: an apply past its first backup,
\* unless that backup is the one just made.
LEMMA ApplyComes ==
  ASSUME TypeInv, NEW o \in Operators, OperatorSteps(o), ~WriteBefore(o)
  PROVE  NoNewApply
<1>1. LocalsOK /\ OthersStay(o) /\ Moved(o)
  BY OneMoves, StepMoves DEF TypeInv
<1> SUFFICES ASSUME ApplyMode(o)'
             PROVE  /\ ApplyMode(o) /\ plan'[o] = plan[o]
                    /\ pc[o] = "answer" => pc'[o] = "answer"
  BY <1>1 DEF OthersStay, ApplyMode, NoNewApply
<1>2. \A outcome : ~Stop(o, outcome)
  BY <1>1, LocalViews DEF ApplyMode
<1>3. ~BeginSteps(o)
  BY <1>1, LocalSteps DEF BeginSteps, BeginApply, BeginRollback, BeginActivate, ApplyMode
<1>4. pc[o] # "backup" /\ pc[o] # "answer"
  <2>1. ~Answer(o) /\ ~Kill(o)
    BY <1>2 DEF Answer, Kill
  <2>2. CASE BackupSteps(o) \/ InstallSteps(o)
    BY <2>1, <2>2 DEF BackupSteps, InstallSteps, FillBefore, WriteConfigBackup, FillConfigBackup,
       WritePolicy, FillPolicy, WriteDropin, FillDropin, WriteManifest, FillManifest
  <2>3. CASE Patch(o) \/ RemoveSteps(o) \/ SystemdSteps(o)
    BY <2>3, Where DEF HeldPCs, PatchPCs, RemovePCs, ManifestPCs
  <2> QED BY <1>3, <2>1, <2>2, <2>3, StepsAre
<1>5. CASE \E next : Goto(o, next)
  BY <1>1, <1>4, <1>5, LocalSteps DEF ApplyMode
<1>6. CASE \E next : mode[o] = "apply" /\ Undo(o, next)
  BY <1>1, <1>4, <1>6, LocalSteps DEF ApplyMode
<1>7. CASE UNCHANGED <<mode, plan>>
  BY <1>4, <1>7 DEF ApplyMode
<1> QED BY <1>1, <1>2, <1>3, <1>5, <1>6, <1>7 DEF Moved, Observes

LEMMA WriteBeforeOwn ==
  ASSUME LateFaults = FALSE, TypeInv, BackedInv, OwnInv, NEW o \in Operators, WriteBefore(o)
  PROVE  OwnInv'
<1>1. /\ LocalsOK /\ OthersStay(o) /\ manifest' = manifest
      /\ \A p : Taken(p) => Taken(p)' /\ p \in Plan
  BY OneMoves, TakenStays, StepsAre
     DEF TypeInv, BackupSteps, WriteBefore, CreateBackup
<1>2. \A q \in Operators \ {o} : ApplyMode(q)' => ApplyMode(q) /\ plan'[q] = plan[q]
  BY <1>1 DEF OthersStay, ApplyMode
<1>3. CASE /\ ~Taken(plan[o]) /\ Goto(o, "fill_before")
           /\ partial' = partial \cup {<<"before", plan[o]>>}
  <2>1. pc'[o] = "fill_before" /\ plan'[o] = plan[o] /\ plan[o] \in Plan
    BY <1>1, <1>3, LocalSteps, Modes DEF WriteBefore, BackupPCs
  <2>2. manifest # plan[o]
    BY <1>3, <2>1 DEF BackedInv, InstallBacked, Taken
  <2>3. Own(o)'
    BY <1>1, <1>3, <2>1, <2>2 DEF Own, Taken
  <2>4. \A q \in Operators \ {o} : ApplyMode(q)' => plan'[q] # plan[o]
    BY <1>2, <1>3 DEF OwnInv, Own
  <2>5. \A q \in Operators \ {o} : Own(q)'
    BY <1>1, <1>2 DEF OwnInv, Own, OthersStay
  <2>6. \A q, p \in Operators : ApplyMode(q)' /\ ApplyMode(p)' /\ plan'[q] = plan'[p] => q = p
    BY <1>2, <2>1, <2>4 DEF OwnInv
  <2> QED BY <2>3, <2>5, <2>6 DEF OwnInv
<1>4. CASE Stop(o, "refused")
  <2>1. mode'[o] = "none"
    BY <1>1, <1>4, LocalViews
  <2>2. NoNewApply
    BY <1>1, <1>2, <2>1 DEF NoNewApply, ApplyMode, OthersStay
  <2> QED BY <1>1, <2>2, OwnKept
<1> QED BY <1>3, <1>4 DEF WriteBefore, CreateBackup, Create, Refused, Taken

\* The manifest written is of the writer's plan, and of nobody else's.
LEMMA FillManifestOwn ==
  ASSUME LateFaults = FALSE, TypeInv, OwnInv, NEW o \in Operators, FillManifest(o)
  PROVE  OwnInv'
<1>1. /\ LocalsOK /\ OthersStay(o) /\ mode[o] = "apply" /\ Goto(o, "answer")
      /\ \A p : Taken(p) => Taken(p)' /\ p \in Plan
      /\ manifest' \in {manifest, plan[o]}
  <2>1. InstallSteps(o) /\ OperatorSteps(o) /\ LocalsOK /\ pc[o] = "fill_manifest"
    BY StepsAre DEF InstallSteps, FillManifest, TypeInv
  <2>2. mode[o] = "apply"
    BY <2>1, Modes DEF InstallPCs
  <2>3. Goto(o, "answer") /\ manifest' = Written(o, manifest, plan[o])
    BY DEF FillManifest, Fill
  <2> QED BY <2>1, <2>2, <2>3, OneMoves, TakenStays, WrittenIs
<1>2. ApplyMode(o)
  BY <1>1 DEF ApplyMode, FillManifest
<1>3. pc'[o] = "answer" /\ plan'[o] = plan[o]
  BY <1>1, LocalSteps
<1>4. \A q \in Operators \ {o} : ApplyMode(q)' => /\ ApplyMode(q) /\ plan'[q] = plan[q]
                                                  /\ plan[q] # plan[o]
  BY <1>1, <1>2 DEF OthersStay, ApplyMode, OwnInv
<1>5. \A q \in Operators : Own(q)'
  BY <1>1, <1>2, <1>3, <1>4 DEF OwnInv, Own, OthersStay
<1>6. \A q, p \in Operators : ApplyMode(q)' /\ ApplyMode(p)' /\ plan'[q] = plan'[p] => q = p
  BY <1>3, <1>4 DEF OwnInv
<1> QED BY <1>5, <1>6 DEF OwnInv

LEMMA OwnStep ==
  ASSUME LateFaults = FALSE PROVE TypeInv /\ BackedInv /\ OwnInv /\ [Next]_vars => OwnInv'
<1> SUFFICES ASSUME TypeInv, BackedInv, OwnInv, [Next]_vars PROVE OwnInv'
  OBVIOUS
<1>1. ASSUME NEW o \in Operators, OperatorSteps(o), ~WriteBefore(o), ~FillManifest(o)
      PROVE  OwnInv'
  <2>1. manifest' = manifest \/ manifest' \notin Plan
    BY <1>1, Frame, Values DEF WriteManifest, RemoveManifest, Create, Compare, Unlink, disk
  <2> QED BY <1>1, <2>1, ApplyComes, TakenStays, OwnKept
<1>2. ASSUME NEW o \in Operators, OperatorSteps(o) PROVE OwnInv'
  BY <1>1, <1>2, WriteBeforeOwn, FillManifestOwn
<1>3. CASE World
  <2>1. UNCHANGED <<manifest, before, partial>>
    BY <1>3 DEF World, Environment, GatewayLocks, GatewaySaves, RawEdit, AdminFile, AdminReload,
           ServiceFails, ServiceRecovers, Reboot, MakePlan, vars, disk
  <2>2. \A p : Taken(p) => Taken(p)' /\ p \in Plan
    BY <2>1 DEF TypeInv, WorldOK, Taken
  <2>3. NoNewApply
    BY <1>3 DEF World, Environment, GatewayLocks, GatewaySaves, RawEdit, AdminFile,
           AdminReload, ServiceFails, ServiceRecovers, Reboot, MakePlan, vars, locals,
           NoNewApply, ApplyMode
  <2> QED BY <2>1, <2>2, <2>3, OwnKept
<1> QED BY <1>2, <1>3, NextIs

LEMMA OwnInit == Init => OwnInv
  BY DEF Init, OwnInv, Own, ApplyMode

-----------------------------------------------------------------------------
(* And it finds the terminal flag as it left it, when nobody else edits the    *)
(* document: until then every plan records the same flag, and the document     *)
(* has that flag, or is patched while the policy stands and nobody holds it.   *)
(* A holder created the policy and has not yet patched, or has taken the patch *)
(* back and not yet removed the policy.                                        *)

Off == <<TRUE, TRUE, "off">>

Known(p) ==
  /\ p \in Plan
  /\ p = reviewed \/ p = receipt \/ p = manifest \/ \E o \in Operators : p = plan[o]

Holder(o) ==
  \/ mode[o] = "apply" /\ pc[o] \in PatchPCs \cup {"fill_policy", "write_dropin", "fill_dropin"}
  \/ pc[o] \in RemovePCs

Viewed(o) ==
  Looks(pc[o]) => IF mode[o] = "apply" THEN view[o] = plan[o].config
                                       ELSE view[o].enabled = "off"

Views == \A o \in Operators : Viewed(o)

SamePeers == \A p : Known(p) => Peers(p.config) = Peers(config)
SameFlag == \A p, q : Known(p) /\ Known(q) => Terminal(p.config) = Terminal(q.config)
AsPlanned == \A p : Known(p) => Terminal(p.config) = Terminal(config)
PatchStands == Terminal(config) = Off /\ policy # None /\ \A o \in Operators : ~Holder(o)
Sole(o) == policy # None /\ \A p \in Operators : Holder(p) => p = o
SoleHolder ==
  \A o \in Operators : Holder(o) /\ Terminal(plan[o].config) # Off => Sole(o)

Unedited == SamePeers /\ SameFlag /\ (AsPlanned \/ PatchStands) /\ SoleHolder

UneditedInv ==
  /\ lock = Gateway => edits # 0
  /\ Views
  /\ edits = 0 => Unedited

LEMMA ViewStep == TypeInv /\ Views /\ [Next]_vars => Views'
<1> SUFFICES ASSUME TypeInv, Views, [Next]_vars PROVE Views'
  OBVIOUS
<1>1. ASSUME NEW o \in Operators, OperatorSteps(o) PROVE Views'
  <2>1. /\ LocalsOK /\ Moved(o) /\ OthersStay(o)
        /\ \A q \in Operators \ {o} : view'[q] = view[q]
    BY <1>1, StepMoves, OneMoves, OneViews DEF TypeInv
  <2>2. \A q \in Operators \ {o} : Viewed(q)'
    BY <2>1 DEF Views, Viewed, OthersStay
  <2>3. CASE /\ PatchRead(o) /\ PatchReads(o)
             /\ view' = [view EXCEPT ![o] = config] /\ pc' = [pc EXCEPT ![o] = "patch_look"]
             /\ UNCHANGED <<mode, plan, governed, result>>
    BY <2>1, <2>2, <2>3 DEF LocalsOK, PatchReads, Views, Viewed
  <2>4. CASE PatchLook(o) /\ Goto(o, "patch_swap")
    <3>1. Viewed(o) /\ Looks(pc[o])
      BY <2>4 DEF PatchLook, Views, Looks
    <3>2. mode'[o] = mode[o] /\ plan'[o] = plan[o] /\ view' = view
      BY <2>1, <2>4, LocalSteps, LocalViews
    <3>3. Viewed(o)'
      BY <3>1, <3>2 DEF Viewed
    <3> QED BY <2>2, <3>3 DEF Views
  <2>5. CASE ~Looks(pc'[o])
    BY <2>2, <2>5 DEF Views, Viewed
  <2>6. ASSUME ~PatchRead(o), ~PatchLook(o) PROVE ~Looks(pc'[o])
    <3>1. CASE BeginSteps(o)
      BY <2>1, <3>1, LocalSteps DEF BeginSteps, BeginApply, BeginRollback, BeginActivate, Looks
    <3>2. CASE Observes(o)
      BY <2>1, <3>2 DEF Observes, LocalsOK, Looks
    <3> QED BY <2>1, <2>6, <3>1, <3>2, LocalSteps DEF Moved, Looks
  <2>7. CASE (PatchRead(o) \/ PatchLook(o)) /\ PatchFails(o)
    <3>1. pc[o] \in PatchPCs
      BY <2>7 DEF PatchRead, PatchLook, HeldPCs, PatchPCs
    <3> QED BY <2>1, <2>5, <2>7, <3>1, PatchFailsIs, LocalSteps DEF Looks
  <2> QED BY <2>3, <2>4, <2>5, <2>6, <2>7 DEF PatchRead, PatchLook
<1>2. CASE World
  BY <1>2 DEF World, Environment, GatewayLocks, GatewaySaves, RawEdit, AdminFile, AdminReload,
     ServiceFails, ServiceRecovers, Reboot, MakePlan, vars, locals, Views, Viewed, Looks
<1> QED BY <1>1, <1>2, NextIs

\* Steps that change neither the document nor the policy, learn no plan and
\* bring nobody to hold the policy.
LEMMA UneditedKept ==
  ASSUME Unedited, config' = config, policy' = policy \/ policy' # None,
         \A p : Known(p)' => Known(p),
         \A q \in Operators : Holder(q)' => Holder(q) /\ plan'[q] = plan[q]
  PROVE  Unedited'
<1>1. SamePeers' /\ SameFlag'
  BY DEF Unedited, SamePeers, SameFlag
<1>2. AsPlanned' \/ PatchStands'
  BY DEF Unedited, AsPlanned, PatchStands
<1>3. SoleHolder'
  BY DEF Unedited, SoleHolder, Sole
<1> QED BY <1>1, <1>2, <1>3 DEF Unedited

\* An operator learns no plan but the reviewed one and the installed one.
LEMMA KnownStays ==
  ASSUME TypeInv, NEW o \in Operators, OperatorSteps(o)
  PROVE  \A p : Known(p)' => Known(p)
<1>1. /\ \A q \in Operators : plan'[q] \in {plan[q], None, reviewed, manifest}
      /\ reviewed' = reviewed
      /\ receipt' = receipt \/ receipt' = plan[o]
      /\ manifest' \in {manifest, None, plan[o], o}
  BY PlanMoves
<1> SUFFICES ASSUME NEW p, Known(p)' PROVE Known(p)
  OBVIOUS
<1>2. p \in Plan /\ p # None /\ p # o
  BY Values DEF Known
<1>3. CASE p = reviewed' \/ p = receipt' \/ p = manifest'
  BY <1>1, <1>2, <1>3 DEF Known
<1>4. ASSUME NEW q \in Operators, p = plan'[q] PROVE Known(p)
  BY <1>1, <1>2, <1>4 DEF Known
<1> QED BY <1>3, <1>4 DEF Known

\* The one write to config.json that is not refused.
Writes(o) == PatchSwap(o) /\ config' = NewConfig(o) /\ PatchDone(o)

\* Nobody comes to hold the policy but who writes it or takes the patch back.
LEMMA HolderComes ==
  ASSUME LateFaults = FALSE, TypeInv, NEW o \in Operators, OperatorSteps(o),
         ~WritePolicy(o), ~Writes(o)
  PROVE  \A q \in Operators : Holder(q)' => Holder(q) /\ plan'[q] = plan[q]
<1>1. LocalsOK /\ OthersStay(o) /\ Phase(o)
  BY OneMoves, AtOperator DEF TypeInv
<1> SUFFICES ASSUME Holder(o)' PROVE Holder(o) /\ plan'[o] = plan[o]
  BY <1>1 DEF OthersStay, Holder
<1>2. pc'[o] \in PatchPCs \cup RemovePCs \cup {"fill_policy", "write_dropin", "fill_dropin"}
  BY DEF Holder
<1>3. \A outcome : ~Stop(o, outcome)
  BY <1>1, <1>2, LocalSteps DEF HeldPCs, PatchPCs, RemovePCs
<1>4. ~BeginSteps(o)
  BY <1>1, LocalSteps
     DEF BeginSteps, BeginApply, BeginRollback, BeginActivate, Holder, HeldPCs, PatchPCs, RemovePCs
<1>5. ~Kill(o)
  BY <1>3 DEF Kill
<1>6. ~BackupSteps(o)
  BY <1>1, <1>2, <1>3, LocalSteps
     DEF BackupSteps, WriteBefore, FillBefore, WriteConfigBackup, FillConfigBackup, CreateBackup,
         Create, Fill, Refused, HeldPCs, PatchPCs, RemovePCs
<1>7. CASE InstallSteps(o)
  <2>1. ~Answer(o)
    BY <1>3 DEF Answer
  <2>2. ~WriteManifest(o) /\ ~FillManifest(o)
    BY <1>1, LocalSteps
       DEF WriteManifest, FillManifest, Create, Fill, Holder, HeldPCs, PatchPCs, RemovePCs
  <2>3. CASE FillPolicy(o) \/ WriteDropin(o) \/ FillDropin(o)
    <3>1. pc[o] \in {"fill_policy", "write_dropin", "fill_dropin"}
      BY <2>3 DEF FillPolicy, WriteDropin, FillDropin
    <3>2. mode[o] = "apply"
      BY <1>1, <3>1, Modes DEF InstallPCs
    <3>3. plan'[o] = plan[o]
      BY <1>1, <1>3, <1>7, ApplyGoes, LocalSteps
    <3> QED BY <3>1, <3>2, <3>3 DEF Holder
  <2> QED BY <1>7, <2>1, <2>2, <2>3 DEF InstallSteps
<1>8. CASE Patch(o)
  <2>1. pc[o] \in PatchPCs
    BY <1>8, Where
  <2>2. CASE PatchFails(o)
    <3>1. mode[o] = "apply" /\ Undo(o, "rm_dropin")
      BY <1>1, <1>3, <2>1, <2>2, PatchFailsIs
    <3> QED BY <1>1, <2>1, <3>1, LocalSteps DEF Holder
  <2>3. CASE PatchGoes(o)
    <3>1. mode'[o] = mode[o] /\ plan'[o] = plan[o] /\ pc'[o] \in PatchPCs
      <4>1. CASE Goto(o, "patch_read") \/ Goto(o, "patch_swap")
        BY <1>1, <4>1, LocalSteps DEF HeldPCs, PatchPCs
      <4>2. CASE pc' = [pc EXCEPT ![o] = "patch_look"] /\ UNCHANGED <<mode, plan>>
        BY <1>1, <4>2 DEF LocalsOK, HeldPCs, PatchPCs
      <4> QED BY <2>3, <4>1, <4>2 DEF PatchGoes, Writes
    <3> QED BY <2>1, <3>1 DEF Holder, HeldPCs, PatchPCs, RemovePCs
  <2> QED BY <1>8, <2>2, <2>3, PatchIs
<1>9. CASE RemoveSteps(o)
  <2>1. pc[o] \in RemovePCs /\ plan'[o] = plan[o]
    BY <1>1, <1>2, <1>3, <1>9, RemoveIs, LocalSteps
       DEF RemoveGoes, RemoveFails, Abandon, HeldPCs, PatchPCs, RemovePCs
  <2> QED BY <2>1 DEF Holder
<1>10. ~SystemdSteps(o)
  <2>1. ~Observes(o)
    BY <1>1, <1>2 DEF Observes, LocalsOK, HeldPCs, PatchPCs, RemovePCs
  <2> QED BY <1>1, <1>2, <1>3, <2>1, SystemdIs, LocalSteps DEF HeldPCs, PatchPCs, RemovePCs
<1> QED BY <1>4, <1>5, <1>6, <1>7, <1>8, <1>9, <1>10, StepsAre

\* Writing the policy that it made, an operator leaves one there.
LEMMA OtherUnedited ==
  ASSUME LateFaults = FALSE, TypeInv, Unedited, NEW o \in Operators, OperatorSteps(o),
         ~WritePolicy(o), ~Writes(o), ~RemovePolicy(o)
  PROVE  Unedited'
<1>1. config' = config
  <2>1. PatchSwap(o) /\ ~Writes(o) => config' = config
    BY DEF PatchSwap, Writes
  <2> QED BY <2>1, Frame
<1>2. policy' = policy \/ policy' # None
  <2>1. CASE FillPolicy(o)
    <3>1. plan[o].template # None
      BY <2>1, Modes, PlanType, Values DEF TypeInv, FillPolicy, InstallPCs
    <3> QED BY <2>1, <3>1, WrittenIs DEF FillPolicy, Fill
  <2> QED BY <2>1, Frame
<1> QED BY <1>1, <1>2, UneditedKept, KnownStays, HolderComes

\* Written where none was, so where nobody held one, or the flag is off anyway.
LEMMA WritePolicyUnedited ==
  ASSUME TypeInv, Unedited, NEW o \in Operators, WritePolicy(o)
  PROVE  Unedited'
<1>1. /\ LocalsOK /\ Phase(o) /\ config' = config /\ OthersStay(o)
      /\ \A p : Known(p)' => Known(p)
  BY AtOperator, OneMoves, KnownStays, StepsAre DEF TypeInv, WritePolicy, InstallSteps
<1>2. CASE Stop(o, "refused") /\ policy' = policy
  <2>1. pc'[o] = "idle"
    BY <1>1, <1>2, LocalSteps
  <2>2. \A q \in Operators : Holder(q)' => Holder(q) /\ plan'[q] = plan[q]
    BY <1>1, <2>1 DEF OthersStay, Holder, HeldPCs, PatchPCs, RemovePCs
  <2> QED BY <1>1, <1>2, <2>2, UneditedKept
<1>3. CASE policy = None /\ policy' = o /\ Goto(o, "fill_policy")
  <2>1. plan[o] \in Plan /\ policy' # None /\ plan'[o] = plan[o]
    BY <1>1, <1>3, LocalSteps, Values DEF WritePolicy, Phase
  <2>2. AsPlanned /\ SamePeers /\ SameFlag
    BY <1>3 DEF Unedited, PatchStands
  <2>3. AsPlanned' /\ SamePeers' /\ SameFlag'
    BY <1>1, <2>2 DEF AsPlanned, SamePeers, SameFlag
  <2>4. \A q \in Operators \ {o} : Holder(q)' => Holder(q) /\ plan'[q] = plan[q]
    BY <1>1 DEF OthersStay, Holder
  <2>5. \A q \in Operators : Holder(q) => Terminal(plan[q].config) = Off
    BY <1>3 DEF Unedited, SoleHolder, Sole
  <2>6. \A q \in Operators : Holder(q) => plan[q] \in Plan
    BY <1>1 DEF LocalsOK, Phase, Holder, HeldPCs, PatchPCs, RemovePCs
  <2>7. SoleHolder'
    <3> SUFFICES ASSUME NEW q \in Operators, Holder(q)', Terminal(plan'[q].config) # Off
                 PROVE  Sole(q)'
      BY DEF SoleHolder
    <3>1. q = o
      BY <2>4, <2>5
    <3>2. ASSUME NEW r \in Operators \ {o}, Holder(r)' PROVE FALSE
      <4>1. Known(plan[r]) /\ Known(plan[o])
        BY <2>1, <2>4, <2>6, <3>2 DEF Known
      <4>2. Terminal(plan[r].config) = Off
        BY <2>4, <2>5, <3>2
      <4> QED BY <2>1, <2>2, <3>1, <4>1, <4>2 DEF SameFlag
    <3> QED BY <2>1, <3>1, <3>2 DEF Sole
  <2> QED BY <2>3, <2>7 DEF Unedited
<1> QED BY <1>2, <1>3 DEF WritePolicy, Create, Refused

\* Removed by a holder, so with the flag as planned; nobody else holds it, or
\* the flag is off anyway.
LEMMA RemovePolicyUnedited ==
  ASSUME LateFaults = FALSE, TypeInv, Unedited, NEW o \in Operators, RemovePolicy(o)
  PROVE  AsPlanned /\ Unedited'
<1>1. /\ LocalsOK /\ OperatorSteps(o) /\ OthersStay(o) /\ Holder(o) /\ ~WritePolicy(o) /\ ~Writes(o)
      /\ config' = config
      /\ \A p : Known(p)' => Known(p)
  <2>1. OperatorSteps(o) /\ pc[o] \in {"rm_policy", "unlink_policy"}
    BY StepsAre DEF RemoveSteps, RemovePolicy
  <2>2. ~WritePolicy(o) /\ ~PatchSwap(o)
    BY <2>1 DEF WritePolicy, PatchSwap
  <2> QED BY <2>1, <2>2, OneMoves, KnownStays, Frame DEF TypeInv, Holder, RemovePCs, Writes
<1>2. AsPlanned /\ SamePeers /\ SameFlag
  BY <1>1 DEF Unedited, PatchStands
<1>3. CASE policy' = policy
  BY <1>1, <1>2, <1>3, UneditedKept, HolderComes
<1>4. CASE policy' = None /\ pc'[o] \in {"idle", "rm_manifest"}
  <2>1. AsPlanned' /\ SamePeers' /\ SameFlag'
    BY <1>1, <1>2 DEF AsPlanned, SamePeers, SameFlag
  <2>2. \A q \in Operators : Holder(q)' => q # o /\ Holder(q) /\ plan'[q] = plan[q]
    BY <1>1, <1>4 DEF OthersStay, Holder, HeldPCs, PatchPCs, RemovePCs
  <2>3. SoleHolder'
    BY <1>1, <2>2 DEF Unedited, SoleHolder, Sole
  <2> QED BY <1>2, <2>1, <2>3 DEF Unedited
<1>5. policy' = policy \/ (policy' = None /\ pc'[o] \in {"idle", "rm_manifest"})
  BY <1>1, LocalSteps, RemoveIs
     DEF RemoveSteps, RemoveGoes, RemoveFails, Abandon, RemovePolicy, RemoveDropin, RemoveManifest
<1> QED BY <1>3, <1>4, <1>5

LEMMA RestoredTerminal ==
  ASSUME NEW c \in Config, NEW old \in Config, WellFormed(old), Peers(c) = Peers(old)
  PROVE  Terminal(Restored(c, old)) = Terminal(old)
<1>1. Restored(c, old) = [old EXCEPT !.canonical = TRUE]
  BY RestoredInverse
<1> QED BY <1>1 DEF Config, Terminal

LEMMA PatchedTerminal == ASSUME NEW c \in Config PROVE Terminal(Patched(c)) = Off
  BY DEF Config, Terminal, Patched, Off

\* Patched by the holder, or the patch taken back by who becomes the holder.
LEMMA WritesUnedited ==
  ASSUME TypeInv, FormInv, LockInv, Views, Unedited, edits = 0, NEW o \in Operators, Writes(o)
  PROVE  Unedited'
<1>1. /\ LocalsOK /\ Phase(o) /\ OthersStay(o) /\ pc[o] = "patch_swap" /\ policy' = policy
      /\ \A p : Known(p)' => Known(p)
  BY AtOperator, OneMoves, KnownStays, StepsAre DEF TypeInv, Writes, PatchSwap, Patch, disk
<1>2. /\ plan[o] \in Plan /\ plan[o].config \in Config /\ WellFormed(plan[o].config)
      /\ config \in Config /\ WellFormed(config) /\ view[o] = config /\ Known(plan[o])
      /\ plan'[o] = plan[o]
  BY <1>1, PlanType, LocalSteps
     DEF Phase, FormInv, Formed, Writes, LockInv, Quiet, Looks, Known, PatchDone
<1>3. Peers(config') = Peers(config)
  BY <1>2, PatchedPeers, RestoredPeers DEF Writes, NewConfig
<1>4. SamePeers' /\ SameFlag'
  BY <1>1, <1>3 DEF Unedited, SamePeers, SameFlag
<1>5. CASE mode[o] = "apply"
  <2>1. config = plan[o].config /\ config' = Patched(config)
    BY <1>1, <1>2, <1>5 DEF Views, Viewed, Looks, Writes, NewConfig
  <2>2. Terminal(config') = Off
    BY <1>2, <2>1, PatchedTerminal
  <2>3. Holder(o)
    BY <1>1, <1>5 DEF Holder, HeldPCs, PatchPCs
  <2>4. pc'[o] = "write_manifest"
    BY <1>1, <1>5, LocalSteps DEF Writes, PatchDone
  <2>5. \A q \in Operators : Holder(q)' => q # o /\ Holder(q) /\ plan'[q] = plan[q]
    BY <1>1, <2>4 DEF OthersStay, Holder, HeldPCs, PatchPCs, RemovePCs
  <2>6. SoleHolder'
    BY <1>1, <2>5 DEF Unedited, SoleHolder, Sole
  <2>7. CASE Terminal(plan[o].config) = Off
    <3>1. AsPlanned'
      BY <1>1, <1>2, <2>2, <2>7 DEF Unedited, SameFlag, AsPlanned
    <3> QED BY <1>4, <2>6, <3>1 DEF Unedited
  <2>8. CASE Terminal(plan[o].config) # Off
    <3>1. Sole(o)
      BY <2>3, <2>8 DEF Unedited, SoleHolder
    <3>2. PatchStands'
      BY <1>1, <2>2, <2>5, <3>1 DEF PatchStands, Sole
    <3> QED BY <1>4, <2>6, <3>2 DEF Unedited
  <2> QED BY <2>7, <2>8
<1>6. CASE mode[o] # "apply"
  <2>1. config' = Restored(config, plan[o].config) /\ config.enabled = "off"
    BY <1>1, <1>2, <1>6 DEF Views, Viewed, Looks, Writes, NewConfig
  <2>2. Peers(config) = Peers(plan[o].config)
    BY <1>2 DEF Unedited, SamePeers
  <2>3. Terminal(config') = Terminal(plan[o].config)
    BY <1>2, <2>1, <2>2, RestoredTerminal
  <2>4. AsPlanned'
    BY <1>1, <1>2, <2>3 DEF Unedited, SameFlag, AsPlanned
  <2>5. Terminal(config) = Off
    BY <1>2, <2>1 DEF Terminal, Off, WellFormed, Config
  <2>6. \A q \in Operators \ {o} : Holder(q)' => Holder(q) /\ plan'[q] = plan[q]
    BY <1>1 DEF OthersStay, Holder
  <2>7. CASE Terminal(plan[o].config) = Off
    <3>1. \A q \in Operators : Holder(q)' => plan'[q] \in Plan
      BY <1>1, <1>2, <2>6 DEF LocalsOK, Phase, Holder, HeldPCs, PatchPCs, RemovePCs
    <3>2. \A q \in Operators : Holder(q)' => Known(plan[q]) /\ plan'[q] = plan[q]
      BY <1>2, <2>6, <3>1 DEF Known
    <3>3. \A q \in Operators : Holder(q)' => Terminal(plan'[q].config) = Off
      BY <1>2, <2>7, <3>2 DEF Unedited, SameFlag
    <3> QED BY <1>4, <2>4, <3>3 DEF Unedited, SoleHolder
  <2>8. CASE Terminal(plan[o].config) # Off
    <3>1. PatchStands
      BY <1>2, <2>5, <2>8 DEF Unedited, AsPlanned
    <3>2. policy' # None /\ \A q \in Operators : Holder(q)' => q = o
      BY <1>1, <2>6, <3>1 DEF PatchStands
    <3>3. SoleHolder'
      BY <3>2 DEF SoleHolder, Sole
    <3> QED BY <1>4, <2>4, <3>3 DEF Unedited
  <2> QED BY <2>7, <2>8
<1> QED BY <1>5, <1>6

\* Planned where there is no policy, so with the flag as every plan has it.
LEMMA MakePlanUnedited ==
  ASSUME Unedited, NEW t \in Templates, MakePlan(t) PROVE Unedited'
<1> DEFINE new == [template |-> t, config |-> config]
<1>1. /\ reviewed' = new /\ policy = None
      /\ UNCHANGED <<policy, config, receipt, manifest, pc, mode, plan>>
  BY DEF MakePlan, PlanAllowed, disk, locals
<1>2. \A p : Known(p)' => Known(p) \/ p = new
  BY <1>1 DEF Known
<1>3. AsPlanned /\ SamePeers
  BY <1>1 DEF Unedited, PatchStands
<1>4. new.config = config
  OBVIOUS
<1> HIDE DEF new
<1>5. AsPlanned' /\ SamePeers'
  BY <1>1, <1>2, <1>3, <1>4 DEF AsPlanned, SamePeers
<1>6. SameFlag'
  BY <1>5 DEF AsPlanned, SameFlag
<1>7. SoleHolder'
  BY <1>1 DEF Unedited, SoleHolder, Sole, Holder
<1> QED BY <1>5, <1>6, <1>7 DEF Unedited

\* An edit is counted from the moment the Gateway takes the lock for it.
LEMMA EditsCount ==
  ASSUME TypeInv, lock = Gateway => edits # 0, [Next]_vars
  PROVE  /\ lock' = Gateway => edits' # 0
         /\ edits' = 0 => edits = 0
<1>1. edits \in Nat
  BY DEF TypeInv, WorldOK
<1>2. CASE GatewayLocks \/ RawEdit
  BY <1>1, <1>2 DEF GatewayLocks, RawEdit
<1>3. CASE edits' = edits /\ (lock' = Gateway => lock = Gateway)
  BY <1>3
<1>4. CASE World /\ ~GatewayLocks /\ ~RawEdit
  BY <1>3, <1>4, ValuesAssumption
     DEF World, Environment, GatewaySaves, AdminFile, AdminReload, ServiceFails,
         ServiceRecovers, Reboot, MakePlan, GatewayDies, Fault, vars, counts
<1>5. ASSUME NEW o \in Operators, OperatorSteps(o)
      PROVE  edits' = edits /\ (lock' = Gateway => lock = Gateway)
  <2>1. o # Gateway /\ Free # Gateway
    BY ValuesAssumption
  <2>2. Patch(o) => lock' \in {Free, o, lock}
    BY PatchIs DEF PatchGoes
  <2>3. RestartService(o) \/ Kill(o) => lock' \in {Free, lock}
    BY DEF RestartService, Kill, GatewayDies
  <2> QED BY <1>5, <2>1, <2>2, <2>3, Frame
<1> QED BY <1>2, <1>4, <1>5, NextIs

LEMMA UneditedStep ==
  ASSUME LateFaults = FALSE
  PROVE  TypeInv /\ FormInv /\ LockInv /\ UneditedInv /\ [Next]_vars => UneditedInv'
<1> SUFFICES ASSUME TypeInv, FormInv, LockInv, UneditedInv, [Next]_vars PROVE UneditedInv'
  OBVIOUS
<1>1. Views' /\ (lock' = Gateway => edits' # 0) /\ (edits' = 0 => edits = 0)
  BY ViewStep, EditsCount DEF UneditedInv
<1> SUFFICES ASSUME edits' = 0 PROVE Unedited'
  BY <1>1 DEF UneditedInv
<1>2. Unedited /\ lock # Gateway /\ Views /\ edits = 0
  BY <1>1 DEF UneditedInv
<1>3. ASSUME NEW o \in Operators, OperatorSteps(o) PROVE Unedited'
  BY <1>2, <1>3, OtherUnedited, WritePolicyUnedited, RemovePolicyUnedited, WritesUnedited
<1>4. CASE \E t \in Templates : MakePlan(t)
  BY <1>2, <1>4, MakePlanUnedited
<1>5. ~GatewaySaves /\ ~RawEdit /\ ~GatewayLocks
  BY <1>2 DEF GatewaySaves, RawEdit, GatewayLocks
<1>6. ASSUME UNCHANGED <<config, reviewed, receipt, manifest>>,
             policy' = policy \/ policy' # None,
             \A q \in Operators : plan'[q] \in {plan[q], None},
             \A q \in Operators : Holder(q)' => Holder(q) /\ plan'[q] = plan[q]
      PROVE  Unedited'
  <2>1. \A p : Known(p)' => Known(p)
    BY <1>6, Values DEF Known
  <2> QED BY <1>2, <1>6, <2>1, UneditedKept
<1>7. CASE Reboot
  <2>1. \A q \in Operators : ~Holder(q)' /\ plan'[q] = None
    BY <1>7 DEF Reboot, Holder, HeldPCs, PatchPCs, RemovePCs
  <2> QED BY <1>6, <1>7, <2>1 DEF Reboot, disk, files
<1>8. CASE AdminFile \/ AdminReload \/ ServiceFails \/ ServiceRecovers \/ UNCHANGED vars
  <2>1. UNCHANGED <<config, reviewed, receipt, manifest, pc, mode, plan>>
    BY <1>8 DEF AdminFile, AdminReload, ServiceFails, ServiceRecovers, vars, disk, files, locals
  <2>2. policy' = policy \/ policy' # None
    BY <1>8, ValuesAssumption
       DEF AdminFile, AdminReload, ServiceFails, ServiceRecovers, vars, disk
  <2> QED BY <1>6, <2>1, <2>2 DEF Holder
<1> QED BY <1>3, <1>4, <1>5, <1>7, <1>8, NextIs DEF World, Environment

LEMMA UneditedInit == Init => UneditedInv
<1> SUFFICES ASSUME Init PROVE UneditedInv
  OBVIOUS
<1>1. lock # Gateway /\ Views
  BY ValuesAssumption DEF Init, Views, Viewed, Looks
<1>2. (\A p : ~Known(p)) /\ \A o \in Operators : ~Holder(o)
  BY ValuesAssumption DEF Init, Known, Holder, HeldPCs, PatchPCs, RemovePCs
<1>3. Unedited
  BY <1>2 DEF Unedited, SamePeers, SameFlag, AsPlanned, SoleHolder
<1> QED BY <1>1, <1>3 DEF UneditedInv

\* However many operators apply, undo and roll back at once and are killed, and
\* however calls fail before they change anything: an apply that reports it undid
\* itself leaves no policy, no drop-in, no manifest of its plan, and, where only
\* operators wrote config.json, the terminal flag of the document it had planned
\* for.  (Without files of the administrator's, as PolicyBeforeDropin.)
THEOREM UndoneMeansClean ==
  ASSUME LateFaults = FALSE, Admin = FALSE
  PROVE  Spec => UndoneLeavesNothing
<1> DEFINE Clean(o) == /\ policy' = None /\ dropin' # Managed /\ manifest' # plan[o]
                       /\ edits = 0 => Terminal(config') = Terminal(plan[o].config)
           Inv == TypeInv /\ ClaimInv /\ BackedInv /\ FormInv /\ LockInv /\ OwnInv /\ UneditedInv
<1>1. Inv /\ [Next]_vars => \A o \in Operators : Ends(o, "undone") => Clean(o)
  <2> SUFFICES ASSUME Inv, [Next]_vars, NEW o \in Operators, Ends(o, "undone") PROVE Clean(o)
    OBVIOUS
  <2>1. RemovePolicy(o) /\ pc[o] = "unlink_policy" /\ mode[o] = "undo" /\ policy' = None
    BY WhoEnds, WhatEnds DEF Results
  <2>2. UNCHANGED <<dropin, manifest, config>>
    BY <2>1 DEF RemovePolicy
  <2>3. dropin' # Managed
    BY <2>1, <2>2, Values DEF ClaimInv, OneClaim, Claim
  <2>4. manifest' # plan[o]
    BY <2>1, <2>2 DEF OwnInv, Own, ApplyMode
  <2>5. Known(plan[o])
    BY <2>1, AtOperator DEF TypeInv, Phase, Known
  <2>6. edits = 0 => Terminal(config') = Terminal(plan[o].config)
    BY <2>1, <2>2, <2>5, RemovePolicyUnedited DEF UneditedInv, AsPlanned
  <2> QED BY <2>1, <2>3, <2>4, <2>6
<1>2. Init => Inv
  BY TypeInit, ClaimInit, BackedInit, FormInit, LockInit, OwnInit, UneditedInit
<1>3. Inv /\ [Next]_vars => Inv'
  BY TypeStep, ClaimStep, BackedInvStep, FormStep, LockStep, OwnStep, UneditedStep
<1> HIDE DEF Inv
<1> QED BY <1>1, <1>2, <1>3, PTL DEF Spec, UndoneLeavesNothing

-----------------------------------------------------------------------------
(* Activation and rollback promise the state of files and of systemd that the  *)
(* next operator would change: what they report is of one operator's making.   *)

Alone == \A o, p \in Operators : o = p

\* What an activation was begun on stays, its files possibly replaced by the
\* administrator's; what its last snapshot found holds until one reloads.
ActivateInv ==
  \A o \in Operators :
    /\ governed[o] => pc[o] = "check"
    /\ mode[o] = "activate" =>
         /\ policy \in Templates \cup {Foreign} /\ dropin \in {Managed, Foreign}
         /\ manifest \in Plan
         /\ governed[o] => dropin = Foreign \/ (unit = Managed /\ service.env = Managed)

\* What a rollback has removed stays removed.
RollbackInv ==
  \A o \in Operators : mode[o] = "rollback" =>
    /\ pc[o] \in {"rm_policy", "unlink_policy"} \cup ManifestPCs \cup {"reload", "restart"}
         => dropin # Managed
    /\ pc[o] \in ManifestPCs \cup {"reload", "restart"} => policy \notin Templates
    /\ pc[o] \in {"reload", "restart"} => manifest = None
    /\ pc[o] = "restart" => unit # Managed

LEMMA BeginActivateInv ==
  ASSUME TypeInv, ActivateInv, Alone, NEW o \in Operators, BeginSteps(o)
  PROVE  ActivateInv'
<1>1. LocalsOK /\ \A q \in Operators : q = o
  BY DEF TypeInv, Alone
<1>2. ~governed'[o] /\ UNCHANGED <<policy, dropin, manifest>>
  BY DEF BeginSteps, BeginApply, BeginRollback, BeginActivate, Begin, ActivateInv, disk
<1>3. CASE BeginActivate(o)
  <2>1. manifest \in Plan /\ policy \in Templates /\ dropin = Managed
    BY <1>3, InstalledPlan, PlanType DEF BeginActivate, InstallLoads, TypeInv
  <2> QED BY <1>1, <1>2, <2>1 DEF ActivateInv
<1>4. CASE BeginApply(o) \/ BeginRollback(o)
  <2>1. mode'[o] # "activate"
    BY <1>1, <1>4, LocalSteps DEF BeginApply, BeginRollback
  <2> QED BY <1>1, <1>2, <2>1 DEF ActivateInv
<1> QED BY <1>3, <1>4 DEF BeginSteps

\* The steps of an activation, which changes no file.
LEMMA ContinueActivateInv ==
  ASSUME TypeInv, ActivateInv, Alone, NEW o \in Operators, Continue(o) \/ Kill(o)
  PROVE  ActivateInv'
<1>1. /\ LocalsOK /\ Phase(o) /\ Moved(o) /\ pc[o] # "idle" /\ \A q \in Operators : q = o
  BY AtOperator, StepMoves, StepsAre, Where, Modes DEF TypeInv, Alone
<1>2. ASSUME NEW outcome, Stop(o, outcome) PROVE ActivateInv'
  BY <1>1, <1>2, LocalViews DEF ActivateInv
<1>3. CASE mode'[o] # "activate" /\ ~governed'[o]
  BY <1>1, <1>3 DEF ActivateInv
<1>4. CASE Observes(o)
  <2>1. /\ pc'[o] = "check" /\ mode'[o] = mode[o]
        /\ governed'[o] => unit = Managed /\ service.env = Managed
        /\ UNCHANGED <<policy, dropin, manifest, unit, service>>
    BY <1>1, <1>4 DEF LocalsOK, Observes, Observe, disk
  <2> QED BY <1>1, <2>1 DEF ActivateInv
<1>5. CASE (DaemonReload(o) \/ RestartService(o)) /\ \E next : Goto(o, next)
  <2>1. governed' = governed /\ mode' = mode /\ UNCHANGED <<policy, dropin, manifest>>
    BY <1>5 DEF Goto, locals, DaemonReload, RestartService, disk
  <2>2. ~governed[o]
    BY <1>5 DEF ActivateInv, DaemonReload, RestartService
  <2> QED BY <1>1, <2>1, <2>2 DEF ActivateInv
<1>6. CASE SystemdSteps(o)
  BY <1>2, <1>4, <1>5, <1>6, SystemdIs
<1>7. CASE BackupSteps(o) \/ InstallSteps(o) \/ Patch(o) \/ RemoveSteps(o)
  <2>1. /\ pc[o] \in BackupPCs \cup InstallPCs \cup PatchPCs \cup RemovePCs \cup ManifestPCs
        /\ mode[o] \in {"apply", "undo", "rollback"}
    BY <1>1, <1>7, Where, Modes
  <2>2. ~governed[o]
    BY <2>1 DEF ActivateInv, BackupPCs, InstallPCs, HeldPCs, PatchPCs, RemovePCs, ManifestPCs
  <2>3. ASSUME NEW next, Goto(o, next) \/ Undo(o, next)
        PROVE  mode'[o] # "activate" /\ ~governed'[o]
    BY <1>1, <2>1, <2>2, <2>3, LocalSteps, LocalViews
  <2>4. CASE UNCHANGED <<mode, governed>>
    BY <1>3, <2>1, <2>2, <2>4
  <2>5. ~BeginSteps(o)
    BY <1>1, Where
  <2> QED BY <1>1, <1>2, <1>3, <1>4, <2>3, <2>4, <2>5 DEF Moved
<1>8. CASE Kill(o)
  BY <1>2, <1>8 DEF Kill
<1> QED BY <1>6, <1>7, <1>8, StepsAre

\* The administrator replaces a file, systemd loads it or starts the service.
LEMMA WorldActivateInv ==
  ASSUME TypeInv, ActivateInv, World PROVE ActivateInv'
<1>1. CASE Reboot
  BY <1>1 DEF Reboot, ActivateInv
<1>2. CASE AdminFile
  BY <1>2 DEF AdminFile, ActivateInv, host, locals
<1>3. CASE AdminReload
  BY <1>3 DEF AdminReload, ActivateInv, disk, locals
<1>4. CASE ServiceFails \/ ServiceRecovers
  BY <1>4 DEF ServiceFails, ServiceRecovers, ServiceStart, ActivateInv, disk, locals, TypeInv,
     WorldOK
<1>5. CASE UNCHANGED <<pc, mode, governed, policy, dropin, manifest, unit, service>>
  BY <1>5 DEF ActivateInv
<1>6. CASE GatewayLocks \/ GatewaySaves \/ RawEdit
           \/ (\E t \in Templates : MakePlan(t)) \/ UNCHANGED vars
  BY <1>5, <1>6 DEF GatewayLocks, GatewaySaves, RawEdit, MakePlan, vars, disk, host, locals
<1> QED BY <1>1, <1>2, <1>3, <1>4, <1>6 DEF World, Environment

\* An activation that reports success leaves a service running, and to be
\* restarted, with the managed environment, its policy and manifest there and
\* whole, and the terminal off, whoever edits config.json and whatever fails
\* meanwhile.
THEOREM ActivatedMeansGoverned ==
  ASSUME Alone
  PROVE  Spec => ActivatedIsGoverned
<1> DEFINE Governed == /\ unit = Managed /\ service.env = Managed
                       /\ policy \in Templates /\ manifest \in Plan /\ config.enabled = "off"
<1>1. TypeInv /\ ActivateInv /\ [Next]_vars =>
        \A o \in Operators : Ends(o, "activated") /\ policy # Foreign /\ dropin # Foreign => Governed
  <2> SUFFICES ASSUME TypeInv, ActivateInv, [Next]_vars, NEW o \in Operators,
                      Ends(o, "activated"), policy # Foreign, dropin # Foreign
               PROVE  Governed
    OBVIOUS
  <2>1. Check(o) /\ governed[o] /\ config.enabled = "off"
    BY WhoEnds, WhatEnds DEF Results
  <2>2. mode[o] = "activate"
    BY <2>1, AtOperator DEF TypeInv, Check, Phase, Fits
  <2> QED BY <2>1, <2>2 DEF ActivateInv
<1>2. Init => ActivateInv
  BY DEF Init, ActivateInv
<1>3. TypeInv /\ ActivateInv /\ [Next]_vars => ActivateInv'
  BY BeginActivateInv, ContinueActivateInv, WorldActivateInv, NextIs, StepsAre
<1> QED BY <1>1, <1>2, <1>3, TypeInit, TypeStep, PTL DEF Spec, ActivatedIsGoverned

LEMMA BeginRollbackInv ==
  ASSUME TypeInv, RollbackInv, Alone, NEW o \in Operators, BeginSteps(o)
  PROVE  RollbackInv'
<1>1. LocalsOK /\ \A q \in Operators : q = o
  BY DEF TypeInv, Alone
<1>2. mode'[o] = "rollback" => pc'[o] = "patch_lock"
  BY <1>1, LocalSteps DEF BeginSteps, BeginApply, BeginRollback, BeginActivate
<1> QED BY <1>1, <1>2 DEF RollbackInv, ManifestPCs

\* One file after the other, then systemd's copy of the first.
LEMMA ContinueRollbackInv ==
  ASSUME TypeInv, RollbackInv, Alone, NEW o \in Operators, Continue(o) \/ Kill(o)
  PROVE  RollbackInv'
<1>1. /\ LocalsOK /\ Phase(o) /\ OperatorSteps(o) /\ Moved(o) /\ pc[o] # "idle"
      /\ \A q \in Operators : q = o
  BY AtOperator, StepMoves, StepsAre, Where, Modes DEF TypeInv, Alone
<1>2. CASE mode'[o] # "rollback"
  BY <1>1, <1>2 DEF RollbackInv
<1>3. ASSUME NEW outcome, Stop(o, outcome) PROVE RollbackInv'
  BY <1>1, <1>2, <1>3, LocalViews
<1>4. CASE mode[o] # "rollback"
  <2>1. ~BeginSteps(o)
    BY <1>1, Where
  <2>2. \A next : Goto(o, next) \/ Undo(o, next) => mode'[o] # "rollback"
    BY <1>1, <1>4, LocalSteps
  <2> QED BY <1>1, <1>2, <1>3, <1>4, <2>1, <2>2 DEF Moved, Observes
<1>5. CASE mode[o] = "rollback"
  <2>1. CASE Patch(o)
    <3>1. CASE PatchFails(o)
      BY <1>1, <1>3, <1>5, <2>1, <3>1, Where, PatchFailsIs
    <3>2. CASE PatchGoes(o)
      <4>1. pc'[o] \in HeldPCs \cup {"rm_dropin"}
        BY <1>1, <1>5, <3>2, LocalSteps DEF PatchGoes, PatchDone, LocalsOK, HeldPCs
      <4> QED BY <1>1, <4>1 DEF RollbackInv, HeldPCs, ManifestPCs
    <3> QED BY <2>1, <3>1, <3>2, PatchIs
  <2>2. CASE RemoveDropin(o)
    <3>1. CASE dropin' = None /\ Goto(o, "rm_policy")
      BY <1>1, <3>1, LocalSteps, Values DEF RollbackInv, ManifestPCs
    <3>2. CASE Goto(o, "unlink_dropin")
      BY <1>1, <3>2, LocalSteps DEF RollbackInv, ManifestPCs
    <3> QED BY <1>3, <2>2, <3>1, <3>2 DEF RemoveDropin, Compare, Unlink, Abandon
  <2>3. CASE RemovePolicy(o)
    <3>1. dropin # Managed /\ dropin' = dropin
      BY <1>5, <2>3 DEF RollbackInv, RemovePolicy, Compare, disk
    <3>2. CASE policy' = None /\ Goto(o, "rm_manifest")
      BY <1>1, <3>1, <3>2, LocalSteps, Values DEF RollbackInv, ManifestPCs
    <3>3. CASE Goto(o, "unlink_policy")
      BY <1>1, <3>1, <3>3, LocalSteps DEF RollbackInv, ManifestPCs
    <3> QED BY <1>3, <1>5, <2>3, <3>2, <3>3 DEF RemovePolicy, Compare, Unlink, Abandon
  <2>4. CASE RemoveManifest(o)
    <3>1. dropin # Managed /\ policy \notin Templates /\ UNCHANGED <<dropin, policy>>
      BY <1>5, <2>4 DEF RollbackInv, RemoveManifest, Compare, disk, ManifestPCs
    <3>2. CASE manifest' = None /\ Goto(o, "reload")
      BY <1>1, <3>1, <3>2, LocalSteps DEF RollbackInv, ManifestPCs
    <3>3. CASE Goto(o, "unlink_manifest")
      BY <1>1, <3>1, <3>3, LocalSteps DEF RollbackInv, ManifestPCs
    <3> QED BY <1>3, <2>4, <3>2, <3>3 DEF RemoveManifest, Compare, Unlink, Abandon
  <2>5. CASE DaemonReload(o)
    <3>1. CASE unit' = dropin /\ Goto(o, "restart")
      <4>1. dropin # Managed /\ policy \notin Templates /\ manifest = None /\ UNCHANGED disk
        BY <1>5, <2>5 DEF RollbackInv, DaemonReload
      <4> QED BY <1>1, <3>1, <4>1, LocalSteps DEF RollbackInv, disk
    <3> QED BY <1>3, <2>5, <3>1 DEF DaemonReload, CommandFails
  <2>6. CASE RestartService(o)
    BY <1>3, <1>5, <2>6 DEF RestartService, CommandFails
  <2>7. CASE Kill(o)
    BY <1>3, <2>7 DEF Kill
  <2>8. ~BackupSteps(o) /\ ~InstallSteps(o) /\ ~Observe(o) /\ ~Check(o)
    BY <1>1, <1>5, Where, Modes DEF Observe, Check, Phase, Fits
  <2> QED BY <2>1, <2>2, <2>3, <2>4, <2>5, <2>6, <2>7, <2>8, StepsAre DEF RemoveSteps, SystemdSteps
<1> QED BY <1>4, <1>5

LEMMA WorldRollbackInv ==
  ASSUME TypeInv, RollbackInv, World PROVE RollbackInv'
<1>1. CASE Reboot
  BY <1>1 DEF Reboot, RollbackInv
<1>2. CASE AdminFile
  BY <1>2, ValuesAssumption DEF AdminFile, RollbackInv, host
<1>3. CASE AdminReload
  <2>1. unit' = dropin /\ UNCHANGED <<policy, dropin, manifest, pc, mode>>
    BY <1>3 DEF AdminReload, disk
  <2> QED BY <2>1 DEF RollbackInv
<1>4. CASE UNCHANGED <<pc, mode, policy, dropin, manifest, unit>>
  BY <1>4 DEF RollbackInv
<1>5. CASE GatewayLocks \/ GatewaySaves \/ RawEdit \/ ServiceFails \/ ServiceRecovers
           \/ (\E t \in Templates : MakePlan(t)) \/ UNCHANGED vars
  BY <1>4, <1>5 DEF GatewayLocks, GatewaySaves, RawEdit, ServiceFails, ServiceRecovers,
     MakePlan, vars, disk, host
<1> QED BY <1>1, <1>2, <1>3, <1>5 DEF World, Environment

\* A rollback that reports success leaves no managed file, and neither systemd
\* nor the service it restarted with the managed environment.
THEOREM RolledBackMeansClean ==
  ASSUME Alone
  PROVE  Spec => RolledBackIsClean
<1> DEFINE Clean == /\ policy' \notin Templates /\ dropin' # Managed /\ manifest' = None
                    /\ unit' # Managed /\ service'.env # Managed
<1>1. TypeInv /\ RollbackInv /\ [Next]_vars =>
        \A o \in Operators : Ends(o, "rolled_back") => Clean
  <2> SUFFICES ASSUME TypeInv, RollbackInv, [Next]_vars, NEW o \in Operators,
                      Ends(o, "rolled_back")
               PROVE  Clean
    OBVIOUS
  <2>1. RestartService(o) /\ mode[o] = "rollback" /\ ServiceStart
    BY WhoEnds, WhatEnds DEF Results
  <2>2. UNCHANGED <<policy, dropin, manifest, unit>> /\ service'.env = unit /\ pc[o] = "restart"
    BY <2>1 DEF RestartService, ServiceStart, disk
  <2> QED BY <2>1, <2>2 DEF RollbackInv
<1>2. Init => RollbackInv
  BY DEF Init, RollbackInv
<1>3. TypeInv /\ RollbackInv /\ [Next]_vars => RollbackInv'
  BY BeginRollbackInv, ContinueRollbackInv, WorldRollbackInv, NextIs, StepsAre
<1> QED BY <1>1, <1>2, <1>3, TypeInit, TypeStep, PTL DEF Spec, RolledBackIsClean

=============================================================================
