-------------------------- MODULE GatewaySetup_proofs --------------------------
(* Proofs about GatewaySetup, for every number of integration files, saves,    *)
(* faults and, but where a theorem says so, operators at the same time.        *)
EXTENDS GatewaySetup, TLAPS

\* A process that has begun holds the document it read; there is a view of the
\* document exactly while the lock is held; and who is about to write the
\* retirement holds the lock and has the document of its plan in view.
ReadInv ==
  /\ \A o \in Operators: pc[o] # "idle" => read[o] # None
  /\ lock = Free <=> view = None
  /\ \A o \in Operators: pc[o] = "retire_write" => lock = o /\ view = read[o]

\* What integrate found absent is still to be written, and the rest is whole:
\* nothing ever touches a whole file, and nothing stops the timer.
FilesInv ==
  \A o \in Operators:
    /\ pc[o] = "files" => \A f \in Files \ todo[o]: files[f] = "whole"
    /\ pc[o] \in {"backup", "compare", "replace", "timer", "restart", "active"} =>
         \A f \in Files: files[f] = "whole"
    /\ pc[o] \in {"restart", "active"} => timer

\* The backup a process has made, or found, stays.
BackupInv ==
  \A o \in Operators:
    /\ pc[o] \in {"compare", "replace"} => BackupOf("config", read[o]) \in backups
    /\ pc[o] \in {"retire", "retire_write"} => BackupOf("hook", read[o]) \in backups

SetupInv == TypeOK /\ ReadInv /\ FilesInv /\ BackupInv

\* Once the entry is retired nothing holds a document with it: neither the file,
\* nor what the Gateway is about to save, nor, after the restart, its process.
RetiredInv ==
  \A o \in Operators:
    /\ pc[o] \in {"confirm", "restart_mcp", "observe"} =>
         "deny" \notin config.hooks /\ (view # None => "deny" \notin view.hooks)
    /\ pc[o] = "observe" => "deny" \notin running.hooks

-----------------------------------------------------------------------------
(* What every step leaves alone.                                             *)

\* A process whose own state a step does not touch.
Same(o) == pc'[o] = pc[o] /\ todo'[o] = todo[o] /\ read'[o] = read[o] /\ change'[o] = change[o]

\* Whole files stay whole, backups stay, and the timer stays active.
Grows ==
  /\ \A f \in Files: files[f] = "whole" => files'[f] = "whole"
  /\ backups \subseteq backups'
  /\ timer => timer'

ByNobody ==
  \/ \E retire \in BOOLEAN: MakePlan(retire)
  \/ GatewayLocks \/ GatewaySaves \/ GatewayFails \/ GatewayRecovers \/ PolicyRemoved

By(o) == Integrate(o) \/ ManageMcp(o) \/ Kill(o)

\* A step of one process leaves the state of the others, whole files and backups.
LEMMA OwnStep ==
  ASSUME TypeOK, NEW o \in Operators, By(o)
  PROVE Grows /\ \A p \in Operators \ {o}: Same(p)
<1>1. CASE \E restart \in BOOLEAN: BeginIntegrate(o, restart)
  BY <1>1 DEF BeginIntegrate, Begin, locals, counts, host, gateway, TypeOK, Grows, Same
<1>2. CASE WriteFile(o)
  BY <1>2 DEF WriteFile, Stop, Fault, locals, counts, host, gateway, TypeOK, Grows, Same
<1>3. CASE FilesWritten(o)
  BY <1>3 DEF FilesWritten, Goto, locals, counts, host, gateway, TypeOK, Grows, Same
<1>4. CASE BackupConfig(o)
  BY <1>4 DEF BackupConfig, MakeBackup, Goto, Stop, Fault, locals, counts, host, gateway, TypeOK, Grows, Same
<1>5. CASE Compare(o)
  BY <1>5 DEF Compare, Goto, Stop, Fault, locals, counts, host, gateway, TypeOK, Grows, Same
<1>6. CASE Replace(o)
  BY <1>6 DEF Replace, WithTelemetry, Goto, Stop, Fault, locals, counts, host, gateway, TypeOK, Grows, Same
<1>7. CASE StartTimer(o)
  BY <1>7 DEF StartTimer, Goto, Stop, Fault, locals, counts, host, gateway, TypeOK, Grows, Same
<1>8. CASE RestartForTelemetry(o)
  BY <1>8 DEF RestartForTelemetry, RestartGateway, GatewayDies, Dies, GatewayStarts, Goto, Stop, Fault, locals, counts, host, gateway, TypeOK, Grows, Same
<1>9. CASE CheckActive(o)
  BY <1>9 DEF CheckActive, Stop, Fault, locals, counts, host, gateway, TypeOK, Grows, Same
<1>10. CASE BeginRegister(o)
  BY <1>10 DEF BeginRegister, Begin, locals, counts, host, gateway, TypeOK, Grows, Same
<1>11. CASE Register(o)
  BY <1>11 DEF Register, Goto, Stop, Fault, locals, counts, host, gateway, TypeOK, Grows, Same
<1>12. CASE Recheck(o)
  BY <1>12 DEF Recheck, Goto, Stop, locals, counts, host, gateway, TypeOK, Grows, Same
<1>13. CASE BackupHook(o)
  BY <1>13 DEF BackupHook, MakeBackup, Goto, Stop, Fault, locals, counts, host, gateway, TypeOK, Grows, Same
<1>14. CASE RetireLook(o)
  BY <1>14 DEF RetireLook, SameConfig, Goto, Stop, Fault, locals, counts, host, gateway, TypeOK, Grows, Same
<1>44. CASE RetireWrite(o)
  BY <1>44 DEF RetireWrite, Goto, Stop, Fault, locals, counts, host, gateway, TypeOK, Grows, Same
<1>15. CASE Confirm(o)
  BY <1>15 DEF Confirm, Goto, Stop, locals, counts, host, gateway, TypeOK, Grows, Same
<1>16. CASE RestartForHook(o)
  BY <1>16 DEF RestartForHook, RestartGateway, GatewayDies, Dies, GatewayStarts, Goto, Stop, Fault, locals, counts, host, gateway, TypeOK, Grows, Same
<1>17. CASE Observe(o)
  BY <1>17 DEF Observe, Goto, Stop, locals, counts, host, gateway, TypeOK, Grows, Same
<1>18. CASE Kill(o)
  BY <1>18 DEF Kill, Dies, Stop, Fault, locals, counts, host, gateway, TypeOK, Grows, Same
<1> QED
  BY <1>1, <1>2, <1>3, <1>4, <1>5, <1>6, <1>7, <1>8, <1>9, <1>10, <1>11, <1>12, <1>13, <1>14, <1>44, <1>15, <1>16, <1>17, <1>18 DEF By, Integrate, ManageMcp

\* A step of nobody leaves all of them.
LEMMA NobodysStep ==
  ASSUME ByNobody
  PROVE Grows /\ \A p \in Operators: Same(p)
  BY DEF ByNobody, MakePlan, GatewayLocks, GatewaySaves, GatewayFails, GatewayRecovers, PolicyRemoved, locals, counts, host, gateway, Grows, Same

\* The types of what a process keeps for itself, and of all the rest.
ProcTypes ==
  /\ pc \in [Operators -> PCs]
  /\ todo \in [Operators -> SUBSET Files]
  /\ read \in [Operators -> Config \cup {None}]
  /\ change \in [Operators -> BOOLEAN]
  /\ result \in [Operators -> {"none", "failed", "killed", "configured", "registered", "retired"}]

HostTypes ==
  /\ lock \in {Free, Gateway} \cup Operators /\ view \in Config \cup {None}
  /\ running \in [up: BOOLEAN, governed: BOOLEAN, telemetry: BOOLEAN,
                  hooks: SUBSET {"deny", "other"}]
  /\ policy \in BOOLEAN /\ timer \in BOOLEAN /\ registered \in BOOLEAN
  /\ files \in [Files -> {"absent", "partial", "whole"}]
  /\ receipt \in Plan \cup {None}
  /\ outdated \subseteq Operators
  /\ saves \in Nat /\ faults \in Nat

BackupTypes == backups \subseteq Backup /\ stubs \subseteq Backup

\* Wherever a process goes, what it keeps has its types.
LEMMA ProcTypesKept ==
  ASSUME TypeOK, NEW o \in Operators, By(o)
  PROVE ProcTypes'
<1> DEFINE outcomes == {"none", "failed", "killed", "configured", "registered", "retired"}
<1>1. \A next \in PCs: Goto(o, next) => ProcTypes'
  BY DEF Goto, locals, TypeOK, ProcTypes
<1>2. \A outcome \in outcomes: Stop(o, outcome) => ProcTypes'
  BY DEF Stop, TypeOK, ProcTypes, PCs
<1>3. \A next \in PCs, absent \in SUBSET Files, changes \in BOOLEAN:
        Begin(o, next, absent, changes) => ProcTypes'
  BY DEF Begin, TypeOK, ProcTypes
<1>4. /\ "failed" \in outcomes /\ "killed" \in outcomes /\ "configured" \in outcomes
      /\ "registered" \in outcomes /\ "retired" \in outcomes
  OBVIOUS
<1>5. change[o] \in BOOLEAN /\ (receipt # None => receipt.hook \in BOOLEAN)
  BY DEF TypeOK, Plan
<1> HIDE DEF outcomes
<1>10. CASE \E restart \in BOOLEAN: BeginIntegrate(o, restart)
  BY <1>10, <1>3, <1>5 DEF BeginIntegrate, PCs, TypeOK, Config
<1>11. CASE WriteFile(o)
  <2>1. CASE Stop(o, "failed")
    BY <2>1, <1>2, <1>4
  <2>2. CASE \E f \in todo[o]: todo' = [todo EXCEPT ![o] = @ \ {f}] /\ UNCHANGED <<pc, read, change, result, counts>>
    BY <2>2 DEF TypeOK, ProcTypes
  <2> QED
    BY <1>11, <2>1, <2>2 DEF WriteFile
<1>12. CASE FilesWritten(o)
  BY <1>12, <1>1, <1>2, <1>4, <1>5 DEF FilesWritten, PCs
<1>13. CASE BackupConfig(o)
  BY <1>13, <1>1, <1>2, <1>4, <1>5 DEF BackupConfig, MakeBackup, PCs
<1>14. CASE Compare(o)
  BY <1>14, <1>1, <1>2, <1>4, <1>5 DEF Compare, PCs
<1>15. CASE Replace(o)
  BY <1>15, <1>1, <1>2, <1>4, <1>5 DEF Replace, WithTelemetry, PCs
<1>16. CASE StartTimer(o)
  BY <1>16, <1>1, <1>2, <1>4, <1>5 DEF StartTimer, PCs
<1>17. CASE RestartForTelemetry(o)
  BY <1>17, <1>1, <1>2, <1>4, <1>5 DEF RestartForTelemetry, RestartGateway, PCs
<1>18. CASE CheckActive(o)
  BY <1>18, <1>1, <1>2, <1>4, <1>5 DEF CheckActive, PCs
<1>19. CASE BeginRegister(o)
  BY <1>19, <1>3, <1>5 DEF BeginRegister, PCs, TypeOK, Config
<1>20. CASE Register(o)
  BY <1>20, <1>1, <1>2, <1>4, <1>5 DEF Register, PCs
<1>21. CASE Recheck(o)
  BY <1>21, <1>1, <1>2, <1>4, <1>5 DEF Recheck, PCs
<1>22. CASE BackupHook(o)
  BY <1>22, <1>1, <1>2, <1>4, <1>5 DEF BackupHook, MakeBackup, PCs
<1>23. CASE RetireLook(o)
  BY <1>23, <1>1, <1>2, <1>4, <1>5 DEF RetireLook, SameConfig, PCs
<1>53. CASE RetireWrite(o)
  BY <1>53, <1>1, <1>2, <1>4, <1>5 DEF RetireWrite, PCs
<1>24. CASE Confirm(o)
  BY <1>24, <1>1, <1>2, <1>4, <1>5 DEF Confirm, PCs
<1>25. CASE RestartForHook(o)
  BY <1>25, <1>1, <1>2, <1>4, <1>5 DEF RestartForHook, RestartGateway, PCs
<1>26. CASE Observe(o)
  BY <1>26, <1>1, <1>2, <1>4, <1>5 DEF Observe, PCs
<1>27. CASE Kill(o)
  BY <1>27, <1>1, <1>2, <1>4, <1>5 DEF Kill, PCs
<1> QED
  BY <1>10, <1>11, <1>12, <1>13, <1>14, <1>15, <1>16, <1>17, <1>18, <1>19, <1>20, <1>21, <1>22, <1>23, <1>53, <1>24, <1>25, <1>26, <1>27 DEF By, Integrate, ManageMcp

\* Whatever is written to config.json is a document.
LEMMA ConfigKept ==
  ASSUME SetupInv, Next
  PROVE config' \in Config
<1>1. config \in Config /\ view \in Config \cup {None}
  BY DEF SetupInv, TypeOK
<1>2. CASE GatewaySaves
  <2>1. view \in Config
    BY <1>1, <1>2, SetupAssumption DEF SetupInv, ReadInv, GatewaySaves
  <2>2. [view EXCEPT !.peer = ~@] \in Config
    BY <2>1 DEF Config
  <2>3. [view EXCEPT !.hooks = IF "other" \in @ THEN @ \ {"other"} ELSE @ \cup {"other"}] \in Config
    BY <2>1 DEF Config
  <2> QED
    BY <1>2, <2>2, <2>3 DEF GatewaySaves
<1>3. ASSUME NEW o \in Operators, Replace(o) PROVE config' \in Config
  <2>1. read[o] \in Config
    BY <1>3, SetupAssumption DEF SetupInv, ReadInv, TypeOK, Replace
  <2> QED
    BY <1>1, <1>3, <2>1 DEF Replace, WithTelemetry, Config
<1>4. ASSUME NEW o \in Operators, RetireWrite(o) PROVE config' \in Config
  <2>1. read[o] \in Config /\ view \in Config
    BY <1>4, SetupAssumption DEF SetupInv, ReadInv, TypeOK, RetireWrite
  <2> QED
    BY <1>1, <1>4, <2>1 DEF RetireWrite, Config
<1>5. ASSUME NEW o \in Operators, By(o), ~Replace(o), ~RetireWrite(o) PROVE config' = config
  BY <1>5 DEF By, Integrate, ManageMcp, BeginIntegrate, WriteFile, FilesWritten, BackupConfig,
    MakeBackup, Compare, StartTimer, RestartForTelemetry, RestartGateway, CheckActive,
    BeginRegister, Register, Recheck, BackupHook, RetireLook, Confirm, RestartForHook, Observe, Kill
<1>6. ASSUME ByNobody, ~GatewaySaves PROVE config' = config
  BY <1>6 DEF ByNobody, MakePlan, GatewayLocks, GatewayFails, GatewayRecovers, PolicyRemoved
<1> QED
  BY <1>1, <1>2, <1>3, <1>4, <1>5, <1>6 DEF Next, By, ByNobody

\* A backup is named by a document.
LEMMA BackupsKept ==
  ASSUME SetupInv, Next
  PROVE BackupTypes'
<1>1. BackupTypes
  BY DEF SetupInv, TypeOK, BackupTypes
<1>2. ASSUME NEW o \in Operators, BackupConfig(o) \/ BackupHook(o) PROVE BackupTypes'
  <2>1. read[o] \in Config
    BY <1>2, SetupAssumption DEF SetupInv, ReadInv, TypeOK, BackupConfig, BackupHook
  <2>2. \A kind \in {"config", "hook"}: BackupOf(kind, read[o]) \in Backup
    BY <2>1 DEF BackupOf, Backup, Config
  <2> QED
    BY <1>1, <1>2, <2>2 DEF BackupConfig, BackupHook, MakeBackup, BackupTypes
<1>3. ASSUME NEW o \in Operators, By(o), ~BackupConfig(o), ~BackupHook(o)
      PROVE UNCHANGED <<backups, stubs>>
  BY <1>3 DEF By, Integrate, ManageMcp, BeginIntegrate, WriteFile, FilesWritten, Compare, Replace,
    StartTimer, RestartForTelemetry, RestartGateway, CheckActive, BeginRegister, Register,
    Recheck, RetireLook, RetireWrite, Confirm, RestartForHook, Observe, Kill, host
<1>4. ASSUME ByNobody PROVE UNCHANGED <<backups, stubs>>
  BY <1>4 DEF ByNobody, MakePlan, GatewayLocks, GatewaySaves, GatewayFails, GatewayRecovers,
    PolicyRemoved, host
<1> QED
  BY <1>1, <1>2, <1>3, <1>4 DEF Next, By, ByNobody, BackupTypes

\* A start loads what there is.
LEMMA StartTypes ==
  ASSUME TypeOK, GatewayStarts
  PROVE /\ running' \in [up: BOOLEAN, governed: BOOLEAN, telemetry: BOOLEAN,
                         hooks: SUBSET {"deny", "other"}]
        /\ outdated' \subseteq Operators /\ receipt' \in Plan \cup {None}
  BY DEF GatewayStarts, TypeOK, Config

\* The rest keeps its types.
LEMMA HostTypesKept ==
  ASSUME SetupInv, Next
  PROVE HostTypes'
<1> USE SetupAssumption
<1>1. HostTypes /\ TypeOK /\ config \in Config
  BY DEF SetupInv, TypeOK, HostTypes
<1>2. \A hook \in BOOLEAN: CurrentPlan(hook) \in Plan
  BY <1>1 DEF CurrentPlan, Plan, TypeOK
<1>3. [running EXCEPT !.up = FALSE] \in [up: BOOLEAN, governed: BOOLEAN, telemetry: BOOLEAN,
                                         hooks: SUBSET {"deny", "other"}]
  BY <1>1 DEF HostTypes
<1>4. /\ GatewayDies => lock' \in {Free, Gateway} \cup Operators /\ view' \in Config \cup {None}
      /\ \A o \in Operators:
           Dies(o) => lock' \in {Free, Gateway} \cup Operators /\ view' \in Config \cup {None}
  BY <1>1 DEF GatewayDies, Dies, HostTypes
<1>5. Fault => faults' \in Nat /\ saves' \in Nat
  BY <1>1 DEF Fault, HostTypes
<1>6. \A f \in Files, content \in {"absent", "partial", "whole"}:
        [files EXCEPT ![f] = content] \in [Files -> {"absent", "partial", "whole"}]
  BY <1>1 DEF HostTypes
<1>10. ASSUME NEW o \in Operators, NEW restart \in BOOLEAN, BeginIntegrate(o, restart) PROVE HostTypes'
  BY <1>1, <1>10 DEF BeginIntegrate, gateway, host, counts, HostTypes
<1>11. ASSUME NEW o \in Operators, WriteFile(o) PROVE HostTypes'
  <2>1. todo[o] \subseteq Files
    BY <1>1 DEF TypeOK
  <2> QED
    BY <1>1, <1>5, <1>6, <1>11, <2>1 DEF WriteFile, gateway, host, counts, HostTypes
<1>12. ASSUME NEW o \in Operators, FilesWritten(o) PROVE HostTypes'
  BY <1>1, <1>12 DEF FilesWritten, gateway, host, counts, HostTypes
<1>13. ASSUME NEW o \in Operators, BackupConfig(o) PROVE HostTypes'
  BY <1>1, <1>5, <1>13 DEF BackupConfig, MakeBackup, gateway, host, counts, HostTypes
<1>14. ASSUME NEW o \in Operators, Compare(o) PROVE HostTypes'
  BY <1>1, <1>5, <1>14 DEF Compare, gateway, host, counts, HostTypes
<1>15. ASSUME NEW o \in Operators, Replace(o) PROVE HostTypes'
  BY <1>1, <1>5, <1>15 DEF Replace, WithTelemetry, gateway, host, counts, HostTypes
<1>16. ASSUME NEW o \in Operators, StartTimer(o) PROVE HostTypes'
  BY <1>1, <1>5, <1>16 DEF StartTimer, gateway, host, counts, HostTypes
<1>17. ASSUME NEW o \in Operators, RestartForTelemetry(o) PROVE HostTypes'
  BY <1>1, <1>3, <1>4, <1>5, <1>17, StartTypes DEF RestartForTelemetry, RestartGateway, gateway, host, counts, HostTypes
<1>18. ASSUME NEW o \in Operators, CheckActive(o) PROVE HostTypes'
  BY <1>1, <1>5, <1>18 DEF CheckActive, gateway, host, counts, HostTypes
<1>19. ASSUME NEW o \in Operators, BeginRegister(o) PROVE HostTypes'
  BY <1>1, <1>19 DEF BeginRegister, gateway, host, counts, HostTypes, PolicyProof
<1>20. ASSUME NEW o \in Operators, Register(o) PROVE HostTypes'
  BY <1>1, <1>5, <1>20 DEF Register, gateway, host, counts, HostTypes
<1>21. ASSUME NEW o \in Operators, Recheck(o) PROVE HostTypes'
  BY <1>1, <1>21 DEF Recheck, gateway, host, counts, HostTypes
<1>22. ASSUME NEW o \in Operators, BackupHook(o) PROVE HostTypes'
  BY <1>1, <1>5, <1>22 DEF BackupHook, MakeBackup, gateway, host, counts, HostTypes
<1>23. ASSUME NEW o \in Operators, RetireLook(o) PROVE HostTypes'
  BY <1>1, <1>5, <1>23 DEF RetireLook, SameConfig, gateway, host, counts, HostTypes
<1>53. ASSUME NEW o \in Operators, RetireWrite(o) PROVE HostTypes'
  BY <1>1, <1>5, <1>53 DEF RetireWrite, gateway, host, counts, HostTypes
<1>24. ASSUME NEW o \in Operators, Confirm(o) PROVE HostTypes'
  BY <1>1, <1>24 DEF Confirm, gateway, host, counts, HostTypes
<1>25. ASSUME NEW o \in Operators, RestartForHook(o) PROVE HostTypes'
  BY <1>1, <1>3, <1>4, <1>5, <1>25, StartTypes DEF RestartForHook, RestartGateway, gateway, host, counts, HostTypes
<1>26. ASSUME NEW o \in Operators, Observe(o) PROVE HostTypes'
  BY <1>1, <1>26 DEF Observe, gateway, host, counts, HostTypes
<1>27. ASSUME NEW o \in Operators, Kill(o) PROVE HostTypes'
  BY <1>1, <1>4, <1>5, <1>27 DEF Kill, gateway, host, counts, HostTypes
<1>28. ASSUME NEW retire \in BOOLEAN, MakePlan(retire) PROVE HostTypes'
  BY <1>1, <1>2, <1>3, <1>4, <1>28, StartTypes DEF MakePlan, gateway, host, counts, HostTypes
<1>29. ASSUME GatewayLocks PROVE HostTypes'
  BY <1>1, <1>2, <1>3, <1>4, <1>29, StartTypes DEF GatewayLocks, gateway, host, counts, HostTypes
<1>30. ASSUME GatewaySaves PROVE HostTypes'
  BY <1>1, <1>2, <1>3, <1>4, <1>30, StartTypes DEF GatewaySaves, gateway, host, counts, HostTypes
<1>31. ASSUME GatewayFails PROVE HostTypes'
  BY <1>1, <1>2, <1>3, <1>4, <1>31, StartTypes DEF GatewayFails, gateway, host, counts, HostTypes
<1>32. ASSUME GatewayRecovers PROVE HostTypes'
  BY <1>1, <1>2, <1>3, <1>4, <1>32, StartTypes DEF GatewayRecovers, gateway, host, counts, HostTypes
<1>33. ASSUME PolicyRemoved PROVE HostTypes'
  BY <1>1, <1>2, <1>3, <1>4, <1>33, StartTypes DEF PolicyRemoved, gateway, host, counts, HostTypes
<1> QED
  BY <1>10, <1>11, <1>12, <1>13, <1>14, <1>15, <1>16, <1>17, <1>18, <1>19, <1>20, <1>21, <1>22, <1>23, <1>53, <1>24, <1>25, <1>26, <1>27, <1>28, <1>29, <1>30, <1>31, <1>32, <1>33 DEF Next, Integrate, ManageMcp

\* Every step keeps every type.
LEMMA TypesKept ==
  ASSUME SetupInv, [Next]_vars
  PROVE TypeOK'
<1>1. CASE UNCHANGED vars
  BY <1>1 DEF vars, TypeOK, SetupInv
<1>2. CASE Next
  <2>1. ProcTypes'
    <3>1. ASSUME NEW o \in Operators, By(o) PROVE ProcTypes'
      BY <3>1, ProcTypesKept DEF SetupInv
    <3>2. CASE ByNobody
      BY <3>2 DEF ByNobody, MakePlan, GatewayLocks, GatewaySaves, GatewayFails, GatewayRecovers,
        PolicyRemoved, locals, ProcTypes, SetupInv, TypeOK
    <3> QED
      BY <1>2, <3>1, <3>2 DEF Next, By, ByNobody
  <2> QED
    BY <1>2, <2>1, ConfigKept, BackupsKept, HostTypesKept
      DEF TypeOK, ProcTypes, HostTypes, BackupTypes
<1> QED
  BY <1>1, <1>2

-----------------------------------------------------------------------------
(* The inductive invariant.                                                  *)

\* One process's part of each conjunct.
HasRead(o) == pc[o] # "idle" => read[o] # None

Written(o) ==
  /\ pc[o] = "files" => \A f \in Files \ todo[o]: files[f] = "whole"
  /\ pc[o] \in {"backup", "compare", "replace", "timer", "restart", "active"} =>
       \A f \in Files: files[f] = "whole"
  /\ pc[o] \in {"restart", "active"} => timer

BackedUp(o) ==
  /\ pc[o] \in {"compare", "replace"} => BackupOf("config", read[o]) \in backups
  /\ pc[o] \in {"retire", "retire_write"} => BackupOf("hook", read[o]) \in backups

\* A process begins by reading the document.
LEMMA OwnRead ==
  ASSUME SetupInv, NEW o \in Operators, By(o)
  PROVE HasRead(o)'
<1>1. TypeOK /\ HasRead(o) /\ config # None
  BY SetupAssumption DEF SetupInv, ReadInv, TypeOK, HasRead
<1>10. CASE \E restart \in BOOLEAN: BeginIntegrate(o, restart)
  BY <1>1, <1>10 DEF BeginIntegrate, TypeOK, HasRead, locals, Begin
<1>11. CASE WriteFile(o)
  BY <1>1, <1>11 DEF WriteFile, Fault, TypeOK, HasRead, locals, Goto, Stop
<1>12. CASE FilesWritten(o)
  BY <1>1, <1>12 DEF FilesWritten, TypeOK, HasRead, locals, Goto, Stop
<1>13. CASE BackupConfig(o)
  BY <1>1, <1>13 DEF BackupConfig, MakeBackup, Fault, TypeOK, HasRead, locals, Goto, Stop
<1>14. CASE Compare(o)
  BY <1>1, <1>14 DEF Compare, Fault, TypeOK, HasRead, locals, Goto, Stop
<1>15. CASE Replace(o)
  BY <1>1, <1>15 DEF Replace, WithTelemetry, Fault, TypeOK, HasRead, locals, Goto, Stop
<1>16. CASE StartTimer(o)
  BY <1>1, <1>16 DEF StartTimer, Fault, TypeOK, HasRead, locals, Goto, Stop
<1>17. CASE RestartForTelemetry(o)
  BY <1>1, <1>17 DEF RestartForTelemetry, RestartGateway, GatewayDies, Dies, GatewayStarts, Fault, TypeOK, HasRead, locals, Goto, Stop
<1>18. CASE CheckActive(o)
  BY <1>1, <1>18 DEF CheckActive, Fault, TypeOK, HasRead, locals, Goto, Stop
<1>19. CASE BeginRegister(o)
  BY <1>1, <1>19 DEF BeginRegister, TypeOK, HasRead, locals, Begin
<1>20. CASE Register(o)
  BY <1>1, <1>20 DEF Register, Fault, TypeOK, HasRead, locals, Goto, Stop
<1>21. CASE Recheck(o)
  BY <1>1, <1>21 DEF Recheck, TypeOK, HasRead, locals, Goto, Stop
<1>22. CASE BackupHook(o)
  BY <1>1, <1>22 DEF BackupHook, MakeBackup, Fault, TypeOK, HasRead, locals, Goto, Stop
<1>23. CASE RetireLook(o)
  BY <1>1, <1>23 DEF RetireLook, SameConfig, Fault, TypeOK, HasRead, locals, Goto, Stop
<1>53. CASE RetireWrite(o)
  BY <1>1, <1>53 DEF RetireWrite, Fault, TypeOK, HasRead, locals, Goto, Stop
<1>24. CASE Confirm(o)
  BY <1>1, <1>24 DEF Confirm, TypeOK, HasRead, locals, Goto, Stop
<1>25. CASE RestartForHook(o)
  BY <1>1, <1>25 DEF RestartForHook, RestartGateway, GatewayDies, Dies, GatewayStarts, Fault, TypeOK, HasRead, locals, Goto, Stop
<1>26. CASE Observe(o)
  BY <1>1, <1>26 DEF Observe, TypeOK, HasRead, locals, Goto, Stop
<1>27. CASE Kill(o)
  BY <1>1, <1>27 DEF Kill, Dies, Fault, TypeOK, HasRead, locals, Goto, Stop
<1> QED
  BY <1>10, <1>11, <1>12, <1>13, <1>14, <1>15, <1>16, <1>17, <1>18, <1>19, <1>20, <1>21, <1>22, <1>23, <1>53, <1>24, <1>25, <1>26, <1>27 DEF By, Integrate, ManageMcp

\* It goes on past the files only when each is whole.
LEMMA OwnFiles ==
  ASSUME SetupInv, NEW o \in Operators, By(o)
  PROVE Written(o)'
<1>1. TypeOK /\ Written(o)
  BY DEF SetupInv, FilesInv, Written
<1>10. CASE \E restart \in BOOLEAN: BeginIntegrate(o, restart)
  BY <1>1, <1>10 DEF BeginIntegrate, TypeOK, Written, locals, host, FilesMatch, Begin
<1>11. CASE WriteFile(o)
  BY <1>1, <1>11 DEF WriteFile, Fault, TypeOK, Written, locals, host, FilesMatch, Goto, Stop
<1>12. CASE FilesWritten(o)
  BY <1>1, <1>12 DEF FilesWritten, TypeOK, Written, locals, host, FilesMatch, Goto, Stop
<1>13. CASE BackupConfig(o)
  BY <1>1, <1>13 DEF BackupConfig, MakeBackup, Fault, TypeOK, Written, locals, host, FilesMatch, Goto, Stop
<1>14. CASE Compare(o)
  BY <1>1, <1>14 DEF Compare, Fault, TypeOK, Written, locals, host, FilesMatch, Goto, Stop
<1>15. CASE Replace(o)
  BY <1>1, <1>15 DEF Replace, WithTelemetry, Fault, TypeOK, Written, locals, host, FilesMatch, Goto, Stop
<1>16. CASE StartTimer(o)
  BY <1>1, <1>16 DEF StartTimer, Fault, TypeOK, Written, locals, host, FilesMatch, Goto, Stop
<1>17. CASE RestartForTelemetry(o)
  BY <1>1, <1>17 DEF RestartForTelemetry, RestartGateway, GatewayDies, Dies, GatewayStarts, Fault, TypeOK, Written, locals, host, FilesMatch, Goto, Stop
<1>18. CASE CheckActive(o)
  BY <1>1, <1>18 DEF CheckActive, Fault, TypeOK, Written, locals, host, FilesMatch, Goto, Stop
<1>19. CASE BeginRegister(o)
  BY <1>1, <1>19 DEF BeginRegister, TypeOK, Written, locals, host, FilesMatch, Begin
<1>20. CASE Register(o)
  BY <1>1, <1>20 DEF Register, Fault, TypeOK, Written, locals, host, FilesMatch, Goto, Stop
<1>21. CASE Recheck(o)
  BY <1>1, <1>21 DEF Recheck, TypeOK, Written, locals, host, FilesMatch, Goto, Stop
<1>22. CASE BackupHook(o)
  BY <1>1, <1>22 DEF BackupHook, MakeBackup, Fault, TypeOK, Written, locals, host, FilesMatch, Goto, Stop
<1>23. CASE RetireLook(o)
  BY <1>1, <1>23 DEF RetireLook, SameConfig, Fault, TypeOK, Written, locals, host, FilesMatch, Goto, Stop
<1>53. CASE RetireWrite(o)
  BY <1>1, <1>53 DEF RetireWrite, Fault, TypeOK, Written, locals, host, FilesMatch, Goto, Stop
<1>24. CASE Confirm(o)
  BY <1>1, <1>24 DEF Confirm, TypeOK, Written, locals, host, FilesMatch, Goto, Stop
<1>25. CASE RestartForHook(o)
  BY <1>1, <1>25 DEF RestartForHook, RestartGateway, GatewayDies, Dies, GatewayStarts, Fault, TypeOK, Written, locals, host, FilesMatch, Goto, Stop
<1>26. CASE Observe(o)
  BY <1>1, <1>26 DEF Observe, TypeOK, Written, locals, host, FilesMatch, Goto, Stop
<1>27. CASE Kill(o)
  BY <1>1, <1>27 DEF Kill, Dies, Fault, TypeOK, Written, locals, host, FilesMatch, Goto, Stop
<1> QED
  BY <1>10, <1>11, <1>12, <1>13, <1>14, <1>15, <1>16, <1>17, <1>18, <1>19, <1>20, <1>21, <1>22, <1>23, <1>53, <1>24, <1>25, <1>26, <1>27 DEF By, Integrate, ManageMcp

\* It goes on to the change only when the backup of what it read is there.
LEMMA OwnBackup ==
  ASSUME SetupInv, NEW o \in Operators, By(o)
  PROVE BackedUp(o)'
<1>1. TypeOK /\ BackedUp(o)
  BY DEF SetupInv, BackupInv, BackedUp
<1>10. CASE \E restart \in BOOLEAN: BeginIntegrate(o, restart)
  BY <1>1, <1>10 DEF BeginIntegrate, TypeOK, BackedUp, locals, host, Begin
<1>11. CASE WriteFile(o)
  BY <1>1, <1>11 DEF WriteFile, Fault, TypeOK, BackedUp, locals, host, Goto, Stop
<1>12. CASE FilesWritten(o)
  BY <1>1, <1>12 DEF FilesWritten, TypeOK, BackedUp, locals, host, Goto, Stop
<1>13. CASE BackupConfig(o)
  BY <1>1, <1>13 DEF BackupConfig, MakeBackup, Fault, TypeOK, BackedUp, locals, host, Goto, Stop
<1>14. CASE Compare(o)
  BY <1>1, <1>14 DEF Compare, Fault, TypeOK, BackedUp, locals, host, Goto, Stop
<1>15. CASE Replace(o)
  BY <1>1, <1>15 DEF Replace, WithTelemetry, Fault, TypeOK, BackedUp, locals, host, Goto, Stop
<1>16. CASE StartTimer(o)
  BY <1>1, <1>16 DEF StartTimer, Fault, TypeOK, BackedUp, locals, host, Goto, Stop
<1>17. CASE RestartForTelemetry(o)
  BY <1>1, <1>17 DEF RestartForTelemetry, RestartGateway, GatewayDies, Dies, GatewayStarts, Fault, TypeOK, BackedUp, locals, host, Goto, Stop
<1>18. CASE CheckActive(o)
  BY <1>1, <1>18 DEF CheckActive, Fault, TypeOK, BackedUp, locals, host, Goto, Stop
<1>19. CASE BeginRegister(o)
  BY <1>1, <1>19 DEF BeginRegister, TypeOK, BackedUp, locals, host, Begin
<1>20. CASE Register(o)
  BY <1>1, <1>20 DEF Register, Fault, TypeOK, BackedUp, locals, host, Goto, Stop
<1>21. CASE Recheck(o)
  BY <1>1, <1>21 DEF Recheck, TypeOK, BackedUp, locals, host, Goto, Stop
<1>22. CASE BackupHook(o)
  BY <1>1, <1>22 DEF BackupHook, MakeBackup, Fault, TypeOK, BackedUp, locals, host, Goto, Stop
<1>23. CASE RetireLook(o)
  BY <1>1, <1>23 DEF RetireLook, SameConfig, Fault, TypeOK, BackedUp, locals, host, Goto, Stop
<1>53. CASE RetireWrite(o)
  BY <1>1, <1>53 DEF RetireWrite, Fault, TypeOK, BackedUp, locals, host, Goto, Stop
<1>24. CASE Confirm(o)
  BY <1>1, <1>24 DEF Confirm, TypeOK, BackedUp, locals, host, Goto, Stop
<1>25. CASE RestartForHook(o)
  BY <1>1, <1>25 DEF RestartForHook, RestartGateway, GatewayDies, Dies, GatewayStarts, Fault, TypeOK, BackedUp, locals, host, Goto, Stop
<1>26. CASE Observe(o)
  BY <1>1, <1>26 DEF Observe, TypeOK, BackedUp, locals, host, Goto, Stop
<1>27. CASE Kill(o)
  BY <1>1, <1>27 DEF Kill, Dies, Fault, TypeOK, BackedUp, locals, host, Goto, Stop
<1> QED
  BY <1>10, <1>11, <1>12, <1>13, <1>14, <1>15, <1>16, <1>17, <1>18, <1>19, <1>20, <1>21, <1>22, <1>23, <1>53, <1>24, <1>25, <1>26, <1>27 DEF By, Integrate, ManageMcp

\* What ReadInv says of the process that is about to write the retirement.
Holding(o) == pc[o] = "retire_write" => lock = o /\ view = read[o]

\* A process gets to the write of the retirement by taking the lock.
LEMMA OwnWay ==
  ASSUME TypeOK, NEW o \in Operators, By(o), ~RetireLook(o)
  PROVE pc'[o] # "retire_write" \/ WriteFile(o)
<1>1. \A next \in PCs: Goto(o, next) => pc'[o] = next
  BY DEF Goto, TypeOK
<1>2. \A outcome: Stop(o, outcome) => pc'[o] = "idle"
  BY DEF Stop, TypeOK
<1>3. \A next, absent, changes: Begin(o, next, absent, changes) => pc'[o] = next
  BY DEF Begin, TypeOK
<1>4. CASE RestartForTelemetry(o) \/ RestartForHook(o)
  BY <1>1, <1>2, <1>4 DEF RestartForTelemetry, RestartForHook, RestartGateway, PCs
<1>5. CASE WriteFile(o)
  BY <1>2, <1>5 DEF WriteFile
<1> QED
  BY <1>1, <1>2, <1>3, <1>4, <1>5 DEF By, Integrate, ManageMcp, BeginIntegrate, FilesWritten,
    BackupConfig, MakeBackup, Compare, Replace, StartTimer, CheckActive, BeginRegister,
    Register, Recheck, BackupHook, RetireWrite, Confirm, Observe, Kill, PCs

\* The lock and the view come and go together, and nobody takes the lock from who
\* is about to write the retirement.
LEMMA ViewKept ==
  ASSUME SetupInv, Next
  PROVE (lock = Free <=> view = None)' /\ \A o \in Operators: Holding(o)'
<1>1. /\ TypeOK /\ (lock = Free <=> view = None) /\ config # None
      /\ \A o \in Operators: Holding(o) /\ o # Free /\ o # Gateway
      /\ Free # Gateway
  BY SetupAssumption DEF SetupInv, ReadInv, TypeOK, Holding
<1>2. ASSUME GatewayDies, \A o \in Operators: pc'[o] = "retire_write" => Same(o)
      PROVE (lock = Free <=> view = None)' /\ \A o \in Operators: Holding(o)'
  BY <1>1, <1>2 DEF GatewayDies, Dies, Holding, Same
<1>3. CASE ByNobody
  <2>1. \A o \in Operators: Same(o)
    BY <1>3, NobodysStep
  <2>2. CASE GatewayLocks
    BY <1>1, <2>1, <2>2 DEF GatewayLocks, Holding, Same
  <2>3. CASE GatewaySaves
    BY <1>1, <2>1, <2>3 DEF GatewaySaves, Holding, Same
  <2>4. CASE GatewayFails
    BY <1>2, <2>1, <2>4 DEF GatewayFails
  <2>5. CASE UNCHANGED <<lock, view>>
    BY <1>1, <2>1, <2>5 DEF Holding, Same
  <2> QED
    BY <1>3, <2>2, <2>3, <2>4, <2>5 DEF ByNobody, MakePlan, GatewayRecovers, PolicyRemoved
<1>4. ASSUME NEW p \in Operators, By(p)
      PROVE (lock = Free <=> view = None)' /\ \A o \in Operators: Holding(o)'
  <2>1. \A o \in Operators \ {p}: Same(o)
    BY <1>1, <1>4, OwnStep
  <2>2. CASE RetireLook(p)
    <3>1. CASE lock' = p /\ view' = config /\ config = read[p] /\ Goto(p, "retire_write") /\ lock = Free
      BY <1>1, <2>1, <3>1 DEF Holding, Same, Goto, locals
    <3>2. CASE UNCHANGED <<lock, view>> /\ Stop(p, "failed")
      BY <1>1, <2>1, <3>2 DEF Holding, Same, Stop, TypeOK
    <3> QED
      BY <2>2, <3>1, <3>2 DEF RetireLook, SameConfig
  <2>3. CASE ~RetireLook(p) /\ ~WriteFile(p)
    <3>1. pc'[p] # "retire_write"
      BY <1>1, <1>4, <2>3, OwnWay
    <3>2. \A o \in Operators: pc'[o] = "retire_write" => Same(o)
      BY <2>1, <3>1
    <3>3. CASE RetireWrite(p)
      BY <1>1, <3>1, <3>2, <3>3 DEF RetireWrite, Holding, Same
    <3>4. CASE RestartForTelemetry(p) \/ RestartForHook(p)
      BY <1>2, <3>2, <3>4 DEF RestartForTelemetry, RestartForHook, RestartGateway
    <3>5. CASE Kill(p)
      <4>1. Dies(p)
        BY <3>5 DEF Kill
      <4> QED
        BY <1>1, <3>1, <3>2, <4>1 DEF Dies, Holding, Same
    <3>6. CASE UNCHANGED <<lock, view>>
      BY <1>1, <3>2, <3>6 DEF Holding, Same
    <3> QED
      BY <1>4, <2>3, <3>3, <3>4, <3>5, <3>6 DEF By, Integrate, ManageMcp, BeginIntegrate,
        FilesWritten, BackupConfig, MakeBackup, Compare, Replace, StartTimer, CheckActive,
        BeginRegister, Register, Recheck, BackupHook, Confirm, Observe, gateway
  <2>4. CASE WriteFile(p)
    <3>1. UNCHANGED <<lock, view>> /\ pc'[p] # "retire_write"
      BY <1>1, <2>4 DEF WriteFile, gateway, Stop, TypeOK
    <3> QED
      BY <1>1, <2>1, <3>1 DEF Holding, Same
  <2> QED
    BY <2>2, <2>3, <2>4
<1> QED
  BY <1>3, <1>4 DEF Next, By, ByNobody

\* What holds of a process that a step leaves alone still does.
LEMMA OthersKept ==
  ASSUME SetupInv, NEW o \in Operators, Same(o), Grows
  PROVE HasRead(o)' /\ Written(o)' /\ BackedUp(o)'
<1>1. HasRead(o) /\ Written(o) /\ BackedUp(o)
  BY DEF SetupInv, ReadInv, FilesInv, BackupInv, HasRead, Written, BackedUp
<1>2. Written(o)'
  BY <1>1 DEF Same, Grows, Written
<1>3. BackedUp(o)'
  BY <1>1 DEF Same, Grows, BackedUp
<1> QED
  BY <1>1, <1>2, <1>3 DEF Same, HasRead

\* Every step keeps the invariant.
LEMMA SetupStep ==
  ASSUME SetupInv, [Next]_vars
  PROVE SetupInv'
<1>1. CASE UNCHANGED vars
  <2>1. TypeOK'
    BY TypesKept
  <2>2. ReadInv' /\ FilesInv' /\ BackupInv'
    BY <1>1 DEF vars, SetupInv, ReadInv, FilesInv, BackupInv
  <2> QED
    BY <2>1, <2>2 DEF SetupInv
<1>2. CASE Next
  <2>1. \A o \in Operators: HasRead(o)' /\ Written(o)' /\ BackedUp(o)'
    <3> SUFFICES ASSUME NEW o \in Operators
                 PROVE HasRead(o)' /\ Written(o)' /\ BackedUp(o)'
      OBVIOUS
    <3>1. ASSUME NEW p \in Operators, By(p) PROVE HasRead(o)' /\ Written(o)' /\ BackedUp(o)'
      <4>1. CASE p = o
        BY <3>1, <4>1, OwnRead, OwnFiles, OwnBackup
      <4>2. CASE p # o
        <5>1. Grows /\ Same(o)
          BY <3>1, <4>2, OwnStep DEF SetupInv
        <5> QED
          BY <5>1, OthersKept
      <4> QED
        BY <4>1, <4>2
    <3>2. CASE ByNobody
      BY <3>2, NobodysStep, OthersKept
    <3> QED
      BY <1>2, <3>1, <3>2 DEF Next, By, ByNobody
  <2>2. ReadInv'
    BY <1>2, <2>1, ViewKept DEF ReadInv, HasRead, Holding
  <2>3. FilesInv' /\ BackupInv'
    BY <2>1 DEF FilesInv, BackupInv, Written, BackedUp
  <2> QED
    BY <2>2, <2>3, TypesKept DEF SetupInv
<1> QED
  BY <1>1, <1>2

\* It holds of a host on which neither command has run.
LEMMA SetupInit ==
  ASSUME Init
  PROVE SetupInv
<1>1. config \in Config /\ config # None
  BY SetupAssumption DEF Init
<1>2. TypeOK
  BY <1>1, SetupAssumption DEF Init, TypeOK, Config, PCs
<1> QED
  BY <1>2 DEF Init, SetupInv, ReadInv, FilesInv, BackupInv

\* The invariant of both commands, run by any operators at the same time: a
\* process that has read config.json keeps what it read, integrate has made
\* whole what it found absent, and the backup a command made is still there.
THEOREM SetupInvariant == Spec => []SetupInv
  BY SetupInit, SetupStep, PTL DEF Spec

\* Every variable of GatewaySetup has its type.
THEOREM SetupTypes == Spec => []TypeOK
<1>1. SetupInv => TypeOK
  BY DEF SetupInv
<1> QED
  BY <1>1, SetupInvariant, PTL

-----------------------------------------------------------------------------
(* What a report of success and a change of the document imply.              *)

\* A report of integrate comes from its last step alone.
LEMMA ConfiguredLast ==
  ASSUME TypeOK, Next, NEW o \in Operators, Ends(o, "configured")
  PROVE CheckActive(o)
<1>1. ASSUME NEW p \in Operators, By(p), p # o PROVE FALSE
  BY <1>1, OwnStep DEF Ends, Same
<1>2. ~ByNobody
  BY NobodysStep DEF Ends, Same
<1>3. By(o)
  BY <1>1, <1>2 DEF Next, By, ByNobody
<1>4. ASSUME ~CheckActive(o) PROVE FALSE
  <2>1. ~\E outcome \in {"failed", "killed", "registered", "retired"}: Stop(o, outcome)
    BY DEF Ends, Stop, TypeOK
  <2>2. ~\E next \in PCs \ {"idle"}: Goto(o, next)
    BY DEF Ends, Goto, TypeOK
  <2>3. pc' # pc /\ pc[o] # "idle"
    BY DEF Ends
  <2> QED
    BY <1>3, <1>4, <2>1, <2>2, <2>3 DEF By, Integrate, ManageMcp, BeginIntegrate, WriteFile,
      FilesWritten, BackupConfig, MakeBackup, Compare, Replace, StartTimer, RestartForTelemetry,
      RestartGateway, BeginRegister, Register, Recheck, BackupHook, RetireLook, RetireWrite, Confirm,
      RestartForHook, Observe, Kill, Begin, PCs
<1> QED
  BY <1>4 DEF CheckActive, Ends, Stop, TypeOK

\* A report that the integrations are installed is only made with every file
\* whole and the timer active, whatever earlier attempts left behind and
\* however many operators install at the same time.
THEOREM ConfiguredMeansWhole == Spec => ConfiguredIsWhole
<1>1. SetupInv /\ [Next]_vars =>
        [\A o \in Operators : Ends(o, "configured") =>
           timer /\ \A f \in Files : files[f] = "whole"]_vars
  <2> SUFFICES ASSUME SetupInv, Next, NEW o \in Operators, Ends(o, "configured")
               PROVE timer /\ \A f \in Files : files[f] = "whole"
    OBVIOUS
  <2>1. CheckActive(o)
    BY ConfiguredLast DEF SetupInv
  <2> QED
    BY <2>1 DEF SetupInv, FilesInv, CheckActive
<1> QED
  BY <1>1, SetupInvariant, PTL DEF Spec, ConfiguredIsWhole

\* The document is changed by the two steps that write it, and by the Gateway.
LEMMA ChangedBy ==
  ASSUME TypeOK, Next, NEW o \in Operators, pc'[o] # pc[o], config' # config
  PROVE Replace(o) \/ RetireWrite(o)
<1>1. ASSUME NEW p \in Operators, By(p), p # o PROVE FALSE
  BY <1>1, OwnStep DEF Same
<1>2. ~ByNobody
  BY NobodysStep DEF Same
<1>3. By(o)
  BY <1>1, <1>2 DEF Next, By, ByNobody
<1> QED
  BY <1>3 DEF By, Integrate, ManageMcp, BeginIntegrate, WriteFile, FilesWritten, BackupConfig,
    MakeBackup, Compare, StartTimer, RestartForTelemetry, RestartGateway, CheckActive,
    BeginRegister, Register, Recheck, BackupHook, RetireLook, Confirm, RestartForHook, Observe, Kill

\* No operator changes config.json before what puts its change back is on the
\* host, whatever a failed attempt left under that name: the whole document that
\* integrate read, the list of hooks that the MCP helper read.
THEOREM ChangedAfterBackup == Spec => ChangedIsBackedUp
<1>1. SetupInv /\ [Next]_vars =>
        [\A o \in Operators : pc'[o] # pc[o] /\ config' # config =>
           \E b \in backups :
             b.holds = IF pc[o] = "replace" THEN read[o] ELSE [hooks |-> read[o].hooks]]_vars
  <2> SUFFICES ASSUME SetupInv, Next, NEW o \in Operators, pc'[o] # pc[o], config' # config
               PROVE \E b \in backups :
                 b.holds = IF pc[o] = "replace" THEN read[o] ELSE [hooks |-> read[o].hooks]
    OBVIOUS
  <2>1. CASE Replace(o)
    <3>1. BackupOf("config", read[o]) \in backups /\ pc[o] = "replace"
      BY <2>1 DEF SetupInv, BackupInv, Replace
    <3>2. BackupOf("config", read[o]).holds = read[o]
      BY DEF BackupOf
    <3> QED
      BY <3>1, <3>2
  <2>2. CASE RetireWrite(o)
    <3>1. BackupOf("hook", read[o]) \in backups /\ pc[o] # "replace"
      BY <2>2 DEF SetupInv, BackupInv, RetireWrite
    <3>2. BackupOf("hook", read[o]).holds = [hooks |-> read[o].hooks]
      BY DEF BackupOf
    <3> QED
      BY <3>1, <3>2
  <2> QED
    BY <2>1, <2>2, ChangedBy DEF SetupInv
<1> QED
  BY <1>1, SetupInvariant, PTL DEF Spec, ChangedIsBackedUp

-----------------------------------------------------------------------------
(* What the running Gateway has when a retirement is reported.               *)

Alone == \A o, p \in Operators: o = p

\* Between its look at the document and its write of it, the operator's lock keeps
\* the Gateway's saves out.
InView == \A o \in Operators: pc[o] = "retire_write" => view = config

\* With one operator at work, the retirement removes its entry and nothing else of
\* what is in the file at the moment it is written, the Gateway saving whenever it
\* has the lock.  Not so with two: the other's integrate takes no lock, and what it
\* writes between the look and the write is lost.
THEOREM RetireRemovesOne ==
  ASSUME Alone
  PROVE Spec => RetireKeepsOthers
<1>1. Init => InView
  BY DEF Init, InView
<1>2. SetupInv /\ InView /\ [Next]_vars => InView'
  <2> SUFFICES ASSUME SetupInv, InView, [Next]_vars, NEW o \in Operators, pc'[o] = "retire_write"
               PROVE view' = config'
    BY DEF InView
  <2>1. ASSUME Next, pc[o] = "retire_write" PROVE view' = config'
    <3>1. lock = o /\ lock # Gateway /\ lock # Free /\ view = config /\ view = read[o]
      BY <2>1, SetupAssumption DEF SetupInv, ReadInv, InView
    <3>2. lock' = o /\ view' = read'[o]
      BY <2>1, ViewKept DEF Holding
    <3>3. CASE ByNobody
      <4>1. read'[o] = read[o]
        BY <3>3, NobodysStep DEF Same
      <4>2. config' = config
        BY <3>1, <3>3 DEF ByNobody, MakePlan, GatewayLocks, GatewaySaves, GatewayFails,
          GatewayRecovers, PolicyRemoved
      <4> QED
        BY <3>1, <3>2, <4>1, <4>2
    <3>4. CASE By(o)
      <4>1. CASE WriteFile(o)
        BY <2>1, <4>1 DEF WriteFile
      <4>2. CASE RetireLook(o)
        BY <2>1, <4>2 DEF RetireLook
      <4> QED
        BY <3>4, <4>1, <4>2, OwnWay DEF SetupInv
    <3> QED
      BY <2>1, <3>3, <3>4 DEF Next, By, ByNobody, Alone
  <2>2. ASSUME Next, pc[o] # "retire_write" PROVE view' = config'
    <3>1. By(o)
      BY <2>2, NobodysStep DEF Next, By, ByNobody, Alone, Same
    <3>2. RetireLook(o)
      <4>1. CASE WriteFile(o)
        BY <2>2, <4>1 DEF WriteFile, Stop, SetupInv, TypeOK
      <4> QED
        BY <3>1, <4>1, OwnWay DEF SetupInv
    <3> QED
      BY <3>2 DEF RetireLook, Stop, SetupInv, TypeOK
  <2>3. CASE UNCHANGED vars
    BY <2>3 DEF vars, InView
  <2> QED
    BY <2>1, <2>2, <2>3
<1>3. SetupInv /\ InView /\ [Next]_vars =>
        [\A o \in Operators : pc[o] = "retire_write" /\ config' # config =>
           config' = [config EXCEPT !.hooks = @ \ {"deny"}]]_vars
  <2> SUFFICES ASSUME SetupInv, InView, Next, NEW o \in Operators,
                      pc[o] = "retire_write", config' # config
               PROVE config' = [config EXCEPT !.hooks = @ \ {"deny"}]
    OBVIOUS
  <2>1. lock = o /\ lock # Gateway /\ view = config /\ view = read[o]
    BY SetupAssumption DEF SetupInv, ReadInv, InView
  <2>2. ~ByNobody
    BY <2>1 DEF ByNobody, MakePlan, GatewayLocks, GatewaySaves, GatewayFails, GatewayRecovers,
      PolicyRemoved
  <2>3. By(o)
    BY <2>2 DEF Next, By, ByNobody, Alone
  <2>4. RetireWrite(o)
    BY <2>3 DEF By, Integrate, ManageMcp, BeginIntegrate, WriteFile, FilesWritten, BackupConfig,
      MakeBackup, Compare, Replace, StartTimer, RestartForTelemetry, RestartGateway, CheckActive,
      BeginRegister, Register, Recheck, BackupHook, RetireLook, Confirm, RestartForHook, Observe,
      Kill
  <2>5. config' = [view EXCEPT !.hooks = read[o].hooks \ {"deny"}]
    BY <2>4 DEF RetireWrite
  <2> QED
    BY <2>1, <2>5
<1> QED
  BY <1>1, <1>2, <1>3, SetupInvariant, PTL DEF Spec, RetireKeepsOthers

\* One process's part of RetiredInv.
Gone(o) ==
  /\ pc[o] \in {"confirm", "restart_mcp", "observe"} =>
       "deny" \notin config.hooks /\ (view # None => "deny" \notin view.hooks)
  /\ pc[o] = "observe" => "deny" \notin running.hooks

\* The operator's own steps.  The change is made with the lock free, so that no
\* view of the earlier document is about to be saved over it.
LEMMA OwnGone ==
  ASSUME SetupInv, NEW o \in Operators, Gone(o), By(o)
  PROVE Gone(o)'
<1>1. /\ TypeOK /\ Gone(o) /\ (lock = Free <=> view = None) /\ config \in Config
      /\ pc[o] = "retire_write" => view \in Config
  BY SetupAssumption DEF SetupInv, TypeOK, ReadInv
<1>10. CASE \E restart \in BOOLEAN: BeginIntegrate(o, restart)
  BY <1>1, <1>10 DEF BeginIntegrate, TypeOK, Config, Gone, locals, gateway, host, Begin
<1>11. CASE WriteFile(o)
  BY <1>1, <1>11 DEF WriteFile, Fault, TypeOK, Config, Gone, locals, gateway, host, Goto, Stop
<1>12. CASE FilesWritten(o)
  BY <1>1, <1>12 DEF FilesWritten, TypeOK, Config, Gone, locals, gateway, host, Goto, Stop
<1>13. CASE BackupConfig(o)
  BY <1>1, <1>13 DEF BackupConfig, MakeBackup, Fault, TypeOK, Config, Gone, locals, gateway, host, Goto, Stop
<1>14. CASE Compare(o)
  BY <1>1, <1>14 DEF Compare, Fault, TypeOK, Config, Gone, locals, gateway, host, Goto, Stop
<1>15. CASE Replace(o)
  BY <1>1, <1>15 DEF Replace, WithTelemetry, Fault, TypeOK, Config, Gone, locals, gateway, host, Goto, Stop
<1>16. CASE StartTimer(o)
  BY <1>1, <1>16 DEF StartTimer, Fault, TypeOK, Config, Gone, locals, gateway, host, Goto, Stop
<1>17. CASE RestartForTelemetry(o)
  BY <1>1, <1>17 DEF RestartForTelemetry, RestartGateway, GatewayDies, Dies, GatewayStarts, Fault, TypeOK, Config, Gone, locals, gateway, host, Goto, Stop
<1>18. CASE CheckActive(o)
  BY <1>1, <1>18 DEF CheckActive, Fault, TypeOK, Config, Gone, locals, gateway, host, Goto, Stop
<1>19. CASE BeginRegister(o)
  BY <1>1, <1>19 DEF BeginRegister, TypeOK, Config, Gone, locals, gateway, host, Begin
<1>20. CASE Register(o)
  <2>1. pc'[o] \in {"recheck", "idle"} /\ pc[o] = "register"
    BY <1>1, <1>20 DEF Register, TypeOK, Goto, Stop
  <2> QED
    BY <2>1 DEF Gone
<1>21. CASE Recheck(o)
  BY <1>1, <1>21 DEF Recheck, TypeOK, Config, Gone, locals, gateway, host, Goto, Stop
<1>22. CASE BackupHook(o)
  BY <1>1, <1>22 DEF BackupHook, MakeBackup, Fault, TypeOK, Config, Gone, locals, gateway, host, Goto, Stop
<1>23. CASE RetireLook(o)
  BY <1>1, <1>23 DEF RetireLook, SameConfig, Fault, TypeOK, Config, Gone, locals, gateway, host, Goto, Stop
<1>53. CASE RetireWrite(o)
  BY <1>1, <1>53 DEF RetireWrite, Fault, TypeOK, Config, Gone, locals, gateway, host, Goto, Stop
<1>24. CASE Confirm(o)
  BY <1>1, <1>24 DEF Confirm, TypeOK, Config, Gone, locals, gateway, host, Goto, Stop
<1>25. CASE RestartForHook(o)
  BY <1>1, <1>25 DEF RestartForHook, RestartGateway, GatewayDies, Dies, GatewayStarts, Fault, TypeOK, Config, Gone, locals, gateway, host, Goto, Stop
<1>26. CASE Observe(o)
  BY <1>1, <1>26 DEF Observe, TypeOK, Config, Gone, locals, gateway, host, Goto, Stop
<1>27. CASE Kill(o)
  BY <1>1, <1>27 DEF Kill, Dies, Fault, TypeOK, Config, Gone, locals, gateway, host, Goto, Stop
<1> QED
  BY <1>10, <1>11, <1>12, <1>13, <1>14, <1>15, <1>16, <1>17, <1>18, <1>19, <1>20, <1>21, <1>22, <1>23, <1>53, <1>24, <1>25, <1>26, <1>27 DEF By, Integrate, ManageMcp

\* The Gateway saves what it read, and starts with what it finds.
LEMMA NobodysGone ==
  ASSUME SetupInv, NEW o \in Operators, Gone(o), ByNobody
  PROVE Gone(o)'
<1>1. TypeOK /\ Gone(o) /\ (lock = Free <=> view = None)
  BY DEF SetupInv, ReadInv
<1>2. pc'[o] = pc[o]
  BY NobodysStep DEF Same
<1>3. CASE \E retire \in BOOLEAN: MakePlan(retire)
  BY <1>1, <1>2, <1>3 DEF MakePlan, Gone
<1>4. CASE GatewayLocks
  BY <1>1, <1>2, <1>4 DEF GatewayLocks, Gone
<1>5. CASE GatewaySaves
  <2>1. view \in Config
    BY <1>1, <1>5, SetupAssumption DEF GatewaySaves, TypeOK
  <2>2. "deny" \notin view.hooks => "deny" \notin config'.hooks
    BY <1>5, <2>1 DEF GatewaySaves, Config
  <2>3. view # None
    BY <2>1, SetupAssumption
  <2> QED
    BY <1>1, <1>2, <1>5, <2>2, <2>3 DEF GatewaySaves, Gone
<1>6. CASE GatewayFails
  BY <1>1, <1>2, <1>6 DEF GatewayFails, GatewayDies, Dies, TypeOK, Gone
<1>7. CASE GatewayRecovers
  BY <1>1, <1>2, <1>7 DEF GatewayRecovers, GatewayStarts, Gone
<1>8. CASE PolicyRemoved
  BY <1>1, <1>2, <1>8 DEF PolicyRemoved, Gone
<1> QED
  BY <1>3, <1>4, <1>5, <1>6, <1>7, <1>8 DEF ByNobody

\* With one operator at work, the entry is nowhere once its retirement is
\* written: not in the document, nor in what the Gateway is about to save, nor,
\* after the restart, in the Gateway itself.
THEOREM RetiredIsGone ==
  ASSUME Alone
  PROVE Spec => [](SetupInv /\ RetiredInv)
<1>1. Init => RetiredInv
  BY DEF Init, RetiredInv
<1>2. SetupInv /\ RetiredInv /\ [Next]_vars => RetiredInv'
  <2> SUFFICES ASSUME SetupInv, RetiredInv, [Next]_vars, NEW o \in Operators PROVE Gone(o)'
    BY DEF RetiredInv, Gone
  <2>1. Gone(o)
    BY DEF RetiredInv, Gone
  <2>2. CASE UNCHANGED vars
    BY <2>1, <2>2 DEF vars, Gone
  <2>3. CASE ByNobody
    BY <2>1, <2>3, NobodysGone
  <2>4. ASSUME NEW p \in Operators, By(p) PROVE Gone(o)'
    <3>1. p = o
      BY DEF Alone
    <3> QED
      BY <2>1, <2>4, <3>1, OwnGone
  <2> QED
    BY <2>2, <2>3, <2>4 DEF Next, By, ByNobody
<1> QED
  BY <1>1, <1>2, SetupInvariant, PTL DEF Spec

\* A report of the retirement comes from its last step alone.
LEMMA RetiredLast ==
  ASSUME TypeOK, Next, NEW o \in Operators, Ends(o, "retired")
  PROVE Observe(o)
<1>1. ASSUME NEW p \in Operators, By(p), p # o PROVE FALSE
  BY <1>1, OwnStep DEF Ends, Same
<1>2. ~ByNobody
  BY NobodysStep DEF Ends, Same
<1>3. By(o)
  BY <1>1, <1>2 DEF Next, By, ByNobody
<1>4. ~\E outcome \in {"failed", "killed", "registered", "configured"}: Stop(o, outcome)
  BY DEF Ends, Stop, TypeOK
<1>5. ~\E next \in PCs \ {"idle"}: Goto(o, next)
  BY DEF Ends, Goto, TypeOK
<1>6. pc' # pc /\ pc[o] # "idle"
  BY DEF Ends
<1> QED
  BY <1>3, <1>4, <1>5, <1>6 DEF By, Integrate, ManageMcp, BeginIntegrate, WriteFile,
    FilesWritten, BackupConfig, MakeBackup, Compare, Replace, StartTimer, RestartForTelemetry,
    RestartGateway, CheckActive, BeginRegister, Register, Recheck, BackupHook, RetireLook, RetireWrite,
    Confirm, RestartForHook, Kill, Begin, PCs

\* A report of the retirement is about the running Gateway, through the restart
\* and whatever failures and restarts there are between it and the report.
\* Not so with two operators: the other's integrate replaces the document with
\* what it had read before, and the next start of the Gateway loads the entry.
THEOREM RetiredMeansRunning ==
  ASSUME Alone
  PROVE Spec => RetiredIsRunning
<1>1. SetupInv /\ RetiredInv /\ [Next]_vars =>
        [\A o \in Operators : Ends(o, "retired") => "deny" \notin running.hooks]_vars
  <2> SUFFICES ASSUME SetupInv, RetiredInv, Next, NEW o \in Operators, Ends(o, "retired")
               PROVE "deny" \notin running.hooks
    OBVIOUS
  <2>1. Observe(o)
    BY RetiredLast DEF SetupInv
  <2> QED
    BY <2>1 DEF Observe, RetiredInv
<1> QED
  BY <1>1, RetiredIsGone, PTL DEF Spec, RetiredIsRunning

=============================================================================
