----------------------------- MODULE ChainLock -----------------------------
(* The lock every writer of the security event log takes before it reads    *)
(* the chain's tip (sel.py, _chain_lock). Processes exclude one another by  *)
(* an flock; the threads of one process share its hold and exclude one      *)
(* another by the hold's gate. The thread of the event loop must not wait   *)
(* for another process, nor for a prune or a rotation of its own: it tries  *)
(* once, waits for short appends only, and is refused otherwise.            *)
CONSTANTS
  Procs, Threads,
  ProcOf,         \* ProcOf[t]: the process thread t belongs to
  LoopThreads,    \* the threads that run an event loop
  PruneThreads,   \* the threads that run prune()
  NoProc, NoThread

ASSUME ThreadsAssumption ==
  /\ ProcOf \in [Threads -> Procs]
  /\ LoopThreads \subseteq Threads
  /\ PruneThreads \subseteq Threads
  /\ LoopThreads \cap PruneThreads = {}
  /\ NoProc \notin Procs
  /\ NoThread \notin Threads

VARIABLES
  flock,   \* the process whose descriptor has the sidecar locked, or NoProc
  hold,    \* hold[p]: p's entry in _CHAIN_HOLDS; no members when there is none
  pc       \* pc[t]: where thread t stands in _chain_lock

lockVars == <<flock, hold, pc>>

\* A rotation remembers the label it replaced ("append" or "prune") in under.
Labels == {"append", "prune", "rotation"}
Hold == [members: SUBSET Threads, kind: Labels, under: Labels, gate: Threads \cup {NoThread}]
NoHold == [members |-> {}, kind |-> "append", under |-> "append", gate |-> NoThread]

Steps == {"idle", "lock", "missed", "locked", "joined", "published", "inside", "leave"}

LockTypeOK ==
  /\ flock \in Procs \cup {NoProc}
  /\ hold \in [Procs -> Hold]
  /\ pc \in [Threads -> Steps]

LockInit ==
  /\ flock = NoProc
  /\ hold = [p \in Procs |-> NoHold]
  /\ pc = [t \in Threads |-> "idle"]

KindOf(t) == IF t \in PruneThreads THEN "prune" ELSE "append"
HoldOf(t) == hold[ProcOf[t]]
Held(t) == HoldOf(t).members # {}

At(t, step) == pc[t] = step
To(t, step) == pc' = [pc EXCEPT ![t] = step]

\* Only the loop refuses a hold whose label says that a heavy step runs in it.
JoinRefused(t) == t \in LoopThreads /\ Held(t) /\ HoldOf(t).kind # "append"

\* A prune that joins relabels the hold, and the label stays.
Joined(t) ==
  /\ Held(t)
  /\ ~JoinRefused(t)
  /\ hold' = [hold EXCEPT ![ProcOf[t]].members = @ \cup {t},
                          ![ProcOf[t]].kind = IF t \in PruneThreads THEN "prune" ELSE @]
  /\ To(t, "joined")
  /\ UNCHANGED flock

JoinHold(t) == At(t, "idle") /\ Joined(t)
SeeNoHold(t) == At(t, "idle") /\ ~Held(t) /\ To(t, "lock") /\ UNCHANGED <<flock, hold>>
Ask(t) == JoinHold(t) \/ SeeNoHold(t)
RefuseAtOnce(t) == At(t, "idle") /\ JoinRefused(t) /\ UNCHANGED lockVars

\* The lock belongs to one descriptor: a thread of the same process waits too.
TakeLock(t) ==
  /\ At(t, "lock")
  /\ flock = NoProc
  /\ flock' = ProcOf[t]
  /\ To(t, "locked")
  /\ UNCHANGED hold

\* The loop's one attempt found the lock taken: by its own process, perhaps.
Miss(t) == At(t, "lock") /\ t \in LoopThreads /\ flock # NoProc /\ To(t, "missed") /\ UNCHANGED <<flock, hold>>
JoinLate(t) == At(t, "missed") /\ Joined(t)

\* What the loop does not wait for. Its caller's append is not made.
Refuse(t) ==
  /\ At(t, "missed")
  /\ JoinRefused(t) \/ ~Held(t)
  /\ To(t, "idle")
  /\ UNCHANGED <<flock, hold>>

Publish(t) ==
  /\ At(t, "locked")
  /\ hold' = [hold EXCEPT ![ProcOf[t]] =
                [members |-> {t}, kind |-> KindOf(t), under |-> "append", gate |-> NoThread]]
  /\ To(t, "published")
  /\ UNCHANGED flock

\* As if the gate were passed without a look at who has it.
PassGateOpen(t) ==
  /\ pc[t] \in {"joined", "published"}
  /\ hold' = [hold EXCEPT ![ProcOf[t]].gate = t]
  /\ To(t, "inside")
  /\ UNCHANGED flock

\* A joiner may take the gate before the thread that published the hold.
PassGate(t) ==
  /\ pc[t] \in {"joined", "published"}
  /\ HoldOf(t).gate = NoThread
  /\ hold' = [hold EXCEPT ![ProcOf[t]].gate = t]
  /\ To(t, "inside")
  /\ UNCHANGED flock

\* As if a joiner that gives up kept its place in the hold.
GiveUpGateStays(t) ==
  /\ At(t, "joined")
  /\ t \in LoopThreads
  /\ HoldOf(t).gate # NoThread
  /\ HoldOf(t).kind # "append"
  /\ To(t, "idle")
  /\ UNCHANGED <<flock, hold>>

\* Between two slices of its wait a joiner on the loop reads the label again.
GiveUpGate(t) ==
  /\ At(t, "joined")
  /\ t \in LoopThreads
  /\ HoldOf(t).gate # NoThread
  /\ HoldOf(t).kind # "append"
  /\ To(t, "leave")
  /\ UNCHANGED <<flock, hold>>

LeaveGate(t) ==
  /\ At(t, "inside")
  /\ hold' = [hold EXCEPT ![ProcOf[t]].gate = NoThread]
  /\ To(t, "leave")
  /\ UNCHANGED flock

\* As if the thread that took the lock gave it back, whoever is left.
LeaveUnlocks(t) ==
  /\ At(t, "leave")
  /\ hold' = [hold EXCEPT ![ProcOf[t]] = NoHold]
  /\ flock' = NoProc
  /\ To(t, "idle")

\* The last thread out unlocks; the entry disappears in the same step.
Leave(t) ==
  /\ At(t, "leave")
  /\ LET rest == HoldOf(t).members \ {t} IN
       IF rest = {}
         THEN /\ hold' = [hold EXCEPT ![ProcOf[t]] = NoHold]
              /\ flock' = NoProc
         ELSE /\ hold' = [hold EXCEPT ![ProcOf[t]].members = rest]
              /\ UNCHANGED flock
  /\ To(t, "idle")

\* The rotation's label goes on and comes off; a label put over it stays.
BeginRotation(t) ==
  /\ At(t, "inside")
  /\ t \notin PruneThreads
  /\ hold' = [hold EXCEPT ![ProcOf[t]].under = HoldOf(t).kind,
                          ![ProcOf[t]].kind = "rotation"]
  /\ UNCHANGED <<flock, pc>>

\* As if the label were put back over one that a prune has put there since.
EndRotationBlind(t) ==
  /\ At(t, "inside")
  /\ t \notin PruneThreads
  /\ hold' = [hold EXCEPT ![ProcOf[t]].kind = HoldOf(t).under]
  /\ UNCHANGED <<flock, pc>>

EndRotation(t) ==
  /\ At(t, "inside")
  /\ t \notin PruneThreads
  /\ hold' = [hold EXCEPT ![ProcOf[t]].kind = IF @ = "rotation" THEN HoldOf(t).under ELSE @]
  /\ UNCHANGED <<flock, pc>>

\* The end of a process closes its descriptors, and with them its lock.
ProcessEnds(p) ==
  /\ flock' = IF flock = p THEN NoProc ELSE flock
  /\ hold' = [hold EXCEPT ![p] = NoHold]
  /\ pc' = [t \in Threads |-> IF ProcOf[t] = p THEN "idle" ELSE pc[t]]

LockStep(t) ==
  \/ Ask(t) \/ TakeLock(t) \/ Miss(t) \/ JoinLate(t) \/ Refuse(t)
  \/ Publish(t) \/ PassGate(t) \/ GiveUpGate(t) \/ LeaveGate(t) \/ Leave(t)
  \/ BeginRotation(t) \/ EndRotation(t)

LockNext == (\E t \in Threads: LockStep(t)) \/ (\E p \in Procs: ProcessEnds(p))

LockSpec == LockInit /\ [][LockNext]_lockVars

-----------------------------------------------------------------------------
\* At most one thread of all processes is between the gate and its release:
\* what makes reading the tip, chaining and appending one step (flock, gate).
OneInside == \A s, t \in Threads: pc[s] = "inside" /\ pc[t] = "inside" => s = t

\* A lock nobody is going to release would stop every later audit: when no
\* thread is in the protocol the file is unlocked and the registry is empty.
NothingLeftLocked ==
  /\ flock = NoProc <=> \A t \in Threads: pc[t] \in {"idle", "lock", "missed"}
  /\ \A p \in Procs: hold[p].members = {t \in Threads: ProcOf[t] = p /\ pc[t] \in {"joined", "published", "inside", "leave"}}
=============================================================================
