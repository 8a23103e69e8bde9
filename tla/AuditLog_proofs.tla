---------------------------- MODULE AuditLog_proofs ----------------------------
(* Proofs about ChainLock, the lock's protocol alone, and about AuditLog, the  *)
(* log that follows it: for every set of processes and threads, and for any    *)
(* segment size, batch, bound on retries, events, faults and prunes.           *)
EXTENDS AuditLog, Picking_proofs

-----------------------------------------------------------------------------
(* The lock.                                                                  *)

InHold == {"joined", "published", "inside", "leave"}

\* Whoever is in the protocol is a member of its process's hold, a hold with
\* members has the file locked, and the gate belongs to the thread inside.
Membership ==
  \A t \in Threads: pc[t] \in InHold <=> t \in HoldOf(t).members
OwnThreads ==
  \A p \in Procs: \A t \in hold[p].members: ProcOf[t] = p
HoldLocks == \A p \in Procs: hold[p].members # {} => flock = p
LockedAlone ==
  /\ \A t \in Threads: pc[t] = "locked" => flock = ProcOf[t] /\ ~Held(t)
  /\ \A s, t \in Threads: pc[s] = "locked" /\ pc[t] = "locked" => s = t
LockUsed ==
  flock # NoProc => \E t \in Threads: ProcOf[t] = flock /\ pc[t] \in InHold \cup {"locked"}
GateOwned == \A t \in Threads: pc[t] = "inside" <=> HoldOf(t).gate = t
GatesAtHome ==
  \A p \in Procs: hold[p].gate # NoThread => ProcOf[hold[p].gate] = p

LockInv ==
  LockTypeOK /\ Membership /\ OwnThreads /\ HoldLocks /\ LockedAlone /\ LockUsed
  /\ GateOwned /\ GatesAtHome

\* The definitions every step of the lock is looked at through.
LEMMA LockInitially == LockInit => LockInv
  BY ThreadsAssumption
  DEF LockInit, LockInv, LockTypeOK, Membership, OwnThreads, HoldLocks, LockedAlone, LockUsed,
      GateOwned, GatesAtHome, NoHold, Hold, Labels, Steps, HoldOf, Held, InHold

LEMMA Quiet ==
  ASSUME LockInv, NEW t \in Threads,
         SeeNoHold(t) \/ Miss(t) \/ Refuse(t) \/ GiveUpGate(t)
  PROVE  LockInv'
  BY ThreadsAssumption
  DEF LockInv, LockTypeOK, Membership, OwnThreads, HoldLocks, LockedAlone, LockUsed, GateOwned,
      GatesAtHome,
      SeeNoHold, Miss, Refuse, GiveUpGate, At, To, HoldOf, Held, InHold, Steps

\* A step of a thread that has its process's hold, or has just locked the file
\* for it: only its own place, membership and gate change, and someone stays.
LEMMA Moving ==
  ASSUME LockInv, NEW t \in Threads, NEW step \in Steps \ {"locked"}, NEW h \in Hold,
         Held(t) \/ pc[t] = "locked",
         pc' = [pc EXCEPT ![t] = step],
         hold' = [hold EXCEPT ![ProcOf[t]] = h],
         flock' = flock,
         h.members # {},
         t \in h.members <=> step \in InHold,
         h.gate = t <=> step = "inside",
         \A u \in Threads \ {t}: /\ u \in h.members <=> u \in HoldOf(t).members
                                 /\ h.gate = u <=> HoldOf(t).gate = u
  PROVE  LockInv'
<1>1. ProcOf[t] \in Procs /\ flock = ProcOf[t]
  BY ThreadsAssumption DEF LockInv, HoldLocks, LockedAlone, Held, HoldOf
<1>2. \A u \in Threads: /\ ProcOf[u] \in Procs
                        /\ ProcOf[u] = ProcOf[t] => HoldOf(u)' = h
                        /\ ProcOf[u] # ProcOf[t] => HoldOf(u)' = HoldOf(u)
                        /\ ProcOf[u] = ProcOf[t] => HoldOf(u) = HoldOf(t)
                        /\ u # t => pc'[u] = pc[u]
  BY <1>1, ThreadsAssumption DEF LockInv, LockTypeOK, HoldOf
<1>3. pc'[t] = step
  BY DEF LockInv, LockTypeOK
<1>4. LockTypeOK'
  BY DEF LockInv, LockTypeOK
<1>5. Membership'
  BY <1>2, <1>3 DEF LockInv, Membership, InHold
<1>6. OwnThreads'
  <2> SUFFICES ASSUME NEW q \in Procs, NEW u \in hold'[q].members PROVE ProcOf[u] = q
    BY DEF OwnThreads
  <2>1. CASE q # ProcOf[t]
    BY <2>1 DEF LockInv, LockTypeOK, OwnThreads
  <2>2. CASE q = ProcOf[t]
    <3>1. hold'[q] = h /\ u \in h.members /\ u \in Threads
      BY <2>2 DEF LockInv, LockTypeOK, Hold
    <3> QED BY <1>1, <2>2, <3>1 DEF LockInv, OwnThreads, HoldOf
  <2> QED BY <2>1, <2>2
<1>7. HoldLocks'
  BY <1>1 DEF LockInv, LockTypeOK, HoldLocks
<1>8. LockedAlone'
  <2>1. \A s \in Threads: pc'[s] # "locked"
    <3> SUFFICES ASSUME NEW s \in Threads, pc'[s] = "locked" PROVE FALSE
      OBVIOUS
    <3>1. s # t /\ pc[s] = "locked"
      BY <1>2, <1>3
    <3>2. ProcOf[s] = ProcOf[t] /\ ~Held(s)
      BY <1>1, <3>1 DEF LockInv, LockedAlone
    <3>3. pc[t] # "locked" /\ ~Held(t)
      BY <1>2, <3>1, <3>2 DEF LockInv, LockedAlone, Held
    <3> QED BY <3>3
  <2> QED BY <2>1 DEF LockedAlone
<1>9. LockUsed'
  <2>1. PICK u \in h.members: u \in Threads
    BY DEF Hold
  <2>2. ProcOf[t] \in Procs /\ hold'[ProcOf[t]] = h
    BY <1>1 DEF LockInv, LockTypeOK
  <2>3. ProcOf[u] = ProcOf[t]
    BY <1>6, <2>1, <2>2 DEF OwnThreads
  <2>4. pc'[u] \in InHold
    BY <1>2, <1>5, <2>1, <2>3 DEF Membership
  <2> QED BY <1>1, <2>1, <2>3, <2>4 DEF LockUsed
<1>10. GateOwned'
  BY <1>2, <1>3 DEF LockInv, GateOwned
<1>11. GatesAtHome'
  BY <1>1, <1>2 DEF LockInv, LockTypeOK, Hold, GatesAtHome, HoldOf
<1> QED BY <1>4, <1>5, <1>6, <1>7, <1>8, <1>9, <1>10, <1>11 DEF LockInv

LEMMA Typed ==
  ASSUME LockInv, NEW t \in Threads
  PROVE  /\ HoldOf(t) \in Hold /\ ProcOf[t] \in Procs /\ pc[t] \in Steps
         /\ HoldOf(t).members \subseteq Threads
         /\ HoldOf(t).gate \in Threads \cup {NoThread}
         /\ pc[t] \in InHold <=> t \in HoldOf(t).members
         /\ HoldOf(t).gate = t <=> pc[t] = "inside"
         /\ t # NoThread
  BY ThreadsAssumption DEF LockInv, LockTypeOK, Membership, GateOwned, HoldOf, Hold

LEMMA Joining ==
  ASSUME LockInv, NEW t \in Threads, pc[t] \in {"idle", "missed"}, Joined(t) PROVE LockInv'
<1> DEFINE h == [HoldOf(t) EXCEPT !.members = @ \cup {t},
                                  !.kind = IF t \in PruneThreads THEN "prune" ELSE @]
<1>1. h \in Hold /\ h.members = HoldOf(t).members \cup {t} /\ h.gate = HoldOf(t).gate
  <2>1. HoldOf(t) \in Hold
    BY Typed
  <2>2. /\ h.members = HoldOf(t).members \cup {t} /\ h.gate = HoldOf(t).gate
        /\ h.kind \in Labels /\ h.under \in Labels
    BY <2>1 DEF Hold, Labels
  <2> QED BY <2>1, <2>2 DEF Hold
<1>2. hold' = [hold EXCEPT ![ProcOf[t]] = h] /\ pc' = [pc EXCEPT ![t] = "joined"]
      /\ flock' = flock /\ Held(t)
  BY Typed DEF Joined, To, HoldOf, Hold, LockInv, LockTypeOK
<1>3. "joined" \in Steps \ {"locked"} /\ "joined" \in InHold /\ t \notin HoldOf(t).members
      /\ HoldOf(t).gate # t
  BY Typed DEF Steps, InHold
<1> HIDE DEF h
<1> QED BY <1>1, <1>2, <1>3, Moving

LEMMA Locking == ASSUME LockInv, NEW t \in Threads, TakeLock(t) PROVE LockInv'
<1>1. flock = NoProc /\ flock' = ProcOf[t] /\ hold' = hold /\ pc[t] = "lock"
      /\ pc' = [pc EXCEPT ![t] = "locked"]
  BY DEF TakeLock, At, To
<1>2. \A u \in Threads: u # t => pc'[u] = pc[u]
  BY <1>1 DEF LockInv, LockTypeOK
<1>3. pc'[t] = "locked" /\ ProcOf[t] \in Procs /\ ProcOf[t] # NoProc
  BY <1>1, ThreadsAssumption DEF LockInv, LockTypeOK
<1>4. \A p \in Procs: hold[p].members = {}
  BY <1>1, ThreadsAssumption DEF LockInv, HoldLocks
<1>5. \A u \in Threads: pc[u] # "locked"
  BY <1>1, ThreadsAssumption DEF LockInv, LockedAlone
<1>6. LockTypeOK'
  BY <1>1, <1>3 DEF LockInv, LockTypeOK, Steps
<1>7. Membership' /\ OwnThreads' /\ HoldLocks' /\ GateOwned' /\ GatesAtHome'
  BY <1>1, <1>2, <1>3, <1>4
  DEF LockInv, Membership, OwnThreads, HoldLocks, GateOwned, GatesAtHome, HoldOf, InHold
<1>8. LockedAlone' /\ LockUsed'
  BY <1>1, <1>2, <1>3, <1>4, <1>5 DEF LockedAlone, LockUsed, HoldOf, Held
<1> QED BY <1>6, <1>7, <1>8 DEF LockInv

LEMMA Publishing == ASSUME LockInv, NEW t \in Threads, Publish(t) PROVE LockInv'
<1> DEFINE h == [members |-> {t}, kind |-> KindOf(t), under |-> "append", gate |-> NoThread]
<1>1. h \in Hold /\ h.members = {t} /\ h.gate = NoThread
  BY DEF Hold, KindOf, Labels
<1>2. hold' = [hold EXCEPT ![ProcOf[t]] = h] /\ pc' = [pc EXCEPT ![t] = "published"]
      /\ flock' = flock /\ pc[t] = "locked"
  BY DEF Publish, At, To
<1>3. HoldOf(t).members = {}
  BY <1>2 DEF LockInv, LockedAlone, Held
<1>4. \A u \in Threads: HoldOf(t).gate # u
  <2> SUFFICES ASSUME NEW u \in Threads, HoldOf(t).gate = u PROVE FALSE
    OBVIOUS
  <2>1. ProcOf[u] # ProcOf[t]
    BY <1>3, Typed DEF HoldOf, InHold
  <2> QED BY <2>1, Typed, ThreadsAssumption DEF LockInv, GatesAtHome, HoldOf
<1>5. "published" \in Steps \ {"locked"} /\ "published" \in InHold
  BY DEF Steps, InHold
<1> HIDE DEF h
<1> QED BY <1>1, <1>2, <1>3, <1>4, <1>5, Typed, Moving

LEMMA Passing == ASSUME LockInv, NEW t \in Threads, PassGate(t) PROVE LockInv'
<1> DEFINE h == [HoldOf(t) EXCEPT !.gate = t]
<1>1. h \in Hold /\ h.members = HoldOf(t).members /\ h.gate = t
  BY Typed DEF Hold
<1>2. hold' = [hold EXCEPT ![ProcOf[t]] = h] /\ pc' = [pc EXCEPT ![t] = "inside"]
      /\ flock' = flock /\ t \in HoldOf(t).members /\ HoldOf(t).gate = NoThread
  BY Typed DEF PassGate, To, HoldOf, InHold
<1>3. "inside" \in Steps \ {"locked"} /\ "inside" \in InHold
  BY DEF Steps, InHold
<1>4. Held(t) /\ \A u \in Threads: u # NoThread
  BY <1>2, ThreadsAssumption DEF Held
<1>5. /\ h.members # {} /\ t \in h.members
      /\ \A u \in Threads \ {t}: /\ u \in h.members <=> u \in HoldOf(t).members
                              /\ h.gate = u <=> HoldOf(t).gate = u
  BY <1>1, <1>2, <1>4
<1> HIDE DEF h
<1> QED BY <1>1, <1>2, <1>3, <1>4, <1>5, Moving

LEMMA Leaving == ASSUME LockInv, NEW t \in Threads, LeaveGate(t) \/ Leave(t) PROVE LockInv'
<1>1. CASE LeaveGate(t)
  <2> DEFINE h == [HoldOf(t) EXCEPT !.gate = NoThread]
  <2>1. h \in Hold /\ h.members = HoldOf(t).members /\ h.gate = NoThread
    BY Typed DEF Hold
  <2>2. hold' = [hold EXCEPT ![ProcOf[t]] = h] /\ pc' = [pc EXCEPT ![t] = "leave"]
        /\ flock' = flock /\ t \in HoldOf(t).members /\ HoldOf(t).gate = t
    BY <1>1, Typed DEF LeaveGate, At, To, HoldOf, InHold
  <2>3. "leave" \in Steps \ {"locked"} /\ "leave" \in InHold
    BY DEF Steps, InHold
  <2>4. Held(t) /\ \A u \in Threads: u # NoThread
    BY <2>2, ThreadsAssumption DEF Held
  <2> HIDE DEF h
  <2> QED BY <2>1, <2>2, <2>3, <2>4, Moving
<1>2. CASE Leave(t) /\ HoldOf(t).members \ {t} # {}
  <2> DEFINE h == [HoldOf(t) EXCEPT !.members = @ \ {t}]
  <2>1. h \in Hold /\ h.members = HoldOf(t).members \ {t} /\ h.gate = HoldOf(t).gate
    BY Typed DEF Hold
  <2>2. hold' = [hold EXCEPT ![ProcOf[t]] = h] /\ pc' = [pc EXCEPT ![t] = "idle"]
        /\ flock' = flock /\ Held(t) /\ pc[t] = "leave"
    BY <1>2, Typed DEF Leave, At, To, HoldOf, Held
  <2>3. "idle" \in Steps \ {"locked"} /\ "idle" \notin InHold /\ "idle" # "inside"
    BY DEF Steps, InHold
  <2>4. HoldOf(t).gate # t
    BY <2>2, Typed
  <2> HIDE DEF h
  <2> QED BY <1>2, <2>1, <2>2, <2>3, <2>4, Moving
<1>3. CASE Leave(t) /\ HoldOf(t).members \ {t} = {}
  <2>1. hold' = [hold EXCEPT ![ProcOf[t]] = NoHold] /\ pc' = [pc EXCEPT ![t] = "idle"]
        /\ flock' = NoProc /\ pc[t] = "leave"
    BY <1>3 DEF Leave, At, To
  <2>2. HoldOf(t).members = {t} /\ flock = ProcOf[t]
    BY <1>3, <2>1, Typed DEF LockInv, HoldLocks, InHold, HoldOf
  <2>3. \A p \in Procs: p # ProcOf[t] => hold[p].members = {}
    BY <2>2 DEF LockInv, HoldLocks
  <2>4. \A p \in Procs: hold'[p].members = {}
    BY <2>1, <2>3, Typed DEF LockInv, LockTypeOK, NoHold
  <2>5. \A u \in Threads: pc[u] # "locked"
    BY <2>2, Typed DEF LockInv, LockedAlone, Held, HoldOf
  <2>6. \A u \in Threads \ {t}: u \notin HoldOf(u).members
    BY <2>2, <2>3, Typed DEF HoldOf
  <2>7. \A u \in Threads: pc'[u] \notin InHold /\ pc'[u] # "locked"
    BY <2>1, <2>5, <2>6, Typed DEF LockInv, LockTypeOK, InHold
  <2>8. LockTypeOK'
    BY <2>1, Typed DEF LockInv, LockTypeOK, NoHold, Hold, Labels, Steps
  <2>9. \A u \in Threads: HoldOf(u)'.gate # u
    BY <2>1, <2>6, Typed, ThreadsAssumption DEF LockInv, LockTypeOK, HoldOf, NoHold, InHold
  <2>10. GateOwned' /\ GatesAtHome'
    BY <2>1, <2>7, <2>9, ThreadsAssumption
    DEF LockInv, LockTypeOK, GateOwned, GatesAtHome, InHold, NoHold
  <2> QED BY <2>1, <2>4, <2>7, <2>8, <2>10, ThreadsAssumption
          DEF LockInv, Membership, OwnThreads, HoldLocks, LockedAlone, LockUsed, HoldOf
<1> QED BY <1>1, <1>2, <1>3

LEMMA Labelling ==
  ASSUME LockInv, NEW t \in Threads, BeginRotation(t) \/ EndRotation(t) PROVE LockInv'
<1>1. PICK h \in Hold: /\ hold' = [hold EXCEPT ![ProcOf[t]] = h]
                       /\ h.members = HoldOf(t).members /\ h.gate = HoldOf(t).gate
  <2> DEFINE b == [HoldOf(t) EXCEPT !.under = HoldOf(t).kind, !.kind = "rotation"]
             e == [HoldOf(t) EXCEPT !.kind = IF @ = "rotation" THEN HoldOf(t).under ELSE @]
  <2>0. HoldOf(t) \in Hold
    BY Typed
  <2>1. b \in Hold /\ b.members = HoldOf(t).members /\ b.gate = HoldOf(t).gate
    BY <2>0 DEF Hold, Labels
  <2>2. e \in Hold /\ e.members = HoldOf(t).members /\ e.gate = HoldOf(t).gate
    <3>1. /\ e.members = HoldOf(t).members /\ e.gate = HoldOf(t).gate
          /\ e.kind \in Labels /\ e.under \in Labels
      BY <2>0 DEF Hold, Labels
    <3> QED BY <2>0, <3>1 DEF Hold
  <2>3. BeginRotation(t) => hold' = [hold EXCEPT ![ProcOf[t]] = b]
    BY Typed DEF BeginRotation, HoldOf, Hold, LockInv, LockTypeOK
  <2>4. EndRotation(t) => hold' = [hold EXCEPT ![ProcOf[t]] = e]
    BY Typed DEF EndRotation, HoldOf, Hold, LockInv, LockTypeOK
  <2> HIDE DEF b, e
  <2> QED BY <2>1, <2>2, <2>3, <2>4
<1>2. pc[t] = "inside" /\ pc' = pc /\ flock' = flock
  BY DEF BeginRotation, EndRotation, At
<1>3. pc' = [pc EXCEPT ![t] = "inside"]
  BY <1>2 DEF LockInv, LockTypeOK
<1>4. "inside" \in Steps \ {"locked"} /\ "inside" \in InHold
  BY DEF Steps, InHold
<1>5. t \in HoldOf(t).members /\ HoldOf(t).gate = t /\ Held(t)
  BY <1>2, <1>4, Typed DEF Held
<1>6. /\ h.members # {} /\ t \in h.members /\ h.gate = t
      /\ \A u \in Threads: h.members = HoldOf(t).members /\ h.gate = HoldOf(t).gate
  BY <1>1, <1>5
<1>7. hold' = [hold EXCEPT ![ProcOf[t]] = h] /\ flock' = flock
  BY <1>1, <1>2
<1> QED BY <1>3, <1>4, <1>5, <1>6, <1>7, Moving

LEMMA Ending == ASSUME LockInv, NEW p \in Procs, ProcessEnds(p) PROVE LockInv'
  BY ThreadsAssumption
  DEF LockInv, LockTypeOK, Membership, OwnThreads, HoldLocks, LockedAlone, LockUsed, GateOwned,
      GatesAtHome,
      ProcessEnds, NoHold, HoldOf, Held, InHold, Steps, Hold, Labels

LEMMA LockStepKeeps == LockInv /\ [LockNext]_lockVars => LockInv'
<1> SUFFICES ASSUME LockInv, [LockNext]_lockVars PROVE LockInv'
  OBVIOUS
<1>1. ASSUME NEW t \in Threads, LockStep(t) PROVE LockInv'
  <2>1. CASE SeeNoHold(t) \/ Miss(t) \/ Refuse(t) \/ GiveUpGate(t)
    BY <2>1, Quiet
  <2>2. CASE JoinHold(t) \/ JoinLate(t)
    BY <2>2, Joining DEF JoinHold, JoinLate, At
  <2>3. CASE TakeLock(t)
    BY <2>3, Locking
  <2>4. CASE Publish(t)
    BY <2>4, Publishing
  <2>5. CASE PassGate(t)
    BY <2>5, Passing
  <2>6. CASE LeaveGate(t) \/ Leave(t)
    BY <2>6, Leaving
  <2>7. CASE BeginRotation(t) \/ EndRotation(t)
    BY <2>7, Labelling
  <2> QED BY <1>1, <2>1, <2>2, <2>3, <2>4, <2>5, <2>6, <2>7 DEF LockStep, Ask
<1>2. ASSUME NEW p \in Procs, ProcessEnds(p) PROVE LockInv'
  BY <1>2, Ending
<1>3. CASE UNCHANGED lockVars
  BY <1>3 DEF lockVars, LockInv, LockTypeOK, Membership, OwnThreads, HoldLocks, LockedAlone,
              LockUsed, GateOwned, GatesAtHome, HoldOf, Held
<1> QED BY <1>1, <1>2, <1>3 DEF LockNext

\* The inductive invariant of the lock: what flock, the registry of holds and
\* the threads' places in _chain_lock say of one another.
THEOREM LockInvariant == LockSpec => []LockInv
<1>1. LockInit => LockInv BY LockInitially
<1>2. LockInv /\ [LockNext]_lockVars => LockInv' BY LockStepKeeps
<1> QED BY <1>1, <1>2, PTL DEF LockSpec

LEMMA InvExcludes == LockInv => OneInside
<1> SUFFICES ASSUME LockInv, NEW s \in Threads, NEW t \in Threads,
                    pc[s] = "inside", pc[t] = "inside"
             PROVE  s = t
  BY DEF OneInside
<1>1. s \in HoldOf(s).members /\ t \in HoldOf(t).members
  BY DEF LockInv, Membership, InHold
<1>2. flock = ProcOf[s] /\ flock = ProcOf[t]
  BY <1>1, ThreadsAssumption DEF LockInv, HoldLocks, HoldOf
<1>3. HoldOf(s).gate = s /\ HoldOf(t).gate = t
  BY DEF LockInv, GateOwned
<1> QED BY <1>2, <1>3 DEF HoldOf

\* Two threads are never both between the gate and its release, whatever
\* joins, promotions, refusals and ends of processes there are: the read of
\* the tip, the chaining and the append are one step (_chain_lock).
THEOREM ChainExclusion == LockSpec => []OneInside
  BY LockInvariant, InvExcludes, PTL

\* The file is unlocked and the registry is empty as soon as no thread is in
\* the protocol: no audit waits for a lock that nobody is left to give back.
THEOREM LockGivenBack == LockSpec => []NothingLeftLocked
<1>1. LockInv => NothingLeftLocked
  <2> SUFFICES ASSUME LockInv PROVE NothingLeftLocked
    OBVIOUS
  <2>1. flock = NoProc => \A t \in Threads: pc[t] \in {"idle", "lock", "missed"}
    BY ThreadsAssumption
    DEF LockInv, LockTypeOK, Steps, Membership, HoldLocks, LockedAlone, HoldOf, InHold
  <2>2. (\A t \in Threads: pc[t] \in {"idle", "lock", "missed"}) => flock = NoProc
    BY DEF LockInv, LockUsed, InHold
  <2>3. ASSUME NEW p \in Procs
        PROVE  hold[p].members = {t \in Threads: ProcOf[t] = p /\ pc[t] \in InHold}
    BY DEF LockInv, LockTypeOK, Hold, Membership, OwnThreads, HoldOf
  <2> QED BY <2>1, <2>2, <2>3 DEF NothingLeftLocked, InHold
<1> QED BY <1>1, LockInvariant, PTL

-----------------------------------------------------------------------------
(* What the log does to the lock is a step of the lock's protocol.            *)

LEMMA StepsOfTheLock == [Next]_vars => [LockNext]_lockVars
<1> SUFFICES ASSUME [Next]_vars PROVE [LockNext]_lockVars
  OBVIOUS
<1>1. ASSUME NEW p \in Procs, StartReadTip(p) \/ StartLook(p) \/ Enqueue(p)
      PROVE  UNCHANGED lockVars
  BY <1>1 DEF StartReadTip, StartLook, Enqueue
<1>2. ASSUME NEW p \in Procs, Kill(p) PROVE LockNext
  BY <1>2 DEF Kill, LockNext
<1>3. ASSUME NEW t \in Threads, TakeBatch(t) \/ LogCritical(t) \/ BeginPrune(t)
      PROVE  LockStep(t) \/ UNCHANGED lockVars
  BY <1>3 DEF TakeBatch, LogCritical, BeginPrune, RefuseAtOnce, LockStep
<1>4. ASSUME NEW t \in Threads, Finish(t) PROVE LockStep(t)
  BY <1>4 DEF Finish, LockStep
<1>5. ASSUME NEW t \in Threads, Work(t) PROVE LockStep(t) \/ UNCHANGED lockVars
  <2>1. CASE Approach(t) \/ TurnedAway(t) \/ Enter(t)
    BY <2>1 DEF Approach, TurnedAway, Enter, LockStep
  <2>2. CASE Anchor(t) \/ RotateFails(t) \/ Retain(t)
    BY <2>2 DEF Anchor, RotateFails, Retain, LockStep
  <2>3. CASE Rotate(t) \/ RecordRotation(t)
    BY <2>3 DEF Rotate, RecordRotation
  <2>4. CASE Chain(t)
    BY <1>4, <2>4 DEF Chain
  <2>5. CASE Write(t)
    BY <1>4, <2>5 DEF Write
  <2>6. CASE Sweep(t)
    BY <1>4, <2>6 DEF Sweep
  <2>7. CASE Rewrite(t)
    BY <1>4, <2>7 DEF Rewrite
  <2> QED BY <1>5, <2>1, <2>2, <2>3, <2>4, <2>5, <2>6, <2>7 DEF Work
<1>6. CASE UNCHANGED vars
  BY <1>6 DEF vars
<1> QED BY <1>1, <1>2, <1>3, <1>5, <1>6 DEF Next, LockNext

\* The log follows the lock's protocol: what is proved of the protocol alone
\* holds of every writer, loop and prune of the log.
THEOREM LogFollowsLock == Spec => LockSpec
<1>1. Init => LockInit
  BY DEF Init
<1> QED BY <1>1, StepsOfTheLock, PTL DEF Spec, LockSpec

\* No two threads of any process are between the gate and its release, in any
\* run of the log: rotation, prune and append exclude one another.
THEOREM LogExclusion == Spec => []OneInside
  BY LogFollowsLock, ChainExclusion, PTL

-----------------------------------------------------------------------------
(* The lines of a file, and the last record before one of them.               *)

LEMMA Largest ==
  ASSUME NEW m \in Nat, NEW T \in SUBSET (0 .. m), T # {}
  PROVE  \E x \in T: \A y \in T: y <= x
<1> DEFINE D == {m - x: x \in T}
<1>1. D \in SUBSET Nat /\ D # {}
  <2>1. \A x \in T: m - x \in Nat
    OBVIOUS
  <2> QED BY <2>1
<1> HIDE DEF D
<1>2. PICK d \in D: \A e \in D: d <= e
  BY <1>1, Smallest
<1>3. PICK x \in T: d = m - x
  BY DEF D
<1>4. ASSUME NEW y \in T PROVE y <= x
  <2>1. m - y \in D
    BY DEF D
  <2>2. d <= m - y
    BY <1>2, <2>1
  <2> QED BY <1>3, <2>2
<1> QED BY <1>4

\* Lines whose events come before event n.
Lines(n) == Seq([ev: 0 .. n - 1, prev: Nat])

LEMMA LinesAreLines ==
  ASSUME NEW n \in Nat, NEW lines \in Lines(n)
  PROVE  /\ lines \in Seq(Line) /\ Len(lines) \in Nat /\ DOMAIN lines = 1 .. Len(lines)
         /\ \A i \in 1 .. Len(lines): lines[i].ev \in 0 .. n - 1 /\ lines[i].prev \in Nat
<1>1. [ev: 0 .. n - 1, prev: Nat] \subseteq Line
  BY DEF Line
<1>2. \A i \in 1 .. Len(lines): lines[i] \in [ev: 0 .. n - 1, prev: Nat]
  BY ElementOfSeq DEF Lines
<1> QED BY <1>1, <1>2, SeqMonotonic, LenProperties DEF Lines

LEMMA MoreLines ==
  ASSUME NEW n \in Nat, NEW m \in Nat, n <= m, NEW lines \in Lines(n)
  PROVE  lines \in Lines(m)
<1>1. [ev: 0 .. n - 1, prev: Nat] \subseteq [ev: 0 .. m - 1, prev: Nat]
  OBVIOUS
<1> QED BY <1>1, SeqMonotonic DEF Lines

\* Line j holds the last record before line i.
LastAt(lines, j, i) ==
  /\ j \in Records(lines) /\ j < i
  /\ \A k \in Records(lines): k < i => k <= j

LEMMA LastBeforeAt ==
  ASSUME NEW lines \in Seq(Line), NEW i \in Nat, NEW j, LastAt(lines, j, i)
  PROVE  LastBefore(lines, i) = lines[j].ev
<1> DEFINE before == {k \in Records(lines): k < i}
<1>1. before \in SUBSET Nat
  BY LenProperties DEF Records
<1>2. j \in before /\ \A k \in before: k <= j
  BY DEF LastAt
<1>3. (CHOOSE x \in before: \A k \in before: k <= x) = j
  <2> DEFINE x == CHOOSE x \in before: \A k \in before: k <= x
  <2> HIDE DEF before
  <2>1. x \in before /\ \A k \in before: k <= x
    BY <1>2
  <2>2. x <= j /\ j <= x /\ x \in Nat /\ j \in Nat
    BY <1>1, <1>2, <2>1
  <2> QED BY <2>2
<1> QED BY <1>2, <1>3 DEF LastBefore

LEMMA LastBeforeNone ==
  ASSUME NEW lines, NEW i, \A k \in Records(lines): ~(k < i)
  PROVE  LastBefore(lines, i) = 0
  BY DEF LastBefore

LEMMA LastBeforeCases ==
  ASSUME NEW lines \in Seq(Line), NEW i \in Nat
  PROVE  (\A k \in Records(lines): ~(k < i)) \/ \E j: LastAt(lines, j, i)
<1> DEFINE before == {k \in Records(lines): k < i}
<1>1. before \in SUBSET (0 .. i)
  BY LenProperties DEF Records
<1>2. ASSUME before # {} PROVE \E j: LastAt(lines, j, i)
  <2>1. PICK j \in before: \A k \in before: k <= j
    <3> HIDE DEF before
    <3> QED BY <1>1, <1>2, Largest
  <2> QED BY <2>1 DEF LastAt
<1> QED BY <1>2

LEMMA LastBeforeType ==
  ASSUME NEW n \in Nat \ {0}, NEW lines \in Lines(n), NEW i \in Nat
  PROVE  LastBefore(lines, i) \in 0 .. n - 1
<1>1. ASSUME NEW j, LastAt(lines, j, i) PROVE LastBefore(lines, i) \in 0 .. n - 1
  <2>1. j \in 1 .. Len(lines) /\ LastBefore(lines, i) = lines[j].ev
    BY <1>1, LastBeforeAt, LinesAreLines DEF LastAt, Records
  <2> QED BY <2>1, LinesAreLines
<1> QED BY <1>1, LastBeforeCases, LastBeforeNone, LinesAreLines

\* A file that grew keeps what comes before each of its lines.
LEMMA LastBeforeKept ==
  ASSUME NEW s \in Seq(Line), NEW t \in Seq(Line), Len(s) <= Len(t),
         \A k \in 1 .. Len(s): t[k] = s[k],
         NEW i \in Nat, i <= Len(s) + 1
  PROVE  LastBefore(t, i) = LastBefore(s, i)
<1>1. /\ Len(s) \in Nat /\ DOMAIN s = 1 .. Len(s)
      /\ Len(t) \in Nat /\ DOMAIN t = 1 .. Len(t)
  BY LenProperties
<1>2. \A k \in Nat: k < i => (k \in Records(t) <=> k \in Records(s))
  BY <1>1 DEF Records
<1>3. Records(s) \subseteq Nat /\ Records(t) \subseteq Nat
  BY <1>1 DEF Records
<1>4. ASSUME NEW j, LastAt(s, j, i) PROVE LastBefore(t, i) = LastBefore(s, i)
  <2>1. LastAt(t, j, i)
    BY <1>2, <1>3, <1>4 DEF LastAt
  <2>2. t[j] = s[j]
    BY <1>1, <1>4 DEF LastAt, Records
  <2> QED BY <1>4, <2>1, <2>2, LastBeforeAt
<1>5. ASSUME \A k \in Records(s): ~(k < i) PROVE LastBefore(t, i) = LastBefore(s, i)
  <2>1. \A k \in Records(t): ~(k < i)
    BY <1>2, <1>3, <1>5
  <2> QED BY <1>5, <2>1, LastBeforeNone
<1> QED BY <1>4, <1>5, LastBeforeCases

-----------------------------------------------------------------------------
(* An append, whole or interrupted.                                           *)

LEMMA ChainedType ==
  ASSUME NEW n \in Nat \ {0}, NEW events \in Seq(1 .. n - 1), NEW from \in 0 .. n - 1
  PROVE  /\ Chained(events, from) \in Lines(n)
         /\ Len(Chained(events, from)) = Len(events)
<1>1. Len(events) \in Nat /\ DOMAIN events = 1 .. Len(events)
  BY LenProperties
<1>2. \A i \in 1 .. Len(events): events[i] \in 1 .. n - 1
  BY ElementOfSeq
<1> DEFINE record(i) == [ev |-> events[i], prev |-> IF i = 1 THEN from ELSE events[i - 1]]
<1>3. Chained(events, from) = [i \in 1 .. Len(events) |-> record(i)]
  BY <1>1 DEF Chained
<1>4. ASSUME NEW i \in 1 .. Len(events) PROVE record(i) \in [ev: 0 .. n - 1, prev: Nat]
  <2>1. i # 1 => i - 1 \in 1 .. Len(events)
    BY <1>1
  <2>2. (IF i = 1 THEN from ELSE events[i - 1]) \in Nat /\ events[i] \in 0 .. n - 1
    BY <1>2, <2>1
  <2> QED BY <2>2
<1> HIDE DEF record
<1> QED BY <1>1, <1>3, <1>4 DEF Lines

LEMMA ChainedProperties ==
  ASSUME NEW n \in Nat \ {0}, NEW events \in Seq(1 .. n - 1), NEW from \in 0 .. n - 1
  PROVE  /\ Chained(events, from) \in Lines(n)
         /\ Len(Chained(events, from)) = Len(events)
         /\ \A i \in 1 .. Len(events):
              /\ Chained(events, from)[i].ev = events[i] /\ events[i] \in 1 .. n - 1
              /\ Chained(events, from)[i].prev = IF i = 1 THEN from ELSE events[i - 1]
<1>1. Len(events) \in Nat /\ DOMAIN events = 1 .. Len(events)
  BY LenProperties
<1>2. \A i \in 1 .. Len(events): events[i] \in 1 .. n - 1
  BY ElementOfSeq
<1> DEFINE record(i) == [ev |-> events[i], prev |-> IF i = 1 THEN from ELSE events[i - 1]]
<1>3. Chained(events, from) = [i \in 1 .. Len(events) |-> record(i)]
  BY <1>1 DEF Chained
<1>5. /\ Chained(events, from) \in Lines(n)
      /\ Len(Chained(events, from)) = Len(events)
  BY ChainedType
<1>6. \A i \in 1 .. Len(events): Chained(events, from)[i] = record(i)
  <2> HIDE DEF record
  <2> QED BY <1>3
<1>7. \A i \in 1 .. Len(events):
        record(i).ev = events[i] /\ record(i).prev = IF i = 1 THEN from ELSE events[i - 1]
  OBVIOUS
<1> HIDE DEF record
<1> QED BY <1>2, <1>5, <1>6, <1>7

\* Of the records, the first ones, and then perhaps a part of the next.
BeginOf(part, records) ==
  \E n \in 0 .. Len(records):
    /\ \A i \in 1 .. n: part[i] = records[i]
    /\ Len(part) = n \/ (Len(part) = n + 1 /\ part[n + 1] = Torn)

LEMMA InterruptedProperties ==
  ASSUME NEW n \in Nat \ {0}, NEW t, job[t] \in Seq(1 .. n - 1), tip[Me(t)] \in 0 .. n - 1,
         NEW part \in Interrupted(t)
  PROVE  part \in Lines(n) /\ BeginOf(part, Chained(job[t], tip[Me(t)]))
<1> DEFINE records == Chained(job[t], tip[Me(t)])
<1>1. records \in Lines(n) /\ Len(records) = Len(job[t])
  BY ChainedProperties
<1>2. Len(records) \in Nat /\ \A i \in 1 .. Len(records): records[i] \in [ev: 0 .. n - 1, prev: Nat]
  <2> HIDE DEF records
  <2> QED BY <1>1, LenProperties, ElementOfSeq DEF Lines
<1>3. \/ \E k \in 0 .. Len(records): part = SubSeq(records, 1, k)
      \/ \E k \in 0 .. Len(records): part = Append(SubSeq(records, 1, k), Torn)
  <2>1. Len(job[t]) \in Nat /\ Len(job[t]) = Len(records)
    BY <1>1, LenProperties
  <2>2. \A k \in 0 .. Len(records) - 1: k \in 0 .. Len(records)
    BY <1>2
  <2>3. part \in {SubSeq(records, 1, k): k \in 0 .. Len(records)}
                \cup {Append(SubSeq(records, 1, k), Torn): k \in 0 .. (Len(records) - 1)}
    BY <2>1 DEF Interrupted
  <2> HIDE DEF records
  <2> QED BY <2>2, <2>3
<1> HIDE DEF records
<1>4. ASSUME NEW k \in 0 .. Len(records)
      PROVE  /\ SubSeq(records, 1, k) \in Lines(n) /\ Len(SubSeq(records, 1, k)) = k
             /\ \A i \in 1 .. k: SubSeq(records, 1, k)[i] = records[i]
  <2>1. \A i \in 1 .. k: records[i] \in [ev: 0 .. n - 1, prev: Nat]
    BY <1>2
  <2>2. 1 \in Int /\ k \in Int /\ k - 1 + 1 = k /\ (~(1 <= k) => k = 0)
    BY <1>2
  <2>3. /\ SubSeq(records, 1, k) \in Lines(n)
        /\ Len(SubSeq(records, 1, k)) = IF 1 <= k THEN k - 1 + 1 ELSE 0
        /\ \A i \in 1 .. k - 1 + 1: SubSeq(records, 1, k)[i] = records[1 + i - 1]
    BY <2>1, <2>2, SubSeqProperties DEF Lines
  <2>4. \A i \in 1 .. k: 1 + i - 1 = i
    OBVIOUS
  <2> QED BY <2>2, <2>3, <2>4
<1>5. ASSUME NEW k \in 0 .. Len(records), part = SubSeq(records, 1, k)
      PROVE  part \in Lines(n) /\ BeginOf(part, records)
  BY <1>4, <1>5 DEF BeginOf
<1>6. ASSUME NEW k \in 0 .. Len(records), part = Append(SubSeq(records, 1, k), Torn)
      PROVE  part \in Lines(n) /\ BeginOf(part, records)
  <2> DEFINE whole == SubSeq(records, 1, k)
  <2>1. whole \in Lines(n) /\ Len(whole) = k /\ \A i \in 1 .. k: whole[i] = records[i]
    BY <1>4
  <2>2. Torn \in [ev: 0 .. n - 1, prev: Nat]
    BY DEF Torn
  <2> HIDE DEF whole
  <2>3. /\ Append(whole, Torn) \in Lines(n) /\ Len(Append(whole, Torn)) = k + 1
        /\ \A i \in 1 .. k: Append(whole, Torn)[i] = whole[i]
        /\ Append(whole, Torn)[k + 1] = Torn
    BY <2>1, <2>2, AppendProperties DEF Lines
  <2> QED BY <1>6, <2>1, <2>3 DEF BeginOf, whole
<1> QED BY <1>3, <1>5, <1>6 DEF records

LEMMA WholeBegins ==
  ASSUME NEW n \in Nat, NEW records \in Lines(n)
  PROVE  BeginOf(records, records) /\ BeginOf(<<>>, records) /\ <<>> \in Lines(n)
<1>1. Len(records) \in Nat
  BY LenProperties DEF Lines
<1> QED BY <1>1, EmptySeq DEF BeginOf, Lines

LEMMA AppendedLines ==
  ASSUME NEW n \in Nat, NEW lines \in Lines(n), NEW part \in Lines(n)
  PROVE  /\ lines \o part \in Lines(n) /\ Len(lines \o part) = Len(lines) + Len(part)
         /\ Len(lines) \in Nat /\ Len(part) \in Nat
         /\ \A k \in 1 .. Len(lines): (lines \o part)[k] = lines[k]
         /\ \A k \in 1 .. Len(part): /\ (lines \o part)[Len(lines) + k] = part[k]
                                     /\ Len(lines) + k \in 1 .. Len(lines \o part)
<1>1. Len(lines) \in Nat /\ Len(part) \in Nat
  BY LenProperties DEF Lines
<1>2. /\ lines \o part \in Lines(n) /\ Len(lines \o part) = Len(lines) + Len(part)
      /\ \A i \in 1 .. Len(lines) + Len(part) :
           (lines \o part)[i] = IF i <= Len(lines) THEN lines[i] ELSE part[i - Len(lines)]
  BY ConcatProperties DEF Lines
<1>3. \A k \in 1 .. Len(part): /\ Len(lines) + k \in 1 .. Len(lines) + Len(part)
                               /\ ~(Len(lines) + k <= Len(lines))
                               /\ Len(lines) + k - Len(lines) = k
  BY <1>1
<1> QED BY <1>1, <1>2, <1>3

LEMMA EventsKept ==
  ASSUME NEW n \in Nat, NEW lines \in Lines(n), NEW part \in Lines(n)
  PROVE  /\ Events(lines) \subseteq Events(lines \o part)
         /\ Events(part) \subseteq Events(lines \o part)
<1> DEFINE all == lines \o part
<1>1. /\ DOMAIN lines = 1 .. Len(lines) /\ DOMAIN part = 1 .. Len(part)
      /\ DOMAIN all = 1 .. Len(all)
  BY LinesAreLines, AppendedLines
<1>2. ASSUME NEW i \in Records(lines) PROVE lines[i].ev \in Events(all)
  <2>1. i \in 1 .. Len(all) /\ all[i] = lines[i] /\ lines[i].ev # 0
    BY <1>1, AppendedLines DEF Records
  <2> QED BY <1>1, <2>1 DEF Events, Records
<1>3. ASSUME NEW i \in Records(part) PROVE part[i].ev \in Events(all)
  <2>1. Len(lines) + i \in 1 .. Len(all) /\ all[Len(lines) + i] = part[i] /\ part[i].ev # 0
    <3>1. i \in 1 .. Len(part) /\ part[i].ev # 0
      BY <1>1 DEF Records
    <3> QED BY <3>1, AppendedLines
  <2> QED BY <1>1, <2>1 DEF Events, Records
<1> QED BY <1>2, <1>3 DEF Events

\* Every record of the file names the one before it, or a pruned one.
Intact(lines, gone) == \A i \in Records(lines): Follows(lines, i) \/ lines[i].prev \in gone

LEMMA AppendKeepsIntact ==
  ASSUME NEW n \in Nat \ {0}, NEW lines \in Lines(n), NEW events \in Seq(1 .. n - 1),
         NEW part \in Lines(n), BeginOf(part, Chained(events, LastRecord(lines))),
         NEW gone, Intact(lines, gone)
  PROVE  Intact(lines \o part, gone)
<1> DEFINE from == LastRecord(lines)
           all == lines \o part
<1>1. Len(lines) \in Nat /\ lines \in Seq(Line) /\ DOMAIN lines = 1 .. Len(lines)
  BY LinesAreLines
<1>2. from \in 0 .. n - 1
  BY <1>1, LastBeforeType DEF LastRecord
<1>3. /\ Len(Chained(events, from)) = Len(events)
      /\ \A i \in 1 .. Len(events):
           /\ Chained(events, from)[i].ev = events[i] /\ events[i] \in 1 .. n - 1
           /\ Chained(events, from)[i].prev = IF i = 1 THEN from ELSE events[i - 1]
  BY <1>2, ChainedProperties
<1>4. /\ all \in Lines(n) /\ Len(all) = Len(lines) + Len(part) /\ Len(part) \in Nat
      /\ \A k \in 1 .. Len(lines): all[k] = lines[k]
      /\ \A k \in 1 .. Len(part): all[Len(lines) + k] = part[k]
  BY AppendedLines
<1>40. \A k \in 1 .. Len(part): all[Len(lines) + k] = part[k]
  BY <1>4
<1>5. PICK m \in 0 .. Len(events):
        /\ \A i \in 1 .. m: part[i] = Chained(events, from)[i]
        /\ Len(part) = m \/ (Len(part) = m + 1 /\ part[m + 1] = Torn)
  BY <1>3 DEF BeginOf
<1>6. all \in Seq(Line) /\ DOMAIN all = 1 .. Len(all) /\ Len(events) \in Nat
  BY <1>4, LinesAreLines, LenProperties
<1> HIDE DEF all
<1>7. SUFFICES ASSUME NEW i \in Records(all) PROVE Follows(all, i) \/ all[i].prev \in gone
  BY DEF Intact, all
<1>8. i \in 1 .. Len(lines) + Len(part) /\ all[i].ev # 0
  BY <1>4, <1>6 DEF Records
<1>9. CASE i \in 1 .. Len(lines)
  <2>1. i \in Records(lines) /\ all[i] = lines[i]
    BY <1>1, <1>4, <1>8, <1>9 DEF Records
  <2>2. Len(lines) <= Len(all) /\ i \in Nat /\ i <= Len(lines) + 1
    BY <1>1, <1>4, <1>9
  <2>3. LastBefore(all, i) = LastBefore(lines, i)
    BY <1>1, <1>4, <1>6, <2>2, LastBeforeKept
  <2> QED BY <2>1, <2>3 DEF Intact, Follows
<1>10. CASE i \notin 1 .. Len(lines)
  <2> DEFINE k == i - Len(lines)
  <2>1. k \in 1 .. Len(part) /\ i = Len(lines) + k
    BY <1>1, <1>4, <1>8, <1>10
  <2>2. all[i] = part[k]
    BY <1>4, <2>1
  <2>3. k \in 1 .. m
    <3>1. k # m + 1 \/ Len(part) = m
      BY <1>5, <1>8, <2>2 DEF Torn
    <3> QED BY <1>5, <1>6, <2>1, <3>1
  <2> HIDE DEF k
  <2>4. all[i].prev = (IF k = 1 THEN from ELSE events[k - 1]) /\ k \in 1 .. Len(events)
    <3>1. k \in 1 .. Len(events)
      BY <1>6, <2>3
    <3>2. part[k] = Chained(events, from)[k]
      BY <1>5, <2>3
    <3> QED BY <1>3, <2>2, <3>1, <3>2
  <2>5. CASE k = 1
    <3>1. i = Len(lines) + 1 /\ Len(lines) <= Len(all) /\ i \in Nat
      BY <1>1, <1>4, <2>1, <2>5
    <3>2. i <= Len(lines) + 1
      BY <1>1, <3>1
    <3>3. LastBefore(all, i) = LastBefore(lines, i)
      BY <1>1, <1>4, <1>6, <3>1, <3>2, LastBeforeKept
    <3> QED BY <2>4, <2>5, <3>1, <3>3 DEF Follows, LastRecord
  <2>6. CASE k # 1
    <3>1. k - 1 \in 1 .. m /\ k - 1 \in 1 .. Len(part) /\ k - 1 \in 1 .. Len(events)
          /\ i - 1 = Len(lines) + (k - 1)
      <4>1. k \in Nat /\ k > 1 /\ Len(lines) \in Nat
        BY <1>1, <2>1, <2>6
      <4>2. k - 1 \in Nat \ {0} /\ k - 1 < k /\ i - 1 = Len(lines) + (k - 1)
        BY <2>1, <4>1
      <4>3. k <= m /\ k <= Len(part) /\ k <= Len(events)
        BY <2>1, <2>3, <2>4
      <4>4. k \in Nat /\ Len(events) \in Nat /\ Len(part) \in Nat /\ m \in Nat
        BY <1>4, <1>6, <4>1
      <4>5. \A z \in Nat: k <= z => k - 1 \in 1 .. z
        BY <4>2, <4>4
      <4> QED BY <4>2, <4>3, <4>4, <4>5
    <3>2. all[i - 1].ev = events[k - 1] /\ events[k - 1] # 0
      <4>1. all[i - 1] = part[k - 1]
        <5>1. k - 1 \in 1 .. Len(part)
          BY <3>1
        <5>2. all[Len(lines) + (k - 1)] = part[k - 1]
          BY <5>1, <1>40
        <5> QED BY <3>1, <5>2
      <4>2. part[k - 1] = Chained(events, from)[k - 1]
        BY <1>5, <3>1
      <4>3. Chained(events, from)[k - 1].ev = events[k - 1] /\ events[k - 1] # 0
        BY <1>3, <3>1
      <4> QED BY <4>1, <4>2, <4>3
    <3>3. i - 1 \in 1 .. Len(all) /\ i \in Nat
      <4> HIDE DEF from
      <4> QED BY <1>1, <1>4, <2>1, <3>1
    <3>4. LastAt(all, i - 1, i)
      BY <1>6, <3>2, <3>3 DEF LastAt, Records
    <3>5. LastBefore(all, i) = all[i - 1].ev
      BY <1>6, <3>3, <3>4, LastBeforeAt
    <3> QED BY <2>4, <2>6, <3>2, <3>5 DEF Follows
  <2> QED BY <2>5, <2>6
<1> QED BY <1>9, <1>10

-----------------------------------------------------------------------------
(* What a prune keeps of the log.                                             *)

LEMMA KeptProperties ==
  ASSUME NEW n \in Nat \ {0}, NEW lines \in Lines(n), NEW cutoff \in Nat \ {0}, NEW gone,
         Intact(lines, gone)
  PROVE  LET keep == Picked(lines, {line \in Range(lines): line.ev >= cutoff})
             drop == {e \in Events(lines): e < cutoff}
         IN  /\ keep \in Lines(n)
             /\ Intact(keep, gone \cup drop)
             /\ Events(lines) \subseteq Events(keep) \cup drop
<1> DEFINE young == {line \in Range(lines): line.ev >= cutoff}
           keep == Picked(lines, young)
           drop == {e \in Events(lines): e < cutoff}
<1>1. /\ lines \in Seq(Line) /\ Len(lines) \in Nat /\ DOMAIN lines = 1 .. Len(lines)
      /\ \A i \in 1 .. Len(lines): lines[i].ev \in 0 .. n - 1
  BY LinesAreLines
<1>2. \A i \in 1 .. Len(lines): lines[i].ev >= cutoff <=> lines[i] \in young
  BY <1>1 DEF Range
<1>3. keep \in Lines(n) /\ \E from: PickedAt(lines, young, keep, from)
  <2> HIDE DEF young
  <2> QED BY PickedProperties DEF Lines
<1> HIDE DEF young, keep
<1>4. PICK from: PickedAt(lines, young, keep, from)
  BY <1>3
<1>5. /\ from \in [1 .. Len(keep) -> 1 .. Len(lines)]
      /\ \A i \in 1 .. Len(keep): keep[i] = lines[from[i]] /\ keep[i] \in young
      /\ \A i, j \in 1 .. Len(keep): i < j => from[i] < from[j]
      /\ \A k \in 1 .. Len(lines): lines[k] \in young => \E i \in 1 .. Len(keep): from[i] = k
  BY <1>4 DEF PickedAt, PickedOf
<1>6. keep \in Seq(Line) /\ Len(keep) \in Nat /\ DOMAIN keep = 1 .. Len(keep)
  BY <1>3, LinesAreLines
<1>7. \A i \in 1 .. Len(keep): i \in Records(keep) /\ from[i] \in Records(lines)
                                /\ keep[i].ev >= cutoff /\ from[i] \in 1 .. Len(lines)
  <2>1. \A i \in 1 .. Len(keep): keep[i].ev >= cutoff /\ from[i] \in 1 .. Len(lines)
    BY <1>2, <1>5
  <2>2. \A i \in 1 .. Len(keep): keep[i].ev # 0
    BY <1>1, <1>5, <2>1
  <2> QED BY <1>1, <1>5, <1>6, <2>1, <2>2 DEF Records
<1>8. Events(lines) \subseteq Events(keep) \cup drop
  <2>1. SUFFICES ASSUME NEW k \in Records(lines), ~(lines[k].ev < cutoff)
                 PROVE  lines[k].ev \in Events(keep)
    BY DEF Events
  <2>2. k \in 1 .. Len(lines) /\ lines[k].ev >= cutoff
    BY <1>1, <2>1 DEF Records
  <2>3. PICK i \in 1 .. Len(keep): from[i] = k
    BY <1>2, <1>5, <2>2
  <2> QED BY <1>5, <1>7, <2>3 DEF Events
<1>9. Intact(keep, gone \cup drop)
  <2>1. SUFFICES ASSUME NEW i \in 1 .. Len(keep), keep[i].prev \notin gone \cup drop
                 PROVE  keep[i].prev = LastBefore(keep, i)
    BY <1>6 DEF Intact, Follows, Records
  <2> DEFINE k == from[i]
  <2>2. k \in Records(lines) /\ k \in 1 .. Len(lines) /\ keep[i] = lines[k]
    BY <1>5, <1>7
  <2>3. lines[k].prev = LastBefore(lines, k)
    BY <2>1, <2>2 DEF Intact, Follows
  <2>4. i \in Nat /\ k \in Nat
    BY <1>1, <1>6, <2>2
  <2>5. ASSUME \A j \in Records(lines): ~(j < k) PROVE keep[i].prev = LastBefore(keep, i)
    <3>1. \A j \in Records(keep): ~(j < i)
      <4>1. SUFFICES ASSUME NEW j \in 1 .. Len(keep), j < i PROVE FALSE
        BY <1>6 DEF Records
      <4>2. from[j] < k /\ from[j] \in Records(lines)
        BY <1>5, <1>7, <4>1
      <4> QED BY <2>5, <4>2
    <3> QED BY <2>2, <2>3, <2>5, <3>1, LastBeforeNone
  <2>6. ASSUME NEW j, LastAt(lines, j, k) PROVE keep[i].prev = LastBefore(keep, i)
    <3>1. keep[i].prev = lines[j].ev /\ j \in Records(lines) /\ j \in 1 .. Len(lines) /\ j < k
      BY <1>1, <2>2, <2>3, <2>4, <2>6, LastBeforeAt DEF LastAt, Records
    <3>2. lines[j].ev >= cutoff
      <4>1. lines[j].ev \in Events(lines) /\ lines[j].ev \notin drop
        BY <2>1, <3>1 DEF Events
      <4> QED BY <1>1, <3>1, <4>1
    <3>3. PICK b \in 1 .. Len(keep): from[b] = j
      BY <1>2, <1>5, <3>1, <3>2
    <3>4. b < i
      <4>1. ~(i < b) /\ i # b
        BY <1>1, <1>5, <2>4, <3>1, <3>3
      <4> QED BY <1>6, <4>1
    <3>5. ASSUME NEW c \in Records(keep), c < i PROVE c <= b
      <4>1. c \in 1 .. Len(keep) /\ from[c] \in Records(lines) /\ from[c] < k
        BY <1>5, <1>6, <1>7, <3>5 DEF Records
      <4>2. from[c] <= j
        BY <2>6, <4>1 DEF LastAt
      <4>3. ~(b < c)
        BY <1>1, <1>5, <1>7, <3>1, <3>3, <4>1, <4>2
      <4> QED BY <1>6, <4>1, <4>3
    <3>6. LastAt(keep, b, i)
      BY <1>7, <3>4, <3>5 DEF LastAt
    <3>7. LastBefore(keep, i) = keep[b].ev
      BY <1>6, <2>4, <3>6, LastBeforeAt
    <3> QED BY <1>5, <3>1, <3>3, <3>7
  <2> QED BY <1>1, <2>4, <2>5, <2>6, LastBeforeCases
<1> QED BY <1>3, <1>8, <1>9 DEF keep, young

-----------------------------------------------------------------------------
(* The inductive invariant of the log: types.                                 *)

LogPlaces ==
  {"out", "anchor", "rotate", "record", "retain", "chain", "write", "sweep", "rewrite"}

\* Types while the events before event n are known.
DiskTypes(n) ==
  /\ live \in [ino: Nat, lines: Lines(n)]
  /\ segs \in Seq([seq: Nat, lines: Lines(n)])
  /\ inos \in Nat /\ live.ino <= inos
  /\ live.ino = 0 => live.lines = <<>>
MemTypes(n) ==
  /\ up \in [Procs -> {"down", "starting", "up"}]
  /\ tip \in [Procs -> 0 .. n - 1]
  /\ seen \in [Procs -> [ino: 0 .. inos, size: Nat]]
  /\ queue \in [Procs -> Seq(1 .. n - 1)]
WorkTypes(n) ==
  /\ at \in [Threads -> LogPlaces]
  /\ job \in [Threads -> Seq(1 .. n - 1)]
  /\ tries \in [Threads -> 0 .. AppendRetries]
  /\ copy \in [Threads -> [keep: Lines(n), drop: SUBSET Nat]]

LogTypes ==
  next \in Nat \ {0} /\ DiskTypes(next) /\ MemTypes(next) /\ WorkTypes(next)

\* A thread stands where its part under the lock has brought it: in it while
\* it is inside the lock, and with something to append unless it prunes.
PlacedAt(t) ==
  /\ at[t] = "out" <=> pc[t] # "inside"
  /\ at[t] \in {"anchor", "rotate", "record", "retain"} => t \in Writers
  /\ at[t] \in {"sweep", "rewrite"} <=> t \in PruneThreads /\ pc[t] = "inside"
  /\ pc[t] # "idle" => up[Me(t)] = "up"
  /\ pc[t] \notin {"idle", "leave"} /\ t \notin PruneThreads => job[t] # <<>>
Placed == \A t \in Threads: PlacedAt(t)

\* The file a thread is about to write is there.
WriteOpen == \A t \in Threads: at[t] = "write" => live.ino # 0

LEMMA LinesGrow ==
  ASSUME NEW n \in Nat, NEW m \in Nat, n <= m
  PROVE  /\ Lines(n) \subseteq Lines(m)
         /\ Seq(1 .. n - 1) \subseteq Seq(1 .. m - 1)
         /\ 0 .. n - 1 \subseteq 0 .. m - 1
         /\ Seq([seq: Nat, lines: Lines(n)]) \subseteq Seq([seq: Nat, lines: Lines(m)])
<1>1. Lines(n) \subseteq Lines(m)
  BY MoreLines
<1>2. 1 .. n - 1 \subseteq 1 .. m - 1 /\ 0 .. n - 1 \subseteq 0 .. m - 1
  OBVIOUS
<1>3. [seq: Nat, lines: Lines(n)] \subseteq [seq: Nat, lines: Lines(m)]
  BY <1>1
<1> QED BY <1>1, <1>2, <1>3, SeqMonotonic

LEMMA TypesGrow ==
  ASSUME NEW n \in Nat, NEW m \in Nat, n <= m
  PROVE  /\ DiskTypes(n) => DiskTypes(m)
         /\ MemTypes(n) => MemTypes(m)
         /\ WorkTypes(n) => WorkTypes(m)
<1>1. DiskTypes(n) => DiskTypes(m)
  BY LinesGrow DEF DiskTypes
<1>2. MemTypes(n) => MemTypes(m)
  BY LinesGrow DEF MemTypes
<1>3. WorkTypes(n) => WorkTypes(m)
  BY LinesGrow DEF WorkTypes
<1> QED BY <1>1, <1>2, <1>3

LEMMA IdentityType ==
  ASSUME NEW n \in Nat, NEW file \in [ino: Nat, lines: Lines(n)], NEW top \in Nat, file.ino <= top
  PROVE  Identity(file) \in [ino: 0 .. top, size: Nat]
<1>1. Len(file.lines) \in Nat /\ file.ino \in 0 .. top
  BY LinesAreLines
<1> QED BY <1>1 DEF Identity

LEMMA TypesInitially == Init => LogTypes
<1> SUFFICES ASSUME Init PROVE LogTypes
  OBVIOUS
<1>1. \A S: <<>> \in Seq(S)
  BY EmptySeq
<1>2. <<>> \in Lines(1) /\ Len(<<>>) = 0 /\ Identity(Absent) = [ino |-> 0, size |-> 0]
  BY <1>1, EmptySeq DEF Lines, Identity, Absent
<1>3. next = 1 /\ DiskTypes(1)
  BY <1>1, <1>2 DEF Init, DiskTypes, Absent
<1>4. MemTypes(1)
  BY <1>1, <1>2 DEF Init, MemTypes
<1>5. WorkTypes(1)
  BY <1>1, <1>2, AuditAssumption DEF Init, WorkTypes, LogPlaces
<1> QED BY <1>3, <1>4, <1>5 DEF LogTypes

\* What stays typed when it stays.
LEMMA TypesStay ==
  ASSUME LogTypes, next' = next \/ next' = next + 1
  PROVE  /\ next' \in Nat \ {0} /\ next <= next' /\ next \in Nat
         /\ UNCHANGED diskVars => DiskTypes(next)'
         /\ UNCHANGED memVars /\ inos <= inos' /\ inos' \in Nat => MemTypes(next)'
         /\ UNCHANGED workVars => WorkTypes(next)'
         /\ DiskTypes(next') /\ MemTypes(next') /\ WorkTypes(next')
<1>1. next' \in Nat \ {0} /\ next <= next' /\ next \in Nat
  BY DEF LogTypes
<1>2. DiskTypes(next') /\ MemTypes(next') /\ WorkTypes(next')
  BY <1>1, TypesGrow DEF LogTypes
<1>3. UNCHANGED diskVars => DiskTypes(next)'
  BY <1>2 DEF DiskTypes, diskVars, Lines
<1>4. UNCHANGED memVars /\ inos <= inos' /\ inos' \in Nat => MemTypes(next)'
  <2> SUFFICES ASSUME UNCHANGED memVars, inos <= inos', inos' \in Nat PROVE MemTypes(next)'
    OBVIOUS
  <2>1. inos \in Nat
    BY DEF LogTypes, DiskTypes
  <2>2. 0 .. inos \subseteq 0 .. inos'
    BY <2>1
  <2> QED BY <1>2, <2>2 DEF MemTypes, memVars
<1>5. UNCHANGED workVars => WorkTypes(next)'
  BY <1>2 DEF WorkTypes, workVars, Lines
<1> QED BY <1>1, <1>2, <1>3, <1>4, <1>5

LEMMA TipType ==
  ASSUME LogTypes, NEW lines \in Lines(next)
  PROVE  LastRecord(lines) \in 0 .. next - 1 /\ Len(lines) \in Nat
<1>1. Len(lines) \in Nat
  BY LinesAreLines DEF LogTypes
<1> QED BY <1>1, LastBeforeType DEF LastRecord, LogTypes

LEMMA NothingTypes ==
  ASSUME NEW n \in Nat
  PROVE  /\ <<>> \in Seq(1 .. n - 1) /\ <<>> \in Lines(n)
         /\ [keep |-> <<>>, drop |-> {}] \in [keep: Lines(n), drop: SUBSET Nat]
         /\ 0 \in 0 .. AppendRetries /\ "out" \in LogPlaces
<1>1. <<>> \in Seq(1 .. n - 1) /\ <<>> \in Lines(n)
  BY EmptySeq DEF Lines
<1> QED BY <1>1, AuditAssumption DEF LogPlaces

\* The file's lines after something was written, and what it is opened as.
LEMMA FileTypes ==
  ASSUME LogTypes
  PROVE  /\ live.lines \in Lines(next) /\ live.ino \in Nat /\ inos \in Nat /\ live.ino <= inos
         /\ Identity(live) \in [ino: 0 .. inos, size: Nat]
         /\ Identity(Absent) = [ino |-> 0, size |-> 0]
         /\ Opened \in [ino: Nat, lines: Lines(next)] /\ Opened.ino # 0
         /\ <<>> \in Lines(next)
<1>1. <<>> \in Lines(next) /\ Len(<<>>) = 0
  BY EmptySeq DEF Lines
<1>2. live \in [ino: Nat, lines: Lines(next)] /\ inos \in Nat /\ live.ino <= inos
  BY DEF LogTypes, DiskTypes
<1>3. Identity(live) \in [ino: 0 .. inos, size: Nat]
  BY <1>2, IdentityType DEF LogTypes
<1>4. inos + 1 \in Nat /\ inos + 1 # 0
  BY <1>2
<1>5. Opened \in [ino: Nat, lines: Lines(next)] /\ Opened.ino # 0
  BY <1>1, <1>2, <1>4 DEF Opened
<1> QED BY <1>1, <1>2, <1>3, <1>5 DEF Identity, Absent

LEMMA ProcessTypes ==
  ASSUME LogTypes, NEW p \in Procs, StartReadTip(p) \/ StartLook(p) \/ Enqueue(p)
  PROVE  LogTypes'
<1>1. CASE StartReadTip(p)
  <2>1. UNCHANGED diskVars /\ UNCHANGED workVars /\ next' = next /\ inos' = inos
    BY <1>1 DEF StartReadTip, ghostVars, diskVars
  <2>2. LastRecord(live.lines) \in 0 .. next - 1
    BY FileTypes, TipType
  <2>3. MemTypes(next)'
    BY <1>1, <2>1, <2>2 DEF StartReadTip, MemTypes, LogTypes
  <2> QED BY <2>1, <2>3, TypesStay DEF LogTypes
<1>2. CASE StartLook(p)
  <2>1. UNCHANGED diskVars /\ UNCHANGED workVars /\ next' = next /\ inos' = inos
    BY <1>2 DEF StartLook, ghostVars, diskVars
  <2>2. MemTypes(next)'
    BY <1>2, <2>1, FileTypes DEF StartLook, MemTypes, LogTypes
  <2> QED BY <2>1, <2>2, TypesStay DEF LogTypes
<1>3. CASE Enqueue(p)
  <2>1. UNCHANGED diskVars /\ UNCHANGED workVars /\ next' = next + 1 /\ inos' = inos
    BY <1>3 DEF Enqueue, NewEvent, diskVars
  <2>2. next' \in Nat /\ next \in 1 .. next' - 1 /\ MemTypes(next')
    BY <2>1, TypesStay DEF LogTypes
  <2>3. Append(queue[p], next) \in Seq(1 .. next' - 1)
    <3>1. queue[p] \in Seq(1 .. next' - 1)
      BY <2>2 DEF MemTypes
    <3> QED BY <2>2, <3>1, AppendProperties
  <2>4. queue' = [queue EXCEPT ![p] = Append(queue[p], next)] /\ UNCHANGED <<up, tip, seen>>
    BY <1>3 DEF Enqueue
  <2>5. MemTypes(next)'
    BY <2>1, <2>2, <2>3, <2>4 DEF MemTypes
  <2> QED BY <2>1, <2>5, TypesStay DEF LogTypes
<1> QED BY <1>1, <1>2, <1>3

\* An append, whole or not, or none, by a thread that has the file open.
LEMMA GrownFile ==
  ASSUME LogTypes, WriteOpen, NEW part \in Lines(next),
         part = <<>> \/ \E t \in Threads: at[t] = "write",
         live' = [live EXCEPT !.lines = @ \o part], UNCHANGED <<segs, inos, next>>
  PROVE  /\ DiskTypes(next)'
         /\ live'.ino = live.ino /\ live'.lines = live.lines \o part
         /\ live'.lines \in Lines(next)
<1>1. live.lines \o part \in Lines(next) /\ next \in Nat
  BY FileTypes, AppendedLines DEF LogTypes
<1>2. live' = [ino |-> live.ino, lines |-> live.lines \o part]
  BY DEF LogTypes, DiskTypes
<1>3. live.ino = 0 => live.lines \o part = <<>>
  <2> SUFFICES ASSUME live.ino = 0 PROVE live.lines \o part = <<>>
    OBVIOUS
  <2>1. live.lines = <<>> /\ part = <<>>
    BY DEF WriteOpen, LogTypes, DiskTypes
  <2>2. <<>> \o <<>> = <<>>
    OBVIOUS
  <2> QED BY <2>1, <2>2
<1>4. DiskTypes(next)'
  BY <1>1, <1>2, <1>3 DEF LogTypes, DiskTypes, Lines
<1> QED BY <1>1, <1>2, <1>4

LEMMA KilledPart ==
  ASSUME LogTypes, NEW p \in Procs, Kill(p)
  PROVE  \E part \in Lines(next):
           /\ \/ part = <<>>
              \/ \E t \in Threads: Me(t) = p /\ at[t] = "write" /\ part \in Interrupted(t)
           /\ live' = [live EXCEPT !.lines = @ \o part]
<1>1. PICK part: /\ \/ part = <<>>
                    \/ \E t \in Threads: Me(t) = p /\ at[t] = "write" /\ part \in Interrupted(t)
                 /\ live' = [live EXCEPT !.lines = @ \o part]
  BY DEF Kill
<1>2. \A t \in Threads: job[t] \in Seq(1 .. next - 1) /\ tip[Me(t)] \in 0 .. next - 1
  BY ThreadsAssumption DEF LogTypes, WorkTypes, MemTypes, Me
<1>3. part \in Lines(next)
  BY <1>1, <1>2, InterruptedProperties, FileTypes DEF LogTypes
<1> QED BY <1>1, <1>3

LEMMA KillTypes ==
  ASSUME LogTypes, WriteOpen, NEW p \in Procs, Kill(p)
  PROVE  LogTypes'
<1>1. UNCHANGED <<segs, inos, next>> /\ next' \in Nat \ {0} /\ next - 1 \in Nat
  BY DEF Kill, LogTypes
<1>2. DiskTypes(next)'
  BY <1>1, KilledPart, GrownFile
<1>3. /\ <<>> \in Seq(1 .. next - 1) /\ <<>> \in Lines(next)
      /\ [keep |-> <<>>, drop |-> {}] \in [keep: Lines(next), drop: SUBSET Nat]
      /\ 0 \in 0 .. AppendRetries /\ "out" \in LogPlaces
  BY NothingTypes DEF LogTypes
<1>4. MemTypes(next)'
  <2>1. UNCHANGED <<inos, next>> /\ MemTypes(next) /\ next - 1 \in Nat
    BY <1>1 DEF LogTypes
  <2>2. Identity(Absent) \in [ino: 0 .. inos, size: Nat] /\ 0 \in 0 .. next - 1
    BY <1>1, FileTypes
  <2>3. /\ up' = [up EXCEPT ![p] = "down"] /\ tip' = [tip EXCEPT ![p] = 0]
        /\ seen' = [seen EXCEPT ![p] = Identity(Absent)] /\ queue' = [queue EXCEPT ![p] = <<>>]
    BY DEF Kill
  <2> QED BY <1>3, <2>1, <2>2, <2>3 DEF MemTypes
<1>5. WorkTypes(next)'
  <2>1. /\ at' = [t \in Threads |-> IF Me(t) = p THEN "out" ELSE at[t]]
        /\ job' = [t \in Threads |-> IF Me(t) = p THEN <<>> ELSE job[t]]
        /\ tries' = [t \in Threads |-> IF Me(t) = p THEN 0 ELSE tries[t]]
        /\ copy' = [t \in Threads |-> IF Me(t) = p THEN [keep |-> <<>>, drop |-> {}] ELSE copy[t]]
        /\ next' = next
    BY DEF Kill
  <2>2. /\ at \in [Threads -> LogPlaces] /\ job \in [Threads -> Seq(1 .. next - 1)]
        /\ tries \in [Threads -> 0 .. AppendRetries]
        /\ copy \in [Threads -> [keep: Lines(next), drop: SUBSET Nat]]
    BY DEF LogTypes, WorkTypes
  <2>3. at' \in [Threads -> LogPlaces] /\ tries' \in [Threads -> 0 .. AppendRetries]
    BY <1>3, <2>1, <2>2
  <2>4. job' \in [Threads -> Seq(1 .. next - 1)]
    BY <1>3, <2>1, <2>2
  <2>5. copy' \in [Threads -> [keep: Lines(next), drop: SUBSET Nat]]
    BY <1>3, <2>1, <2>2
  <2> QED BY <2>1, <2>3, <2>4, <2>5 DEF WorkTypes, Lines
<1> QED BY <1>1, <1>2, <1>4, <1>5 DEF LogTypes

\* The oldest segments gone.
LEMMA SubSegments ==
  ASSUME LogTypes, NEW n \in Nat
  PROVE  /\ SubSeq(segs, n + 1, Len(segs)) \in Seq([seq: Nat, lines: Lines(next)])
         /\ Len(segs) \in Nat /\ DOMAIN segs = 1 .. Len(segs)
         /\ Len(SubSeq(segs, n + 1, Len(segs))) = IF n < Len(segs) THEN Len(segs) - n ELSE 0
         /\ \A i \in 1 .. Len(segs) - n: SubSeq(segs, n + 1, Len(segs))[i] = segs[n + i]
<1>1. Len(segs) \in Nat /\ DOMAIN segs = 1 .. Len(segs)
  BY LenProperties DEF LogTypes, DiskTypes
<1>2. \A i \in n + 1 .. Len(segs): segs[i] \in [seq: Nat, lines: Lines(next)]
  <2>1. \A i \in 1 .. Len(segs): segs[i] \in [seq: Nat, lines: Lines(next)]
    BY ElementOfSeq DEF LogTypes, DiskTypes
  <2> QED BY <1>1, <2>1
<1>3. n + 1 \in Int /\ Len(segs) \in Int
  BY <1>1
<1>4. /\ SubSeq(segs, n + 1, Len(segs)) \in Seq([seq: Nat, lines: Lines(next)])
      /\ Len(SubSeq(segs, n + 1, Len(segs))) = IF n + 1 <= Len(segs) THEN Len(segs) - (n + 1) + 1 ELSE 0
      /\ \A i \in 1 .. Len(segs) - (n + 1) + 1: SubSeq(segs, n + 1, Len(segs))[i] = segs[n + 1 + i - 1]
  BY <1>2, <1>3, SubSeqProperties
<1>5. Len(segs) - (n + 1) + 1 = Len(segs) - n /\ (n + 1 <= Len(segs) <=> n < Len(segs))
      /\ \A i \in 1 .. Len(segs) - n: n + 1 + i - 1 = n + i
  BY <1>1
<1> QED BY <1>1, <1>4, <1>5

\* Steps that take up work or come and go at the lock.
LEMMA ComingTypes ==
  ASSUME LogTypes, NEW t \in Threads,
         TakeBatch(t) \/ LogCritical(t) \/ BeginPrune(t) \/ Approach(t) \/ TurnedAway(t) \/ Enter(t)
  PROVE  LogTypes'
<1>0. next' = next \/ next' = next + 1
  BY DEF TakeBatch, LogCritical, BeginPrune, Approach, TurnedAway, Enter, NewEvent, ghostVars
<1>1. UNCHANGED diskVars /\ inos' = inos /\ inos \in Nat /\ DiskTypes(next)'
  BY <1>0, TypesStay, FileTypes
  DEF TakeBatch, LogCritical, BeginPrune, Approach, TurnedAway, Enter, diskVars
<1>2. next' \in Nat \ {0} /\ next \in Nat /\ next <= next'
  BY <1>0, TypesStay
<1>4. CASE TakeBatch(t)
  <2> DEFINE waiting == queue[Me(t)]
             n == IF Len(waiting) < DrainBatch THEN Len(waiting) ELSE DrainBatch
  <2>1. /\ job' = [job EXCEPT ![t] = SubSeq(waiting, 1, n)]
        /\ queue' = [queue EXCEPT ![Me(t)] = SubSeq(waiting, n + 1, Len(waiting))]
        /\ UNCHANGED <<up, tip, seen, at, tries, copy, next>>
    BY <1>4 DEF TakeBatch, ghostVars
  <2>2. waiting \in Seq(1 .. next - 1) /\ Len(waiting) \in Nat
    <3>1. waiting \in Seq(1 .. next - 1)
      BY ThreadsAssumption DEF LogTypes, MemTypes, Me
    <3> QED BY <3>1, LenProperties
  <2>3. n \in Nat /\ n <= Len(waiting)
    BY <2>2, AuditAssumption
  <2>4. \A i \in 1 .. Len(waiting): waiting[i] \in 1 .. next - 1
    BY <2>2, ElementOfSeq
  <2> HIDE DEF n, waiting
  <2>5. SubSeq(waiting, 1, n) \in Seq(1 .. next - 1)
    <3>1. \A i \in 1 .. n: waiting[i] \in 1 .. next - 1
      BY <2>2, <2>3, <2>4
    <3>2. 1 \in Int /\ n \in Int
      BY <2>3
    <3> QED BY <3>1, <3>2, SubSeqProperties
  <2>6. SubSeq(waiting, n + 1, Len(waiting)) \in Seq(1 .. next - 1)
    <3>1. \A i \in n + 1 .. Len(waiting): waiting[i] \in 1 .. next - 1
      BY <2>2, <2>3, <2>4
    <3>2. n + 1 \in Int /\ Len(waiting) \in Int
      BY <2>2, <2>3
    <3> QED BY <3>1, <3>2, SubSeqProperties
  <2>7. MemTypes(next)'
    BY <1>1, <2>1, <2>6 DEF LogTypes, MemTypes
  <2>8. WorkTypes(next)'
    BY <2>1, <2>5 DEF LogTypes, WorkTypes, Lines
  <2> QED BY <1>1, <1>2, <2>7, <2>8 DEF LogTypes
<1>5. CASE LogCritical(t)
  <2>1. next' = next + 1 /\ UNCHANGED memVars /\ UNCHANGED <<at, tries, copy>>
        /\ (job' = [job EXCEPT ![t] = <<next>>] \/ job' = job)
    BY <1>5 DEF LogCritical, NewEvent
  <2>2. <<next>> \in Seq(1 .. next' - 1)
    <3>1. next \in 1 .. next' - 1
      BY <1>2, <2>1 DEF LogTypes
    <3> QED BY <3>1
  <2>3. WorkTypes(next')
    BY <1>0, TypesStay
  <2>4. WorkTypes(next)'
    BY <2>1, <2>2, <2>3 DEF WorkTypes, Lines
  <2> QED BY <1>0, <1>1, <1>2, <2>1, <2>4, TypesStay DEF LogTypes
<1>6. CASE BeginPrune(t) \/ Approach(t)
  <2>1. UNCHANGED memVars /\ UNCHANGED workVars
    BY <1>6 DEF BeginPrune, Approach
  <2> QED BY <1>0, <1>1, <1>2, <2>1, TypesStay DEF LogTypes
<1>7. CASE TurnedAway(t) \/ Enter(t)
  <2>1. UNCHANGED memVars /\ next' = next
    BY <1>7 DEF TurnedAway, Enter, ghostVars
  <2>2. /\ at \in [Threads -> LogPlaces] /\ job \in [Threads -> Seq(1 .. next - 1)]
        /\ tries \in [Threads -> 0 .. AppendRetries]
        /\ copy \in [Threads -> [keep: Lines(next), drop: SUBSET Nat]]
        /\ <<>> \in Seq(1 .. next - 1)
    BY NothingTypes DEF LogTypes, WorkTypes
  <2>3. at' \in [Threads -> LogPlaces] /\ UNCHANGED <<tries, copy>>
    BY <1>7, <2>2 DEF TurnedAway, Enter, GoTo, LogPlaces
  <2>4. job' \in [Threads -> Seq(1 .. next - 1)]
    BY <1>7, <2>2 DEF TurnedAway, Enter
  <2>5. WorkTypes(next)'
    BY <2>1, <2>2, <2>3, <2>4 DEF WorkTypes, Lines
  <2> QED BY <1>0, <1>1, <1>2, <2>1, <2>5, TypesStay DEF LogTypes
<1> QED BY <1>4, <1>5, <1>6, <1>7

\* The end of a thread's work leaves its places typed.
LEMMA FinishTypes ==
  ASSUME LogTypes, NEW t \in Threads, Finish(t), next' = next,
         copy' \in [Threads -> [keep: Lines(next), drop: SUBSET Nat]]
  PROVE  WorkTypes(next)'
<1>1. /\ <<>> \in Seq(1 .. next - 1) /\ 0 \in 0 .. AppendRetries /\ "out" \in LogPlaces
  BY NothingTypes DEF LogTypes
<1>2. /\ at' = [at EXCEPT ![t] = "out"] /\ job' = [job EXCEPT ![t] = <<>>]
      /\ tries' = [tries EXCEPT ![t] = 0]
  BY DEF Finish, GoTo
<1>3. /\ at \in [Threads -> LogPlaces] /\ job \in [Threads -> Seq(1 .. next - 1)]
      /\ tries \in [Threads -> 0 .. AppendRetries]
  BY DEF LogTypes, WorkTypes
<1>4. job' \in [Threads -> Seq(1 .. next - 1)]
  BY <1>1, <1>2, <1>3
<1>5. at' \in [Threads -> LogPlaces] /\ tries' \in [Threads -> 0 .. AppendRetries]
  BY <1>1, <1>2, <1>3
<1> QED BY <1>4, <1>5 DEF WorkTypes, Lines

LEMMA RotationTypes ==
  ASSUME LogTypes, NEW t \in Threads, Anchor(t) \/ Rotate(t) \/ RotateFails(t) \/ RecordRotation(t) \/ Retain(t)
  PROVE  LogTypes'
<1>0. next' = next \/ next' = next + 1
  BY DEF Anchor, Rotate, RotateFails, RecordRotation, Retain, ghostVars
<1>1. next' \in Nat \ {0} /\ next \in Nat /\ next <= next'
  BY <1>0, TypesStay
<1>2. Me(t) \in Procs /\ inos \in Nat
  BY ThreadsAssumption, FileTypes DEF Me
<1>3. WorkTypes(next)'
  <2>1. WorkTypes(next')
    BY <1>0, TypesStay
  <2>2. \E place \in LogPlaces: at' = [at EXCEPT ![t] = place]
    BY DEF Anchor, Rotate, RotateFails, RecordRotation, Retain, GoTo, LogPlaces
  <2>3. UNCHANGED <<job, tries, copy>>
    BY DEF Anchor, Rotate, RotateFails, RecordRotation, Retain
  <2> QED BY <2>1, <2>2, <2>3 DEF WorkTypes, Lines
<1>4. CASE Anchor(t)
  <2>1. UNCHANGED diskVars /\ UNCHANGED <<up, queue, next>> /\ inos' = inos
    BY <1>4 DEF Anchor, diskVars
  <2>2. /\ seen' = [seen EXCEPT ![Me(t)] = Identity(live)]
        /\ \/ tip' = [tip EXCEPT ![Me(t)] = LastRecord(live.lines)]
           \/ tip' = [tip EXCEPT ![Me(t)] = tip[Me(t)]]
    BY <1>4 DEF Anchor
  <2>3. Identity(live) \in [ino: 0 .. inos, size: Nat] /\ LastRecord(live.lines) \in 0 .. next - 1
    BY FileTypes, TipType
  <2>4. MemTypes(next)'
    BY <1>2, <2>1, <2>2, <2>3 DEF LogTypes, MemTypes
  <2> QED BY <1>1, <1>3, <2>1, <2>4, TypesStay DEF LogTypes
<1>5. CASE Rotate(t)
  <2>1. /\ live' = Absent /\ UNCHANGED <<inos, up, queue, next>>
        /\ seen' = [seen EXCEPT ![Me(t)] = Identity(Absent)]
        /\ tip' = [tip EXCEPT ![Me(t)] = 0]
        /\ segs' = Append(segs, [seq |-> IF segs = <<>> THEN 1 ELSE Last(segs).seq + 1,
                                 lines |-> live.lines])
    BY <1>5 DEF Rotate, ghostVars
  <2>2. (IF segs = <<>> THEN 1 ELSE Last(segs).seq + 1) \in Nat
    <3>1. ASSUME segs # <<>> PROVE Last(segs).seq \in Nat
      <4>1. Len(segs) \in 1 .. Len(segs)
        BY <3>1, EmptySeq DEF LogTypes, DiskTypes
      <4>2. segs[Len(segs)] \in [seq: Nat, lines: Lines(next)]
        BY <4>1, ElementOfSeq DEF LogTypes, DiskTypes
      <4> QED BY <4>2 DEF Last
    <3> QED BY <3>1
  <2>3. segs' \in Seq([seq: Nat, lines: Lines(next)])
    <3>1. [seq |-> IF segs = <<>> THEN 1 ELSE Last(segs).seq + 1, lines |-> live.lines]
            \in [seq: Nat, lines: Lines(next)]
      BY <2>2, FileTypes
    <3> QED BY <2>1, <3>1, AppendProperties DEF LogTypes, DiskTypes
  <2>4. DiskTypes(next)'
    BY <1>2, <2>1, <2>3, FileTypes DEF DiskTypes, Absent, Lines
  <2>5. Identity(Absent) \in [ino: 0 .. inos, size: Nat] /\ 0 \in 0 .. next - 1
    BY <1>2, FileTypes DEF LogTypes
  <2>6. MemTypes(next)'
    BY <1>2, <2>1, <2>5 DEF LogTypes, MemTypes
  <2> QED BY <1>1, <1>3, <2>4, <2>6 DEF LogTypes
<1>6. CASE RecordRotation(t)
  <2>1. /\ next' = next + 1 /\ inos' = inos + 1 /\ UNCHANGED <<segs, up, queue>>
        /\ \/ /\ live' = [ino |-> inos + 1, lines |-> Chained(<<next>>, tip[Me(t)])]
              /\ tip' = [tip EXCEPT ![Me(t)] = next]
              /\ seen' = [seen EXCEPT ![Me(t)] = Identity(live')]
           \/ /\ \E part \in {<<>>, <<Torn>>, Chained(<<next>>, tip[Me(t)])}:
                   live' = [ino |-> inos + 1, lines |-> part]
              /\ UNCHANGED <<tip, seen>>
    BY <1>6 DEF RecordRotation
  <2>2. next \in 1 .. next' - 1 /\ <<next>> \in Seq(1 .. next' - 1) /\ 0 .. inos \subseteq 0 .. inos'
        /\ inos' \in Nat /\ inos + 1 # 0
    BY <1>1, <1>2, <2>1 DEF LogTypes
  <2>3. DiskTypes(next') /\ MemTypes(next')
    BY <1>0, TypesStay
  <2>4. Chained(<<next>>, tip[Me(t)]) \in Lines(next')
    BY <1>1, <1>2, <2>2, <2>3, ChainedProperties DEF MemTypes
  <2>5. <<>> \in Lines(next') /\ <<Torn>> \in Lines(next')
    <3>1. 0 \in 0 .. next' - 1
      <4> DEFINE n == next'
      <4>1. n \in Nat \ {0}
        BY <1>1
      <4> HIDE DEF n
      <4>2. 0 \in 0 .. n - 1
        BY <4>1
      <4> QED BY <4>2 DEF n
    <3>2. Torn \in [ev: 0 .. next' - 1, prev: Nat]
      BY <3>1 DEF Torn
    <3> HIDE DEF Torn
    <3>3. <<Torn>> \in Seq([ev: 0 .. next' - 1, prev: Nat])
      BY <3>2
    <3> QED BY <3>3, EmptySeq DEF Lines
  <2>6. live' \in [ino: Nat, lines: Lines(next')] /\ live'.ino = inos'
    BY <2>1, <2>2, <2>4, <2>5
  <2>7. Identity(live') \in [ino: 0 .. inos', size: Nat]
    BY <1>1, <2>2, <2>6, IdentityType
  <2>8. DiskTypes(next)'
    BY <2>1, <2>2, <2>3, <2>6 DEF DiskTypes, Lines
  <2>9. MemTypes(next)'
    <3>1. /\ tip \in [Procs -> 0 .. next' - 1] /\ seen \in [Procs -> [ino: 0 .. inos, size: Nat]]
          /\ up' \in [Procs -> {"down", "starting", "up"}] /\ queue' \in [Procs -> Seq(1 .. next' - 1)]
      BY <2>1, <2>3 DEF MemTypes
    <3>2. tip' = tip \/ tip' = [tip EXCEPT ![Me(t)] = next]
      BY <2>1
    <3>3. seen' = seen \/ seen' = [seen EXCEPT ![Me(t)] = Identity(live')]
      BY <2>1
    <3>4. next \in 0 .. next' - 1 /\ [ino: 0 .. inos, size: Nat] \subseteq [ino: 0 .. inos', size: Nat]
      BY <2>2
    <3>5. tip' \in [Procs -> 0 .. next' - 1]
      BY <1>2, <3>1, <3>2, <3>4
    <3>6. seen' \in [Procs -> [ino: 0 .. inos', size: Nat]]
      BY <1>2, <2>7, <3>1, <3>3, <3>4
    <3> QED BY <3>1, <3>5, <3>6 DEF MemTypes
  <2> QED BY <1>1, <1>3, <2>8, <2>9 DEF LogTypes
<1>8. CASE RotateFails(t)
  <2>1. UNCHANGED <<diskVars, memVars, next>>
    BY <1>8 DEF RotateFails
  <2>2. DiskTypes(next)' /\ MemTypes(next)'
    BY <2>1 DEF LogTypes, DiskTypes, MemTypes, diskVars, memVars, Lines
  <2> QED BY <1>1, <1>3, <2>1, <2>2 DEF LogTypes
<1>7. CASE Retain(t)
  <2>1. UNCHANGED <<live, inos, next>> /\ UNCHANGED memVars
        /\ \E n \in Nat: segs' = SubSeq(segs, n + 1, Len(segs))
    <3>1. Len(segs) \in Nat
      BY LenProperties DEF LogTypes, DiskTypes
    <3> QED BY <1>7, <3>1, AuditAssumption DEF Retain
  <2>2. segs' \in Seq([seq: Nat, lines: Lines(next)])
    BY <2>1, SubSegments
  <2>3. DiskTypes(next)'
    BY <2>1, <2>2 DEF LogTypes, DiskTypes, Lines
  <2> QED BY <1>0, <1>1, <1>2, <1>3, <2>1, <2>3, TypesStay DEF LogTypes
<1> QED BY <1>4, <1>5, <1>6, <1>7, <1>8

\* The lines of a chaining, a write, a sweep and a rewrite.
LEMMA ChainTypes ==
  ASSUME LogTypes, NEW t \in Threads, Chain(t)
  PROVE  LogTypes'
<1>1. /\ live' = Opened /\ inos' = (IF live.ino = 0 THEN Opened.ino ELSE inos)
      /\ UNCHANGED <<segs, up, queue, copy, next>>
  BY DEF Chain, ghostVars
<1>2. Me(t) \in Procs
  BY ThreadsAssumption DEF Me
<1>3. /\ Opened \in [ino: Nat, lines: Lines(next)] /\ inos \in Nat /\ inos' \in Nat
      /\ Opened.ino <= inos' /\ inos <= inos' /\ next \in Nat
      /\ Opened.ino = 0 => Opened.lines = <<>>
  <2>1. live \in [ino: Nat, lines: Lines(next)] /\ inos \in Nat /\ live.ino <= inos /\ next \in Nat
    BY DEF LogTypes, DiskTypes
  <2>2. Opened \in [ino: Nat, lines: Lines(next)] /\ Opened.ino # 0
    BY FileTypes
  <2>3. Opened.ino = IF live.ino = 0 THEN inos + 1 ELSE live.ino
    BY DEF Opened
  <2> HIDE DEF Opened
  <2> QED BY <1>1, <2>1, <2>2, <2>3
<1>4. DiskTypes(next)'
  BY <1>1, <1>3 DEF LogTypes, DiskTypes, Lines
<1>5. Identity(Opened) \in [ino: 0 .. inos', size: Nat] /\ LastRecord(Opened.lines) \in 0 .. next - 1
  BY <1>3, IdentityType, TipType
<1>6. MemTypes(next)'
  <2>1. /\ tip \in [Procs -> 0 .. next - 1] /\ seen \in [Procs -> [ino: 0 .. inos, size: Nat]]
        /\ up' \in [Procs -> {"down", "starting", "up"}] /\ queue' \in [Procs -> Seq(1 .. next - 1)]
    BY <1>1 DEF LogTypes, MemTypes
  <2>2. tip' = tip \/ tip' = [tip EXCEPT ![Me(t)] = LastRecord(Opened.lines)]
    BY DEF Chain
  <2>3. seen' = seen \/ seen' = [seen EXCEPT ![Me(t)] = Identity(Opened)]
    BY DEF Chain
  <2>4. [ino: 0 .. inos, size: Nat] \subseteq [ino: 0 .. inos', size: Nat]
    BY <1>3
  <2>5. tip' \in [Procs -> 0 .. next - 1]
    BY <1>2, <1>5, <2>1, <2>2
  <2>6. seen' \in [Procs -> [ino: 0 .. inos', size: Nat]]
    BY <1>2, <1>5, <2>1, <2>3, <2>4
  <2> QED BY <1>1, <2>1, <2>5, <2>6 DEF MemTypes
<1>7. WorkTypes(next)'
  <2>1. CASE Finish(t)
    BY <1>1, <2>1, FinishTypes DEF LogTypes, WorkTypes
  <2>2. CASE ~Finish(t)
    <3>1. /\ UNCHANGED <<job, copy, next>>
          /\ at' = at \/ at' = [at EXCEPT ![t] = "write"]
          /\ tries' = tries \/ (tries[t] < AppendRetries /\ tries' = [tries EXCEPT ![t] = tries[t] + 1])
      BY <1>1, <2>2 DEF Chain, GoTo
    <3>2. at' \in [Threads -> LogPlaces]
      BY <3>1 DEF LogTypes, WorkTypes, LogPlaces
    <3>3. tries' \in [Threads -> 0 .. AppendRetries]
      <4>1. tries \in [Threads -> 0 .. AppendRetries]
        BY DEF LogTypes, WorkTypes
      <4>2. tries[t] < AppendRetries => tries[t] + 1 \in 0 .. AppendRetries
        BY <4>1, AuditAssumption
      <4> QED BY <3>1, <4>1, <4>2
    <3> QED BY <3>1, <3>2, <3>3 DEF LogTypes, WorkTypes, Lines
  <2> QED BY <2>1, <2>2
<1> QED BY <1>1, <1>4, <1>6, <1>7 DEF LogTypes

LEMMA WriteTypes ==
  ASSUME LogTypes, Placed, WriteOpen, NEW t \in Threads, Write(t)
  PROVE  /\ LogTypes'
         /\ \E part \in Lines(next):
              /\ part = Chained(job[t], tip[Me(t)]) \/ part \in Interrupted(t)
              /\ live' = [live EXCEPT !.lines = @ \o part]
<1>1. UNCHANGED <<segs, inos, up, queue, copy, next>> /\ Finish(t) /\ at[t] = "write"
  BY DEF Write
<1>2. Me(t) \in Procs /\ job[t] \in Seq(1 .. next - 1) /\ tip[Me(t)] \in 0 .. next - 1
      /\ next \in Nat \ {0}
  BY ThreadsAssumption DEF LogTypes, WorkTypes, MemTypes, Me
<1>3. PICK part: /\ part = Chained(job[t], tip[Me(t)]) \/ part \in Interrupted(t)
                 /\ live' = [live EXCEPT !.lines = @ \o part]
  BY DEF Write
<1>4. part \in Lines(next)
  BY <1>2, <1>3, ChainedProperties, InterruptedProperties
<1>5. DiskTypes(next)' /\ live'.ino = live.ino /\ live'.lines \in Lines(next)
  BY <1>1, <1>3, <1>4, GrownFile
<1>6. WorkTypes(next)'
  BY <1>1, FinishTypes DEF LogTypes, WorkTypes
<1>7. MemTypes(next)'
  <2>1. /\ tip \in [Procs -> 0 .. next - 1] /\ seen \in [Procs -> [ino: 0 .. inos, size: Nat]]
        /\ up' \in [Procs -> {"down", "starting", "up"}] /\ queue' \in [Procs -> Seq(1 .. next - 1)]
    BY <1>1 DEF LogTypes, MemTypes
  <2>2. \/ tip' = tip /\ seen' = seen
        \/ /\ tip' = [tip EXCEPT ![Me(t)] = Last(job[t])]
           /\ seen' = [seen EXCEPT ![Me(t)] = Identity(live')]
    BY DEF Write
  <2>3. Last(job[t]) \in 0 .. next - 1
    <3>1. job[t] # <<>>
      BY <1>1 DEF Placed, PlacedAt
    <3>2. Len(job[t]) \in 1 .. Len(job[t])
      BY <1>2, <3>1, EmptySeq, LenProperties
    <3>3. job[t][Len(job[t])] \in 1 .. next - 1
      BY <1>2, <3>2, ElementOfSeq
    <3> QED BY <3>3 DEF Last
  <2>4. live'.ino \in Nat /\ live'.ino <= inos /\ live' \in [ino: Nat, lines: Lines(next)] /\ inos \in Nat
    BY <1>1, <1>5 DEF DiskTypes, Lines
  <2>5. Identity(live') \in [ino: 0 .. inos, size: Nat]
    BY <1>2, <2>4, IdentityType
  <2>6. tip' \in [Procs -> 0 .. next - 1]
    BY <1>2, <2>1, <2>2, <2>3
  <2>7. seen' \in [Procs -> [ino: 0 .. inos, size: Nat]]
    BY <1>2, <2>1, <2>2, <2>5
  <2> QED BY <1>1, <2>1, <2>6, <2>7 DEF MemTypes
<1> QED BY <1>1, <1>2, <1>3, <1>4, <1>5, <1>6, <1>7 DEF LogTypes

LEMMA SweepTypes ==
  ASSUME LogTypes, NEW t \in Threads, Sweep(t)
  PROVE  LogTypes'
<1>1. PICK cutoff \in 1 .. next:
        LET kept == Picked(live.lines, Young(cutoff))
        IN /\ \E n \in 0 .. Aged(cutoff): segs' = SubSeq(segs, n + 1, Len(segs))
           /\ IF kept = live.lines
                THEN Finish(t) /\ UNCHANGED copy
                ELSE /\ copy' = [copy EXCEPT ![t] =
                          [keep |-> kept, drop |-> {e \in Events(live.lines): e < cutoff}]]
                     /\ GoTo(t, "rewrite")
                     /\ UNCHANGED <<lockVars, job, tries>>
  BY DEF Sweep
<1>2. UNCHANGED <<live, inos, next>> /\ UNCHANGED memVars /\ next \in Nat
  BY DEF Sweep, LogTypes
<1>3. \E n \in Nat: segs' = SubSeq(segs, n + 1, Len(segs))
  BY <1>1
<1>4. DiskTypes(next)'
  <2>1. segs' \in Seq([seq: Nat, lines: Lines(next)])
    BY <1>3, SubSegments
  <2> QED BY <1>2, <2>1 DEF LogTypes, DiskTypes, Lines
<1>5. MemTypes(next)'
  BY <1>2 DEF LogTypes, MemTypes, memVars
<1>6. WorkTypes(next)'
  <2> DEFINE kept == Picked(live.lines, Young(cutoff))
             drop == {e \in Events(live.lines): e < cutoff}
  <2>1. kept \in Lines(next)
    BY FileTypes, PickedProperties DEF Lines
  <2>2. drop \in SUBSET Nat
    <3>1. Events(live.lines) \subseteq Nat
      <4>1. live.lines \in Lines(next) /\ next \in Nat
        BY FileTypes DEF LogTypes
      <4>2. \A i \in 1 .. Len(live.lines): live.lines[i].ev \in Nat
        BY <4>1, LinesAreLines
      <4>3. DOMAIN live.lines = 1 .. Len(live.lines)
        BY <4>1, LinesAreLines
      <4> QED BY <4>2, <4>3 DEF Events, Records
    <3> QED BY <3>1
  <2> HIDE DEF kept, drop
  <2>3. CASE kept = live.lines
    <3>1. Finish(t) /\ copy' = copy
      BY <1>1, <2>3 DEF kept
    <3> QED BY <1>2, <3>1, FinishTypes DEF LogTypes, WorkTypes
  <2>4. CASE kept # live.lines
    <3>1. /\ copy' = [copy EXCEPT ![t] = [keep |-> kept, drop |-> drop]]
          /\ GoTo(t, "rewrite") /\ UNCHANGED <<job, tries>>
      BY <1>1, <2>4 DEF kept, drop
    <3>2. at' \in [Threads -> LogPlaces]
      BY <3>1 DEF GoTo, LogTypes, WorkTypes, LogPlaces
    <3>3. copy' \in [Threads -> [keep: Lines(next), drop: SUBSET Nat]]
      BY <2>1, <2>2, <3>1 DEF LogTypes, WorkTypes
    <3> QED BY <1>2, <3>1, <3>2, <3>3 DEF LogTypes, WorkTypes, Lines
  <2> QED BY <2>3, <2>4
<1> QED BY <1>2, <1>4, <1>5, <1>6 DEF LogTypes

LEMMA RewriteTypes ==
  ASSUME LogTypes, NEW t \in Threads, Rewrite(t)
  PROVE  LogTypes'
<1>1. /\ UNCHANGED <<segs, up, queue, next>> /\ Finish(t)
      /\ copy' = [copy EXCEPT ![t] = [keep |-> <<>>, drop |-> {}]]
      /\ \/ /\ live' = [ino |-> inos + 1, lines |-> copy[t].keep]
            /\ inos' = inos + 1
            /\ seen' = [seen EXCEPT ![Me(t)] = Identity(live')]
            /\ tip' = [tip EXCEPT ![Me(t)] = LastRecord(live'.lines)]
         \/ UNCHANGED <<live, inos, seen, tip>>
  BY DEF Rewrite
<1>2. Me(t) \in Procs /\ inos \in Nat /\ next \in Nat
  BY ThreadsAssumption, FileTypes DEF Me, LogTypes
<1>3. copy' \in [Threads -> [keep: Lines(next), drop: SUBSET Nat]] /\ copy[t].keep \in Lines(next)
  BY <1>1, <1>2, NothingTypes DEF LogTypes, WorkTypes
<1>4. WorkTypes(next)'
  BY <1>1, <1>3, FinishTypes
<1>5. CASE UNCHANGED <<live, inos, seen, tip>>
  BY <1>1, <1>4, <1>5 DEF LogTypes, DiskTypes, MemTypes, Lines
<1>6. CASE /\ live' = [ino |-> inos + 1, lines |-> copy[t].keep]
           /\ inos' = inos + 1
           /\ seen' = [seen EXCEPT ![Me(t)] = Identity(live')]
           /\ tip' = [tip EXCEPT ![Me(t)] = LastRecord(live'.lines)]
  <2>1. live' \in [ino: Nat, lines: Lines(next)] /\ live'.ino = inos' /\ inos' \in Nat /\ live'.ino # 0
    BY <1>2, <1>3, <1>6
  <2>2. DiskTypes(next)'
    BY <1>1, <2>1 DEF LogTypes, DiskTypes, Lines
  <2>3. Identity(live') \in [ino: 0 .. inos', size: Nat] /\ LastRecord(live'.lines) \in 0 .. next - 1
    BY <1>2, <2>1, IdentityType, TipType
  <2>4. MemTypes(next)'
    <3>1. /\ tip \in [Procs -> 0 .. next - 1] /\ seen \in [Procs -> [ino: 0 .. inos, size: Nat]]
          /\ up' \in [Procs -> {"down", "starting", "up"}] /\ queue' \in [Procs -> Seq(1 .. next - 1)]
      BY <1>1 DEF LogTypes, MemTypes
    <3>2. [ino: 0 .. inos, size: Nat] \subseteq [ino: 0 .. inos', size: Nat]
      BY <1>2, <1>6
    <3>3. tip' \in [Procs -> 0 .. next - 1]
      BY <1>2, <1>6, <2>3, <3>1
    <3>4. seen' \in [Procs -> [ino: 0 .. inos', size: Nat]]
      BY <1>2, <1>6, <2>3, <3>1, <3>2
    <3> QED BY <1>1, <3>1, <3>3, <3>4 DEF MemTypes
  <2> QED BY <1>1, <1>4, <2>2, <2>4 DEF LogTypes
<1> QED BY <1>1, <1>5, <1>6

LEMMA TypesKept == LogTypes /\ Placed /\ WriteOpen /\ [Next]_vars => LogTypes'
<1> SUFFICES ASSUME LogTypes, Placed, WriteOpen, [Next]_vars PROVE LogTypes'
  OBVIOUS
<1>1. ASSUME NEW p \in Procs, StartReadTip(p) \/ StartLook(p) \/ Enqueue(p) \/ Kill(p)
      PROVE  LogTypes'
  BY <1>1, ProcessTypes, KillTypes
<1>2. ASSUME NEW t \in Threads, TakeBatch(t) \/ LogCritical(t) \/ BeginPrune(t) \/ Work(t)
      PROVE  LogTypes'
  BY <1>2, ComingTypes, RotationTypes, ChainTypes, WriteTypes, SweepTypes, RewriteTypes DEF Work
<1>3. CASE UNCHANGED vars
  BY <1>3 DEF vars, diskVars, memVars, workVars, ghostVars, LogTypes, DiskTypes, MemTypes, WorkTypes, Lines
<1> QED BY <1>1, <1>2, <1>3 DEF Next

-----------------------------------------------------------------------------
(* Who moves: under the lock only one thread, and nothing under its feet.     *)

OwnWork(t) ==
  \/ Anchor(t) \/ Rotate(t) \/ RotateFails(t) \/ RecordRotation(t) \/ Retain(t)
  \/ Chain(t) \/ Write(t) \/ Sweep(t) \/ Rewrite(t)
Coming(t) ==
  \/ TakeBatch(t) \/ LogCritical(t) \/ BeginPrune(t)
  \/ Approach(t) \/ TurnedAway(t) \/ Enter(t)

LEMMA OwnLockStep ==
  ASSUME NEW t \in Threads, OwnWork(t) \/ Coming(t)
  PROVE  LockStep(t) \/ UNCHANGED lockVars
<1>1. Finish(t) => LockStep(t)
  BY DEF Finish, LockStep
<1>2. CASE TakeBatch(t) \/ LogCritical(t) \/ BeginPrune(t)
  BY <1>2 DEF TakeBatch, LogCritical, BeginPrune, RefuseAtOnce, LockStep
<1>3. CASE Approach(t) \/ TurnedAway(t) \/ Enter(t)
  BY <1>3 DEF Approach, TurnedAway, Enter, LockStep
<1>4. CASE Anchor(t) \/ Retain(t) \/ Rotate(t) \/ RotateFails(t) \/ RecordRotation(t)
  BY <1>4 DEF Anchor, Retain, Rotate, RotateFails, RecordRotation, LockStep
<1>5. CASE Chain(t) \/ Write(t) \/ Sweep(t) \/ Rewrite(t)
  BY <1>1, <1>5 DEF Chain, Write, Sweep, Rewrite
<1> QED BY <1>2, <1>3, <1>4, <1>5 DEF OwnWork, Coming

LEMMA OtherPlaces ==
  ASSUME LockTypeOK, NEW t \in Threads, LockStep(t) \/ UNCHANGED lockVars
  PROVE  \A u \in Threads \ {t}: pc'[u] = pc[u]
  BY DEF LockTypeOK, LockStep, lockVars, Ask, JoinHold, JoinLate, Joined, SeeNoHold, TakeLock, Miss,
         Refuse, Publish, PassGate, GiveUpGate, LeaveGate, Leave, BeginRotation, EndRotation, To

\* A thread's step leaves the places of the others alone.
LEMMA OthersStay ==
  ASSUME LockTypeOK, LogTypes, NEW t \in Threads, OwnWork(t) \/ Coming(t)
  PROVE  /\ up' = up
         /\ \A u \in Threads \ {t}: /\ pc'[u] = pc[u] /\ at'[u] = at[u] /\ job'[u] = job[u]
                                    /\ tries'[u] = tries[u] /\ copy'[u] = copy[u]
<1>1. \A u \in Threads \ {t}: pc'[u] = pc[u]
  BY OwnLockStep, OtherPlaces
<1>2. /\ at \in [Threads -> LogPlaces] /\ job \in [Threads -> Seq(1 .. next - 1)]
      /\ tries \in [Threads -> 0 .. AppendRetries]
      /\ copy \in [Threads -> [keep: Lines(next), drop: SUBSET Nat]]
  BY DEF LogTypes, WorkTypes
<1>3. Finish(t) => \A u \in Threads \ {t}: at'[u] = at[u] /\ job'[u] = job[u] /\ tries'[u] = tries[u]
  BY <1>2 DEF Finish, GoTo
<1>4. CASE Coming(t)
  <2>1. CASE TakeBatch(t) \/ LogCritical(t) \/ BeginPrune(t)
    BY <1>1, <1>2, <2>1 DEF TakeBatch, LogCritical, BeginPrune, memVars, workVars
  <2>2. CASE Approach(t) \/ TurnedAway(t) \/ Enter(t)
    BY <1>1, <1>2, <2>2 DEF Approach, TurnedAway, Enter, GoTo, memVars, workVars
  <2> QED BY <1>4, <2>1, <2>2 DEF Coming
<1>5. CASE OwnWork(t)
  <2>1. CASE Anchor(t) \/ Rotate(t) \/ RotateFails(t) \/ RecordRotation(t) \/ Retain(t)
    BY <1>1, <1>2, <2>1 DEF Anchor, Rotate, RotateFails, RecordRotation, Retain, GoTo, memVars
  <2>2. CASE Chain(t)
    BY <1>1, <1>2, <1>3, <2>2 DEF Chain, GoTo
  <2>3. CASE Write(t)
    BY <1>1, <1>3, <2>3 DEF Write
  <2>4. CASE Sweep(t)
    BY <1>1, <1>2, <1>3, <2>4 DEF Sweep, GoTo, memVars
  <2>5. CASE Rewrite(t)
    BY <1>1, <1>2, <1>3, <2>5 DEF Rewrite
  <2> QED BY <1>5, <2>1, <2>2, <2>3, <2>4, <2>5 DEF OwnWork
<1> QED BY <1>4, <1>5

\* Coming and going changes neither the files nor what is remembered of them.
LEMMA ComingLeavesFiles ==
  ASSUME NEW t \in Threads, Coming(t)
  PROVE  UNCHANGED diskVars /\ UNCHANGED <<tip, seen, copy, tries, acked, expired, pruned>> /\ (next' = next \/ next' = next + 1)
         /\ (UNCHANGED at \/ Enter(t))
  BY DEF Coming, TakeBatch, LogCritical, BeginPrune, Approach, TurnedAway, Enter, memVars, workVars,
         ghostVars, NewEvent

LEMMA Alone ==
  ASSUME LockInv, Placed, NEW s \in Threads, NEW t \in Threads, at[s] # "out", at[t] # "out"
  PROVE  s = t
  BY InvExcludes DEF Placed, PlacedAt, OneInside

LEMMA OwnWorkInside ==
  ASSUME Placed, NEW t \in Threads, OwnWork(t)
  PROVE  at[t] # "out" /\ pc[t] = "inside" /\ up[Me(t)] = "up"
<1>1. at[t] # "out"
  BY DEF OwnWork, Anchor, Rotate, RotateFails, RecordRotation, Retain, Chain, Write, Sweep, Rewrite
<1> QED BY <1>1 DEF Placed, PlacedAt

LEMMA ComingOutside ==
  ASSUME Placed, NEW t \in Threads, Coming(t)
  PROVE  at[t] = "out"
<1>1. pc[t] # "inside"
  BY DEF Coming, TakeBatch, LogCritical, BeginPrune, Approach, TurnedAway, Enter, Ask, JoinHold,
         SeeNoHold, RefuseAtOnce, TakeLock, Miss, JoinLate, Refuse, Publish, PassGate, GiveUpGate,
         Leave, At
<1> QED BY <1>1 DEF Placed, PlacedAt

\* Nothing that thread t works on changes.
Undisturbed(t) ==
  /\ live' = live /\ inos' = inos /\ tip'[Me(t)] = tip[Me(t)] /\ seen'[Me(t)] = seen[Me(t)]
  /\ at'[t] = at[t] /\ job'[t] = job[t] /\ tries'[t] = tries[t] /\ copy'[t] = copy[t]

\* The part a process may leave in the file is that of its thread inside.
LEMMA KilledElsewhere ==
  ASSUME LockInv, LogTypes, Placed, NEW p \in Procs, Kill(p), NEW t \in Threads, at[t] # "out", Me(t) # p
  PROVE  live' = live
<1>1. PICK part \in Lines(next):
        /\ \/ part = <<>>
           \/ \E s \in Threads: Me(s) = p /\ at[s] = "write" /\ part \in Interrupted(s)
        /\ live' = [live EXCEPT !.lines = @ \o part]
  BY KilledPart
<1>2. part = <<>>
  BY <1>1, Alone
<1>3. live.lines \o <<>> = live.lines
  BY FileTypes, LinesAreLines DEF LogTypes
<1> QED BY <1>1, <1>2, <1>3 DEF LogTypes, DiskTypes

LEMMA StepKinds ==
  ASSUME LockInv, LockInv', LogTypes, Placed, [Next]_vars, NEW t \in Threads, at'[t] # "out"
  PROVE  Undisturbed(t) \/ Enter(t) \/ OwnWork(t)
<1>0. LockTypeOK
  BY DEF LockInv
<1>1. CASE UNCHANGED vars
  BY <1>1 DEF vars, diskVars, memVars, workVars, Undisturbed
<1>2. ASSUME NEW p \in Procs, StartReadTip(p) \/ StartLook(p) \/ Enqueue(p)
      PROVE  Undisturbed(t)
  <2>1. UNCHANGED diskVars /\ UNCHANGED workVars
    BY <1>2 DEF StartReadTip, StartLook, Enqueue
  <2>2. at[t] # "out" /\ up[Me(t)] = "up"
    BY <2>1 DEF workVars, Placed, PlacedAt
  <2>3. tip'[Me(t)] = tip[Me(t)] /\ seen'[Me(t)] = seen[Me(t)]
    <3>1. /\ tip' = tip \/ \E v: tip' = [tip EXCEPT ![p] = v]
          /\ seen' = seen \/ \E v: seen' = [seen EXCEPT ![p] = v]
          /\ (tip' = tip /\ seen' = seen) \/ up[p] # "up"
      BY <1>2 DEF StartReadTip, StartLook, Enqueue
    <3>2. (tip' # tip \/ seen' # seen) => Me(t) # p
      BY <2>2, <3>1
    <3>3. Me(t) \in Procs /\ DOMAIN tip = Procs /\ DOMAIN seen = Procs
      BY ThreadsAssumption DEF Me, LogTypes, MemTypes
    <3>4. \A v: Me(t) # p => [tip EXCEPT ![p] = v][Me(t)] = tip[Me(t)] /\ [seen EXCEPT ![p] = v][Me(t)] = seen[Me(t)]
      BY <3>3
    <3> QED BY <3>1, <3>2, <3>4
  <2> QED BY <2>1, <2>3 DEF workVars, diskVars, Undisturbed
<1>3. ASSUME NEW p \in Procs, Kill(p)
      PROVE  Undisturbed(t)
  <2>1. Me(t) # p /\ at'[t] = at[t] /\ job'[t] = job[t] /\ tries'[t] = tries[t] /\ copy'[t] = copy[t]
    BY <1>3 DEF Kill
  <2>2. tip'[Me(t)] = tip[Me(t)] /\ seen'[Me(t)] = seen[Me(t)] /\ inos' = inos
    BY <1>3, <2>1, ThreadsAssumption DEF Kill, LogTypes, MemTypes, Me
  <2>3. live' = live
    BY <1>3, <2>1, KilledElsewhere
  <2> QED BY <2>1, <2>2, <2>3 DEF Undisturbed
<1>4. ASSUME NEW u \in Threads, Coming(u) PROVE Undisturbed(t) \/ Enter(t)
  <2>1. UNCHANGED diskVars /\ UNCHANGED <<tip, seen>>
    BY <1>4, ComingLeavesFiles
  <2>2. CASE u # t
    BY <1>0, <1>4, <2>1, <2>2, OthersStay DEF diskVars, Undisturbed
  <2>3. CASE u = t /\ ~Enter(t)
    BY <1>4, <2>3, ComingLeavesFiles, ComingOutside
  <2> QED BY <2>2, <2>3
<1>5. ASSUME NEW u \in Threads, OwnWork(u) PROVE OwnWork(t)
  <2>1. CASE u # t
    <3>1. at[t] # "out" /\ at[u] # "out"
      BY <1>0, <1>5, <2>1, OthersStay, OwnWorkInside
    <3> QED BY <2>1, <3>1, Alone
  <2> QED BY <1>5, <2>1
<1> QED BY <1>1, <1>2, <1>3, <1>4, <1>5 DEF Next, Work, OwnWork, Coming

-----------------------------------------------------------------------------
(* The places of the threads.                                                 *)

LEMMA ComingPlaced ==
  ASSUME LockTypeOK, LogTypes, Placed, NEW t \in Threads, Coming(t)
  PROVE  PlacedAt(t)'
<1>1. at[t] = "out" /\ pc[t] # "inside" /\ pc \in [Threads -> Steps] /\ at \in [Threads -> LogPlaces]
      /\ job \in [Threads -> Seq(1 .. next - 1)]
  BY ComingOutside DEF LockTypeOK, LogTypes, WorkTypes, Placed, PlacedAt
<1>2. up' = up
  BY <1>1, OthersStay
<1>3. PlacedAt(t)
  BY DEF Placed
<1>4. Ask(t) => pc'[t] \in {"lock", "joined"}
  BY <1>1 DEF Ask, JoinHold, SeeNoHold, Joined, To
<1>5. CASE TakeBatch(t)
  <2> DEFINE waiting == queue[Me(t)]
             n == IF Len(waiting) < DrainBatch THEN Len(waiting) ELSE DrainBatch
  <2>1. t \in Writers /\ t \notin PruneThreads /\ Ask(t) /\ up[Me(t)] = "up" /\ at' = at
        /\ job' = [job EXCEPT ![t] = SubSeq(waiting, 1, n)] /\ waiting # <<>>
    BY <1>5, AuditAssumption DEF TakeBatch
  <2>2. waiting \in Seq(1 .. next - 1)
    BY ThreadsAssumption DEF LogTypes, MemTypes, Me
  <2> HIDE DEF waiting
  <2>3. Len(waiting) \in Nat \ {0}
    BY <2>1, <2>2, EmptySeq, LenProperties
  <2>4. n \in Nat /\ n >= 1 /\ n <= Len(waiting)
    BY <2>3, AuditAssumption
  <2> HIDE DEF n
  <2>5. SubSeq(waiting, 1, n) # <<>>
    <3>1. \A i \in 1 .. n: waiting[i] \in 1 .. next - 1
      <4>1. \A i \in 1 .. Len(waiting): waiting[i] \in 1 .. next - 1
        BY <2>2, ElementOfSeq
      <4> QED BY <2>3, <2>4, <4>1
    <3>2. 1 \in Int /\ n \in Int /\ 1 <= n
      BY <2>4
    <3>3. Len(SubSeq(waiting, 1, n)) = n - 1 + 1
      BY <3>1, <3>2, SubSeqProperties
    <3>4. Len(SubSeq(waiting, 1, n)) # 0
      BY <2>4, <3>3
    <3> QED BY <3>4, EmptySeq
  <2>6. job'[t] # <<>>
    BY <1>1, <2>1, <2>5
  <2> QED BY <1>1, <1>2, <1>4, <2>1, <2>6 DEF PlacedAt
<1>6. CASE LogCritical(t)
  <2>1. t \notin PruneThreads /\ at' = at /\ up[Me(t)] = "up"
        /\ \/ Ask(t) /\ job' = [job EXCEPT ![t] = <<next>>]
           \/ UNCHANGED <<pc, job>>
    BY <1>6 DEF LogCritical, RefuseAtOnce, lockVars
  <2>2. CASE Ask(t) /\ job' = [job EXCEPT ![t] = <<next>>]
    <3>1. job'[t] = <<next>> /\ <<next>> # <<>>
      BY <1>1, <2>2
    <3> QED BY <1>1, <1>2, <1>4, <2>1, <2>2, <3>1 DEF PlacedAt
  <2> QED BY <1>2, <1>3, <2>1, <2>2 DEF PlacedAt
<1>7. CASE BeginPrune(t)
  <2>1. t \in PruneThreads /\ at' = at /\ up[Me(t)] = "up" /\ Ask(t) /\ job' = job
    BY <1>7 DEF BeginPrune, workVars
  <2> QED BY <1>1, <1>2, <1>4, <2>1 DEF PlacedAt
<1>8. CASE Approach(t)
  <2>1. at' = at /\ job' = job /\ pc'[t] # "inside" /\ pc[t] # "idle"
        /\ (pc'[t] \in {"idle", "leave"} \/ pc[t] \notin {"idle", "leave"})
    BY <1>1, <1>8
    DEF Approach, workVars, TakeLock, Miss, JoinLate, Joined, Publish, Leave, At, To
  <2> QED BY <1>1, <1>2, <1>3, <2>1 DEF PlacedAt
<1>9. CASE TurnedAway(t)
  <2>1. at' = at /\ pc'[t] \in {"idle", "leave"} /\ pc[t] # "idle"
    BY <1>1, <1>9 DEF TurnedAway, Refuse, GiveUpGate, At, To
  <2> QED BY <1>1, <1>2, <1>3, <2>1 DEF PlacedAt
<1>10. CASE Enter(t)
  <2>1. pc'[t] = "inside" /\ pc[t] \in {"joined", "published"} /\ job' = job
        /\ at'[t] = IF t \in Writers THEN "anchor" ELSE IF t \in PruneThreads THEN "sweep" ELSE "chain"
    BY <1>1, <1>10 DEF Enter, GoTo, PassGate, To
  <2> QED BY <1>2, <1>3, <2>1, AuditAssumption DEF PlacedAt
<1> QED BY <1>5, <1>6, <1>7, <1>8, <1>9, <1>10 DEF Coming

LEMMA WorkPlaced ==
  ASSUME LockTypeOK, LogTypes, Placed, NEW t \in Threads, OwnWork(t)
  PROVE  PlacedAt(t)'
<1>1. at[t] # "out" /\ pc[t] = "inside" /\ pc \in [Threads -> Steps] /\ at \in [Threads -> LogPlaces]
  BY OwnWorkInside DEF LockTypeOK, LogTypes, WorkTypes
<1>2. up' = up
  BY OthersStay
<1>3. PlacedAt(t)
  BY DEF Placed
<1>4. CASE Finish(t)
  <2>1. pc'[t] = "leave" /\ at'[t] = "out"
    BY <1>1, <1>4 DEF Finish, LeaveGate, To, GoTo
  <2> QED BY <1>1, <1>2, <1>3, <2>1 DEF PlacedAt
<1>5. ASSUME NEW place \in LogPlaces, at' = [at EXCEPT ![t] = place], pc' = pc, job' = job,
             place # "out",
             place \in {"anchor", "rotate", "record", "retain"} => t \in Writers,
             place \in {"sweep", "rewrite"} <=> t \in PruneThreads
      PROVE  PlacedAt(t)'
  <2>1. at'[t] = place
    BY <1>1, <1>5
  <2> QED BY <1>1, <1>2, <1>3, <1>5, <2>1 DEF PlacedAt
<1>6. CASE Anchor(t) \/ Rotate(t) \/ RotateFails(t) \/ RecordRotation(t) \/ Retain(t)
  <2>1. pc' = pc /\ job' = job
    BY <1>6 DEF Anchor, Rotate, RotateFails, RecordRotation, Retain, BeginRotation, EndRotation, lockVars
  <2>2. t \in Writers /\ t \notin PruneThreads
    BY <1>3, <1>6, AuditAssumption DEF Anchor, Rotate, RotateFails, RecordRotation, Retain, PlacedAt
  <2>3. \E place \in {"rotate", "chain", "record", "retain"}: at' = [at EXCEPT ![t] = place]
    BY <1>6 DEF Anchor, Rotate, RotateFails, RecordRotation, Retain, GoTo
  <2> QED BY <1>5, <2>1, <2>2, <2>3 DEF LogPlaces
<1>7. CASE Chain(t) /\ ~Finish(t)
  <2>1. at[t] = "chain" /\ pc' = pc /\ job' = job /\ (at' = at \/ at' = [at EXCEPT ![t] = "write"])
    BY <1>7 DEF Chain, GoTo, lockVars
  <2>2. at = [at EXCEPT ![t] = "chain"] /\ t \notin PruneThreads
    BY <1>1, <1>3, <2>1 DEF PlacedAt
  <2> QED BY <1>5, <2>1, <2>2 DEF LogPlaces
<1>8. CASE Sweep(t) /\ ~Finish(t)
  <2>1. at[t] = "sweep" /\ pc' = pc /\ job' = job /\ at' = [at EXCEPT ![t] = "rewrite"]
    BY <1>8 DEF Sweep, GoTo, lockVars
  <2>2. t \in PruneThreads
    BY <1>1, <1>3, <2>1 DEF PlacedAt
  <2> QED BY <1>5, <2>1, <2>2 DEF LogPlaces
<1>9. CASE Write(t) \/ Rewrite(t)
  BY <1>4, <1>9 DEF Write, Rewrite
<1> QED BY <1>4, <1>6, <1>7, <1>8, <1>9 DEF OwnWork

LEMMA PlacedKept ==
  ASSUME LockTypeOK, LogTypes, Placed, [Next]_vars
  PROVE  Placed'
<1> SUFFICES ASSUME NEW t \in Threads PROVE PlacedAt(t)'
  BY DEF Placed
<1>1. PlacedAt(t)
  BY DEF Placed
<1>2. CASE UNCHANGED vars
  BY <1>1, <1>2 DEF vars, lockVars, memVars, workVars, PlacedAt
<1>3. ASSUME NEW p \in Procs, StartReadTip(p) \/ StartLook(p) \/ Enqueue(p)
      PROVE  PlacedAt(t)'
  <2>1. UNCHANGED lockVars /\ UNCHANGED workVars
        /\ \/ up' = up
           \/ up[p] # "up" /\ \E v: up' = [up EXCEPT ![p] = v]
    BY <1>3 DEF StartReadTip, StartLook, Enqueue
  <2>2. up[Me(t)] = "up" => up'[Me(t)] = "up"
    BY <2>1, ThreadsAssumption DEF Me, LogTypes, MemTypes
  <2> QED BY <1>1, <2>1, <2>2 DEF lockVars, workVars, PlacedAt
<1>4. ASSUME NEW p \in Procs, Kill(p) PROVE PlacedAt(t)'
  <2>1. /\ pc'[t] = (IF Me(t) = p THEN "idle" ELSE pc[t]) /\ at'[t] = (IF Me(t) = p THEN "out" ELSE at[t])
        /\ job'[t] = (IF Me(t) = p THEN <<>> ELSE job[t])
    BY <1>4 DEF Kill, ProcessEnds, Me
  <2>2. Me(t) # p => up'[Me(t)] = up[Me(t)]
    BY <1>4, ThreadsAssumption DEF Kill, Me, LogTypes, MemTypes
  <2> QED BY <1>1, <2>1, <2>2 DEF PlacedAt
<1>5. ASSUME NEW u \in Threads, Coming(u) \/ OwnWork(u) PROVE PlacedAt(t)'
  <2>1. CASE u # t
    <3>1. up' = up /\ pc'[t] = pc[t] /\ at'[t] = at[t] /\ job'[t] = job[t]
      BY <1>5, <2>1, OthersStay
    <3> QED BY <1>1, <3>1 DEF PlacedAt
  <2> QED BY <1>5, <2>1, ComingPlaced, WorkPlaced
<1> QED BY <1>2, <1>3, <1>4, <1>5 DEF Next, Work, Coming, OwnWork

-----------------------------------------------------------------------------
(* The label of a hold.                                                       *)

\* While a prune or a rotation is in the hold its label says so, and what the
\* label goes back to after a rotation says so too while a prune is in it.
ShownAt(t) ==
  /\ t \in PruneThreads /\ pc[t] \in InHold =>
       HoldOf(t).kind # "append" /\ (HoldOf(t).kind = "rotation" => HoldOf(t).under # "append")
  /\ at[t] \in {"rotate", "record", "retain"} => HoldOf(t).kind # "append"
Shown == \A t \in Threads: ShownAt(t)

SameLabels(old, new) == new.kind = old.kind /\ new.under = old.under

\* What a thread's step does to the label of a hold that thread t is in.
LEMMA LabelSteps ==
  ASSUME LockInv, NEW u \in Threads, LockStep(u), NEW t \in Threads, pc[t] \in InHold, pc'[t] \in InHold
  PROVE  \/ SameLabels(HoldOf(t), HoldOf(t)')
         \/ HoldOf(t)'.kind = "prune"
         \/ BeginRotation(u) /\ HoldOf(t)'.kind = "rotation" /\ HoldOf(t)'.under = HoldOf(t).kind
         \/ /\ EndRotation(u) /\ HoldOf(t)'.under = HoldOf(t).under
            /\ HoldOf(t)'.kind = IF HoldOf(t).kind = "rotation" THEN HoldOf(t).under ELSE HoldOf(t).kind
<1>1. /\ hold \in [Procs -> Hold] /\ ProcOf[t] \in Procs /\ ProcOf[u] \in Procs /\ HoldOf(t) \in Hold
      /\ HoldOf(u) \in Hold /\ t \in HoldOf(t).members
  BY Typed, ThreadsAssumption DEF LockInv, LockTypeOK
<1>2. CASE ProcOf[t] # ProcOf[u]
  <2>1. hold' = hold \/ \E h: hold' = [hold EXCEPT ![ProcOf[u]] = h]
    BY DEF LockStep, Ask, JoinHold, JoinLate, Joined, SeeNoHold, TakeLock, Miss, Refuse, Publish,
           PassGate, GiveUpGate, LeaveGate, Leave, BeginRotation, EndRotation
  <2> QED BY <1>1, <1>2, <2>1 DEF HoldOf, SameLabels
<1>3. CASE ProcOf[t] = ProcOf[u]
  <2>1. HoldOf(t) = HoldOf(u) /\ HoldOf(t)' = hold'[ProcOf[u]] /\ Held(u)
    BY <1>1, <1>3 DEF HoldOf, Held
  <2>2. CASE Joined(u)
    BY <1>1, <2>1, <2>2 DEF Joined, HoldOf, Hold, SameLabels
  <2>3. CASE SeeNoHold(u) \/ TakeLock(u) \/ Miss(u) \/ Refuse(u) \/ GiveUpGate(u)
    BY <2>1, <2>3 DEF SeeNoHold, TakeLock, Miss, Refuse, GiveUpGate, HoldOf, SameLabels
  <2>4. CASE Publish(u)
    BY <2>1, <2>4 DEF Publish, At, LockInv, LockedAlone
  <2>5. CASE PassGate(u) \/ LeaveGate(u)
    BY <1>1, <2>1, <2>5 DEF PassGate, LeaveGate, HoldOf, Hold, SameLabels
  <2>6. CASE Leave(u)
    <3>1. CASE HoldOf(u).members \ {u} = {}
      <4>1. t = u /\ pc'[u] = "idle"
        BY <1>1, <2>1, <2>6, <3>1 DEF Leave, To, LockInv, LockTypeOK
      <4> QED BY <4>1 DEF InHold
    <3>2. CASE HoldOf(u).members \ {u} # {}
      BY <1>1, <2>1, <2>6, <3>2 DEF Leave, HoldOf, Hold, SameLabels
    <3> QED BY <3>1, <3>2
  <2>7. CASE BeginRotation(u)
    BY <1>1, <2>1, <2>7 DEF BeginRotation, HoldOf, Hold
  <2>8. CASE EndRotation(u)
    BY <1>1, <2>1, <2>8 DEF EndRotation, HoldOf, Hold
  <2> QED BY <2>2, <2>3, <2>4, <2>5, <2>6, <2>7, <2>8 DEF LockStep, Ask, JoinHold, JoinLate
<1> QED BY <1>2, <1>3

\* A prune that comes into a hold puts its label on it.
LEMMA PruneArrives ==
  ASSUME LockInv, NEW t \in PruneThreads, LockStep(t), pc[t] \notin InHold, pc'[t] \in InHold
  PROVE  HoldOf(t)'.kind = "prune"
<1>0. t \in Threads /\ HoldOf(t) \in Hold
  BY Typed, ThreadsAssumption
<1>1. /\ hold \in [Procs -> Hold] /\ ProcOf[t] \in Procs /\ pc \in [Threads -> Steps]
  BY <1>0, ThreadsAssumption DEF LockInv, LockTypeOK
<1>2. CASE Joined(t)
  BY <1>0, <1>1, <1>2 DEF Joined, HoldOf, Hold
<1>3. CASE Publish(t)
  BY <1>1, <1>3 DEF Publish, HoldOf, KindOf
<1>4. CASE SeeNoHold(t) \/ TakeLock(t) \/ Miss(t) \/ Refuse(t) \/ Leave(t)
  BY <1>0, <1>1, <1>4 DEF SeeNoHold, TakeLock, Miss, Refuse, Leave, To, InHold
<1>5. CASE PassGate(t) \/ GiveUpGate(t) \/ LeaveGate(t) \/ BeginRotation(t) \/ EndRotation(t)
  BY <1>5 DEF PassGate, GiveUpGate, LeaveGate, BeginRotation, EndRotation, At, InHold
<1> QED BY <1>2, <1>3, <1>4, <1>5 DEF LockStep, Ask, JoinHold, JoinLate

LEMMA ShownKept ==
  ASSUME LockInv, LockInv', LogTypes, Placed, Placed', Shown, [Next]_vars
  PROVE  Shown'
<1> SUFFICES ASSUME NEW t \in Threads PROVE ShownAt(t)'
  BY DEF Shown
<1>0. LockTypeOK /\ ShownAt(t) /\ HoldOf(t) \in Hold
  BY Typed DEF LockInv, Shown
<1>1. CASE UNCHANGED vars
  BY <1>0, <1>1 DEF vars, lockVars, workVars, ShownAt, HoldOf
<1>2. ASSUME NEW p \in Procs, StartReadTip(p) \/ StartLook(p) \/ Enqueue(p)
      PROVE  ShownAt(t)'
  <2>1. UNCHANGED lockVars /\ UNCHANGED workVars
    BY <1>2 DEF StartReadTip, StartLook, Enqueue
  <2> QED BY <1>0, <2>1 DEF lockVars, workVars, ShownAt, HoldOf
<1>3. ASSUME NEW p \in Procs, Kill(p) PROVE ShownAt(t)'
  <2>1. /\ pc'[t] = (IF Me(t) = p THEN "idle" ELSE pc[t]) /\ at'[t] = (IF Me(t) = p THEN "out" ELSE at[t])
        /\ hold' = [hold EXCEPT ![p] = NoHold]
    BY <1>3 DEF Kill, ProcessEnds, Me
  <2>2. Me(t) # p => HoldOf(t)' = HoldOf(t)
    BY <1>0, <2>1, ThreadsAssumption DEF Me, HoldOf, LockTypeOK
  <2> QED BY <1>0, <2>1, <2>2 DEF ShownAt, InHold
<1>4. ASSUME NEW u \in Threads, Coming(u) \/ OwnWork(u) PROVE ShownAt(t)'
  <2>1. LockStep(u) \/ UNCHANGED lockVars
    BY <1>4, OwnLockStep
  <2>2. u # t => pc'[t] = pc[t] /\ at'[t] = at[t]
    BY <1>0, <1>4, OthersStay
  <2>3. ASSUME t \in PruneThreads, pc'[t] \in InHold
        PROVE  HoldOf(t)'.kind # "append" /\ (HoldOf(t)'.kind = "rotation" => HoldOf(t)'.under # "append")
    <3>1. CASE UNCHANGED lockVars
      BY <1>0, <2>3, <3>1 DEF lockVars, ShownAt, HoldOf
    <3>2. CASE LockStep(u) /\ pc[t] \notin InHold
      BY <2>2, <2>3, <3>2, PruneArrives
    <3>3. CASE LockStep(u) /\ pc[t] \in InHold
      <4>1. \/ SameLabels(HoldOf(t), HoldOf(t)')
            \/ HoldOf(t)'.kind = "prune"
            \/ HoldOf(t)'.kind = "rotation" /\ HoldOf(t)'.under = HoldOf(t).kind
            \/ /\ HoldOf(t)'.under = HoldOf(t).under
               /\ HoldOf(t)'.kind = IF HoldOf(t).kind = "rotation" THEN HoldOf(t).under ELSE HoldOf(t).kind
        BY <2>3, <3>3, LabelSteps
      <4> QED BY <1>0, <2>3, <3>3, <4>1 DEF ShownAt, SameLabels
    <3> QED BY <2>1, <3>1, <3>2, <3>3
  <2>4. ASSUME at'[t] \in {"rotate", "record", "retain"} PROVE HoldOf(t)'.kind # "append"
    <3>1. pc'[t] = "inside" /\ pc'[t] \in InHold
      BY <2>4 DEF Placed, PlacedAt, InHold
    <3>2. CASE u # t
      <4>1. HoldOf(t).kind # "append" /\ pc[t] = "inside" /\ at[t] # "out" /\ pc[t] \in InHold
        BY <1>0, <2>2, <2>4, <3>1, <3>2 DEF ShownAt
      <4>2. pc[u] # "inside"
        BY <3>2, <4>1, InvExcludes DEF OneInside
      <4>3. ~BeginRotation(u) /\ ~EndRotation(u)
        BY <4>2 DEF BeginRotation, EndRotation, At
      <4>4. CASE UNCHANGED lockVars
        BY <4>1, <4>4 DEF lockVars, HoldOf
      <4> QED BY <2>1, <3>1, <4>1, <4>3, <4>4, LabelSteps DEF SameLabels
    <3>3. CASE u = t
      <4>1. CASE BeginRotation(t)
        BY <1>0, <4>1, ThreadsAssumption DEF BeginRotation, HoldOf, Hold, LockTypeOK
      <4>2. CASE ~BeginRotation(t)
        <5>1. Rotate(t) \/ RecordRotation(t)
          <6>1. ~Coming(t)
            <7>1. Coming(t) => at' = at \/ Enter(t)
              BY ComingLeavesFiles
            <7>2. Enter(t) => at'[t] \in {"anchor", "sweep", "chain"}
              BY DEF Enter, GoTo, LogTypes, WorkTypes
            <7> QED BY <2>4, <7>1, <7>2, ComingOutside
          <6>2. OwnWork(t) /\ at \in [Threads -> LogPlaces]
            BY <1>4, <3>3, <6>1 DEF LogTypes, WorkTypes
          <6>3. Finish(t) => at'[t] = "out"
            BY <6>2 DEF Finish, GoTo
          <6>4. ~Anchor(t) /\ ~Retain(t) /\ ~RotateFails(t)
            BY <2>4, <4>2, <6>2 DEF Anchor, Retain, RotateFails, GoTo
          <6>5. ~Chain(t) /\ ~Sweep(t)
            BY <2>4, <6>2, <6>3 DEF Chain, Sweep, GoTo
          <6>6. ~Write(t) /\ ~Rewrite(t)
            BY <2>4, <6>3 DEF Write, Rewrite
          <6> QED BY <6>2, <6>4, <6>5, <6>6 DEF OwnWork
        <5>2. UNCHANGED lockVars /\ at[t] \in {"rotate", "record"}
          BY <5>1 DEF Rotate, RecordRotation
        <5> QED BY <1>0, <5>2 DEF lockVars, HoldOf, ShownAt
      <4> QED BY <4>1, <4>2
    <3> QED BY <3>2, <3>3
  <2> QED BY <2>3, <2>4 DEF ShownAt
<1> QED BY <1>1, <1>2, <1>3, <1>4 DEF Next, Work, Coming, OwnWork

-----------------------------------------------------------------------------
(* What a thread under the lock has made ready.                               *)

\* It has chained anew once at most, and then from the file as it is.
TriedAt(t) ==
  tries[t] # 0 =>
    /\ tries[t] = 1 /\ at[t] \in {"chain", "write"}
    /\ at[t] = "chain" => seen[Me(t)] = Identity(live) /\ live.ino # 0
Tried == \A t \in Threads: TriedAt(t)

\* What a prune copies for a cutoff.
CopyOf(t, cutoff) ==
  /\ copy[t].keep = Picked(live.lines, Young(cutoff))
  /\ copy[t].drop = {e \in Events(live.lines): e < cutoff}

\* The log a rotation record opens is not there, the file to write is there,
\* and a copy is of the log as it is.
ReadyAt(t) ==
  /\ at[t] = "record" => live = Absent /\ tip[Me(t)] = 0 /\ seen[Me(t)] = Identity(Absent)
  /\ at[t] = "write" => live.ino # 0
  /\ at[t] = "rewrite" => \E cutoff \in Nat \ {0}: CopyOf(t, cutoff)
Ready == \A t \in Threads: ReadyAt(t)

LEMMA WorkReady ==
  ASSUME LogTypes, Placed, Tried, NEW t \in Threads, OwnWork(t)
  PROVE  TriedAt(t)' /\ ReadyAt(t)'
<1>1. /\ at \in [Threads -> LogPlaces] /\ tries \in [Threads -> 0 .. AppendRetries]
      /\ copy \in [Threads -> [keep: Lines(next), drop: SUBSET Nat]]
      /\ tip \in [Procs -> 0 .. next - 1] /\ seen \in [Procs -> [ino: 0 .. inos, size: Nat]]
      /\ Me(t) \in Procs /\ next \in Nat
  BY ThreadsAssumption DEF LogTypes, WorkTypes, MemTypes, Me
<1>2. TriedAt(t) /\ at[t] # "out"
  BY OwnWorkInside DEF Tried
<1>3. ASSUME Finish(t) PROVE TriedAt(t)' /\ ReadyAt(t)'
  <2>1. at'[t] = "out" /\ tries'[t] = 0
    BY <1>1, <1>3 DEF Finish, GoTo
  <2> QED BY <2>1 DEF TriedAt, ReadyAt
<1>4. CASE Anchor(t) \/ RotateFails(t) \/ RecordRotation(t) \/ Retain(t)
  <2>1. tries' = tries /\ at'[t] \in {"rotate", "chain", "retain"} /\ at[t] \notin {"chain", "write"}
    BY <1>1, <1>4 DEF Anchor, RotateFails, RecordRotation, Retain, GoTo
  <2>2. tries'[t] = 0
    BY <1>2, <2>1 DEF TriedAt
  <2> QED BY <2>1, <2>2 DEF TriedAt, ReadyAt
<1>5. CASE Rotate(t)
  <2>1. /\ tries' = tries /\ at'[t] = "record" /\ at[t] = "rotate"
        /\ live' = Absent /\ tip'[Me(t)] = 0 /\ seen'[Me(t)] = Identity(Absent)
    BY <1>1, <1>5 DEF Rotate, GoTo
  <2>2. tries'[t] = 0
    BY <1>2, <2>1 DEF TriedAt
  <2> QED BY <2>1, <2>2 DEF TriedAt, ReadyAt, Identity
<1>6. CASE Chain(t)
  <2>1. at[t] = "chain" /\ live' = Opened /\ Opened.ino # 0
    BY <1>6, FileTypes DEF Chain
  <2>2. CASE ~MovedOn(seen[Me(t)], Identity(Opened))
    <3>1. at'[t] = "write" /\ tries' = tries
      BY <1>1, <1>6, <2>2 DEF Chain, GoTo
    <3> QED BY <1>2, <2>1, <3>1 DEF TriedAt, ReadyAt
  <2>3. CASE MovedOn(seen[Me(t)], Identity(Opened)) /\ ~Finish(t)
    <3>1. tries[t] = 0
      <4>1. tries[t] # 0 => seen[Me(t)] = Identity(Opened)
        BY <1>2, <2>1 DEF TriedAt, Opened
      <4>2. ~MovedOn(Identity(Opened), Identity(Opened))
        BY DEF MovedOn
      <4> QED BY <2>3, <4>1, <4>2
    <3>2. tries' = [tries EXCEPT ![t] = tries[t] + 1] /\ at' = at /\ seen' = [seen EXCEPT ![Me(t)] = Identity(Opened)]
      BY <1>6, <2>3 DEF Chain
    <3>3. tries'[t] = 1 /\ at'[t] = "chain" /\ seen'[Me(t)] = Identity(Opened)
      BY <1>1, <2>1, <3>1, <3>2
    <3>4. Identity(Opened) = Identity(live)'
      BY <2>1 DEF Identity
    <3> QED BY <2>1, <3>3, <3>4 DEF TriedAt, ReadyAt
  <2> QED BY <1>3, <2>2, <2>3
<1>7. CASE Write(t) \/ Rewrite(t)
  BY <1>3, <1>7 DEF Write, Rewrite
<1>8. CASE Sweep(t)
  <2>1. PICK cutoff \in 1 .. next:
          LET kept == Picked(live.lines, Young(cutoff))
          IN IF kept = live.lines
               THEN Finish(t) /\ UNCHANGED copy
               ELSE /\ copy' = [copy EXCEPT ![t] =
                         [keep |-> kept, drop |-> {e \in Events(live.lines): e < cutoff}]]
                    /\ GoTo(t, "rewrite")
                    /\ UNCHANGED <<lockVars, job, tries>>
    BY <1>8 DEF Sweep
  <2>2. CASE ~Finish(t)
    <3>1. /\ copy' = [copy EXCEPT ![t] = [keep |-> Picked(live.lines, Young(cutoff)),
                                         drop |-> {e \in Events(live.lines): e < cutoff}]]
          /\ GoTo(t, "rewrite") /\ UNCHANGED tries
      BY <2>1, <2>2
    <3>2. at'[t] = "rewrite" /\ tries' = tries /\ at[t] = "sweep" /\ live' = live
      BY <1>1, <1>8, <3>1 DEF Sweep, GoTo
    <3>3. tries'[t] = 0
      BY <1>2, <3>2 DEF TriedAt
    <3>4. /\ copy'[t].keep = Picked(live.lines, Young(cutoff))
          /\ copy'[t].drop = {e \in Events(live.lines): e < cutoff}
      BY <1>1, <3>1
    <3>5. CopyOf(t, cutoff)' /\ cutoff \in Nat \ {0}
      BY <1>1, <3>2, <3>4 DEF CopyOf, Young
    <3> QED BY <3>2, <3>3, <3>5 DEF TriedAt, ReadyAt
  <2> QED BY <1>3, <2>2
<1> QED BY <1>4, <1>5, <1>6, <1>7, <1>8 DEF OwnWork

\* A thread that is out of its work has chained nothing anew.
LEMMA TriedOutside ==
  ASSUME LockTypeOK, LogTypes, Placed, Tried, [Next]_vars, NEW t \in Threads, at'[t] = "out"
  PROVE  tries'[t] = 0
<1>1. at[t] = "out" => tries[t] = 0
  BY DEF Tried, TriedAt
<1>2. CASE UNCHANGED vars
  BY <1>1, <1>2 DEF vars, workVars
<1>3. ASSUME NEW p \in Procs, StartReadTip(p) \/ StartLook(p) \/ Enqueue(p) PROVE tries'[t] = 0
  BY <1>1, <1>3 DEF StartReadTip, StartLook, Enqueue, workVars
<1>4. ASSUME NEW p \in Procs, Kill(p) PROVE tries'[t] = 0
  BY <1>1, <1>4 DEF Kill
<1>5. ASSUME NEW u \in Threads, Coming(u) \/ OwnWork(u) PROVE tries'[t] = 0
  <2>1. CASE u # t
    BY <1>1, <1>5, <2>1, OthersStay
  <2>2. CASE u = t /\ Coming(t)
    BY <1>1, <2>2, ComingLeavesFiles, ComingOutside
  <2>3. CASE u = t /\ OwnWork(t)
    <3>1. TriedAt(t)'
      BY <2>3, WorkReady
    <3> QED BY <3>1 DEF TriedAt
  <2> QED BY <1>5, <2>1, <2>2, <2>3
<1> QED BY <1>2, <1>3, <1>4, <1>5 DEF Next, Work, Coming, OwnWork

LEMMA ReadyKept ==
  ASSUME LockInv, LockInv', LogTypes, Placed, Tried, Ready, [Next]_vars
  PROVE  Tried' /\ Ready'
<1> SUFFICES ASSUME NEW t \in Threads PROVE TriedAt(t)' /\ ReadyAt(t)'
  BY DEF Tried, Ready
<1>1. CASE at'[t] = "out"
  BY <1>1, TriedOutside DEF LockInv, TriedAt, ReadyAt
<1>2. CASE at'[t] # "out" /\ Undisturbed(t)
  BY <1>2 DEF Undisturbed, Tried, Ready, TriedAt, ReadyAt, CopyOf, Young, Identity
<1>3. CASE Enter(t)
  <2>1. at'[t] \in {"anchor", "sweep", "chain"} /\ tries' = tries
    BY <1>3 DEF Enter, GoTo, LogTypes, WorkTypes
  <2>2. tries[t] = 0
    BY <1>3, ComingOutside DEF Coming, Tried, TriedAt
  <2> QED BY <2>1, <2>2 DEF TriedAt, ReadyAt
<1>4. CASE OwnWork(t)
  BY <1>4, WorkReady
<1> QED BY <1>1, <1>2, <1>3, <1>4, StepKinds

LogInv == LockInv /\ LogTypes /\ Placed /\ Shown /\ Tried /\ Ready

LEMMA LogInvKept == LogInv /\ [Next]_vars => LogInv'
<1> SUFFICES ASSUME LogInv, [Next]_vars PROVE LogInv'
  OBVIOUS
<1>1. LockInv /\ LockTypeOK /\ LogTypes /\ Placed /\ Shown /\ Tried /\ Ready
  BY DEF LogInv, LockInv
<1>2. LockInv'
  BY <1>1, StepsOfTheLock, LockStepKeeps
<1>3. LogTypes'
  BY <1>1, TypesKept DEF WriteOpen, Ready, ReadyAt
<1>4. Placed'
  BY <1>1, PlacedKept
<1>5. Shown'
  BY <1>1, <1>2, <1>4, ShownKept
<1>6. Tried' /\ Ready'
  BY <1>1, <1>2, ReadyKept
<1> QED BY <1>2, <1>3, <1>4, <1>5, <1>6 DEF LogInv

LEMMA LogInvInitially == Init => LogInv
<1> SUFFICES ASSUME Init PROVE LogInv
  OBVIOUS
<1>1. LockInv
  BY LockInitially DEF Init
<1>2. LogTypes
  BY TypesInitially
<1>3. \A t \in Threads: at[t] = "out" /\ pc[t] = "idle" /\ tries[t] = 0
  BY DEF Init, LockInit
<1>4. Placed /\ Tried /\ Ready
  BY <1>3 DEF Placed, PlacedAt, Tried, TriedAt, Ready, ReadyAt
<1>5. Shown
  BY <1>3 DEF Shown, ShownAt, InHold
<1> QED BY <1>1, <1>2, <1>4, <1>5 DEF LogInv

\* The inductive invariant of the log, whatever its processes do.
THEOREM LogInvariant == Spec => []LogInv
  BY LogInvInitially, LogInvKept, PTL DEF Spec

\* Every variable of the log keeps its type: no tip, no queued event and no
\* event of a file lies ahead of what was logged (SecurityEventLog).
THEOREM LogTypesCorrect == Spec => []TypeOK
<1>1. LogInv => TypeOK
  <2> SUFFICES ASSUME LogInv PROVE TypeOK
    OBVIOUS
  <2>1. LockTypeOK /\ LogTypes
    BY DEF LogInv, LockInv
  <2>2. live.ino \in Nat /\ live.lines \in Seq(Line)
    BY <2>1, FileTypes, LinesAreLines DEF LogTypes
  <2>3. \A i \in DOMAIN segs: segs[i].seq \in Nat /\ segs[i].lines \in Seq(Line)
    <3>1. SUFFICES ASSUME NEW i \in DOMAIN segs PROVE segs[i].seq \in Nat /\ segs[i].lines \in Seq(Line)
      OBVIOUS
    <3>2. segs[i] \in [seq: Nat, lines: Lines(next)]
      <4> DEFINE segment == [seq: Nat, lines: Lines(next)]
      <4>1. segs \in Seq(segment)
        BY <2>1 DEF LogTypes, DiskTypes
      <4> HIDE DEF segment
      <4>2. segs[i] \in segment
        BY <3>1, <4>1, LenProperties, ElementOfSeq
      <4> QED BY <4>2 DEF segment
    <3>3. segs[i].seq \in Nat /\ segs[i].lines \in Lines(next) /\ next \in Nat
      BY <2>1, <3>2 DEF LogTypes
    <3> QED BY <3>3, LinesAreLines
  <2> QED BY <2>1, <2>2, <2>3 DEF TypeOK, LogTypes, MemTypes, WorkTypes, LogPlaces
<1> QED BY <1>1, LogInvariant, PTL

\* Under the lock one more chaining is always enough, so SelChainContention
\* is not raised among writers that take the lock (_append_chained_locked).
THEOREM AlwaysOneRechain == Spec => []OneRechain
<1>1. LogInv => OneRechain
  <2> SUFFICES ASSUME LogInv, NEW t \in Threads PROVE tries[t] <= 1
    BY DEF OneRechain
  <2>1. tries[t] # 0 => tries[t] = 1
    BY DEF LogInv, Tried, TriedAt
  <2> QED BY <2>1
<1> QED BY <1>1, LogInvariant, PTL

\* A joiner on the loop that waits behind a prune or a rotation finds that in
\* the label at its next look (_acquire_gate_loop_side).
THEOREM LoopAlwaysPolls == Spec => []LoopPolls
<1>1. LogInv => LoopPolls
  <2> SUFFICES ASSUME LogInv, NEW t \in LoopThreads, NEW s \in Threads,
                      HoldOf(t).gate = s, at[s] \in Heavy
               PROVE  HoldOf(t).kind # "append"
    BY DEF LoopPolls
  <2>1. t \in Threads /\ ProcOf[t] \in Procs /\ s # NoThread
    BY ThreadsAssumption
  <2>2. ProcOf[s] = ProcOf[t]
    BY <2>1 DEF LogInv, LockInv, GatesAtHome, HoldOf
  <2>3. HoldOf(s) = HoldOf(t)
    BY <2>2 DEF HoldOf
  <2>4. at[s] # "out" /\ pc[s] = "inside"
    BY DEF LogInv, Placed, PlacedAt, Heavy
  <2>5. CASE at[s] \in {"rotate", "record", "retain"}
    BY <2>3, <2>5 DEF LogInv, Shown, ShownAt
  <2>6. CASE at[s] \in {"sweep", "rewrite"}
    BY <2>3, <2>4, <2>6 DEF LogInv, Placed, PlacedAt, Shown, ShownAt, InHold
  <2> QED BY <2>5, <2>6 DEF Heavy
<1> QED BY <1>1, LogInvariant, PTL

-----------------------------------------------------------------------------
(* What is stored stays.                                                      *)

LEMMA HereOrExpired ==
  ASSUME \A i \in DOMAIN segs: segs[i].lines \in Files' \/ Events(segs[i].lines) \subseteq expired',
         Events(live.lines) \subseteq Stored' \cup expired'
  PROVE  Stored \subseteq Stored' \cup expired'
<1> SUFFICES ASSUME NEW lines \in Files PROVE Events(lines) \subseteq Stored' \cup expired'
  BY DEF Stored
<1>1. CASE lines = live.lines
  BY <1>1
<1>2. ASSUME NEW i \in DOMAIN segs, lines = segs[i].lines
      PROVE  Events(lines) \subseteq Stored' \cup expired'
  <2>1. CASE lines \in Files'
    BY <2>1 DEF Stored
  <2> QED BY <1>2, <2>1
<1> QED BY <1>1, <1>2 DEF Files

\* The files a step leaves: the segments as they were, and a longer log.
LEMMA LongerLog ==
  ASSUME segs' = segs, Events(live.lines) \subseteq Events(live'.lines) \cup expired', expired \subseteq expired'
  PROVE  Stored \subseteq Stored' \cup expired' /\ expired \subseteq expired'
<1>1. live'.lines \in Files' /\ \A i \in DOMAIN segs: segs[i].lines \in Files'
  BY DEF Files
<1>2. Events(live.lines) \subseteq Stored' \cup expired'
  BY <1>1 DEF Stored
<1> QED BY <1>1, <1>2, HereOrExpired

\* The oldest segments gone, their events among the expired.
LEMMA OldestGone ==
  ASSUME LogTypes, NEW n \in Nat, live' = live, segs' = SubSeq(segs, n + 1, Len(segs)),
         expired' = expired \cup UNION {Events(segs[i].lines): i \in 1 .. n}
  PROVE  Stored \subseteq Stored' \cup expired' /\ expired \subseteq expired'
<1> DEFINE rest == SubSeq(segs, n + 1, Len(segs))
<1>1. Len(segs) \in Nat /\ DOMAIN segs = 1 .. Len(segs)
  BY SubSegments
<1>2. DOMAIN rest = 1 .. (IF n < Len(segs) THEN Len(segs) - n ELSE 0)
      /\ \A i \in 1 .. Len(segs) - n: rest[i] = segs[n + i]
  <2>1. rest \in Seq([seq: Nat, lines: Lines(next)])
    BY SubSegments
  <2>2. DOMAIN rest = 1 .. Len(rest)
    BY <2>1, LenProperties
  <2> QED BY <2>2, SubSegments
<1> HIDE DEF rest
<1>3. ASSUME NEW i \in DOMAIN segs
      PROVE  segs[i].lines \in Files' \/ Events(segs[i].lines) \subseteq expired'
  <2>1. i \in 1 .. Len(segs)
    BY <1>1
  <2>2. CASE i <= n
    <3>1. i \in 1 .. n
      BY <1>1, <2>1, <2>2
    <3> QED BY <3>1
  <2>3. CASE ~(i <= n)
    <3>1. i - n \in 1 .. Len(segs) - n /\ n + (i - n) = i /\ n < Len(segs)
      BY <1>1, <2>1, <2>3
    <3>2. rest[i - n] = segs[i] /\ i - n \in DOMAIN rest
      BY <1>2, <3>1
    <3>3. segs' = rest
      BY DEF rest
    <3> QED BY <3>2, <3>3 DEF Files
  <2> QED BY <2>2, <2>3
<1>4. Events(live.lines) \subseteq Stored'
  BY DEF Stored, Files
<1> QED BY <1>3, <1>4, HereOrExpired

\* A line of a file can name any event, as far as its type goes.
LEMMA IntactAnyhow ==
  ASSUME NEW n \in Nat, NEW lines \in Lines(n)
  PROVE  Intact(lines, Nat)
  BY LinesAreLines DEF Intact, Records

LEMMA CopyKeeps ==
  ASSUME LogTypes, NEW t \in Threads, NEW cutoff \in Nat \ {0}, CopyOf(t, cutoff), NEW gone,
         Intact(live.lines, gone)
  PROVE  /\ Intact(copy[t].keep, gone \cup copy[t].drop)
         /\ Events(live.lines) \subseteq Events(copy[t].keep) \cup copy[t].drop
<1>1. live.lines \in Lines(next) /\ next \in Nat \ {0}
  BY FileTypes DEF LogTypes
<1>2. /\ copy[t].keep = Picked(live.lines, {line \in Range(live.lines): line.ev >= cutoff})
      /\ copy[t].drop = {e \in Events(live.lines): e < cutoff}
  BY DEF CopyOf, Young
<1> QED BY <1>1, <1>2, KeptProperties

LEMMA OpenedLines ==
  ASSUME LogTypes
  PROVE  Opened.lines = live.lines
  BY DEF LogTypes, DiskTypes, Opened

LEMMA LongerSegments ==
  ASSUME LogTypes, NEW segment
  PROVE  LET more == Append(segs, segment)
         IN  /\ Len(segs) \in Nat /\ DOMAIN segs = 1 .. Len(segs) /\ DOMAIN more = 1 .. Len(segs) + 1
             /\ \A i \in 1 .. Len(segs): more[i] = segs[i]
             /\ more[Len(segs) + 1] = segment
<1> DEFINE All == [seq: Nat, lines: Lines(next)] \cup {segment}
           more == Append(segs, segment)
<1>1. segs \in Seq(All) /\ segment \in All
  <2>1. [seq: Nat, lines: Lines(next)] \subseteq All
    OBVIOUS
  <2> HIDE DEF All
  <2> QED BY <2>1, SeqMonotonic DEF LogTypes, DiskTypes, All
<1> HIDE DEF All
<1>2. /\ more \in Seq(All) /\ Len(more) = Len(segs) + 1
      /\ \A i \in 1 .. Len(segs): more[i] = segs[i]
      /\ more[Len(segs) + 1] = segment
  BY <1>1, AppendProperties
<1>3. Len(segs) \in Nat /\ DOMAIN segs = 1 .. Len(segs)
  BY <1>1, LenProperties
<1> HIDE DEF more
<1>4. DOMAIN more = 1 .. Len(more)
  BY <1>2, LenProperties
<1> QED BY <1>2, <1>3, <1>4 DEF more

LEMMA WorkStays ==
  ASSUME LogInv, NEW t \in Threads, OwnWork(t)
  PROVE  Stored \subseteq Stored' \cup expired' /\ expired \subseteq expired'
<1>0. LogTypes /\ Placed /\ Ready /\ WriteOpen /\ next \in Nat \ {0}
  BY DEF LogInv, LogTypes, Ready, ReadyAt, WriteOpen
<1>1. CASE Anchor(t) \/ RotateFails(t)
  BY <1>1, LongerLog DEF Anchor, RotateFails, diskVars
<1>2. CASE Rotate(t)
  <2>1. live' = Absent /\ expired' = expired
        /\ \E seq: segs' = Append(segs, [seq |-> seq, lines |-> live.lines])
    BY <1>2 DEF Rotate, ghostVars
  <2>2. PICK seq: segs' = Append(segs, [seq |-> seq, lines |-> live.lines])
    BY <2>1
  <2>5. /\ Len(segs) \in Nat /\ DOMAIN segs = 1 .. Len(segs) /\ DOMAIN segs' = 1 .. Len(segs) + 1
        /\ \A i \in 1 .. Len(segs): segs'[i] = segs[i]
        /\ segs'[Len(segs) + 1] = [seq |-> seq, lines |-> live.lines]
    BY <1>0, <2>2, LongerSegments
  <2>6. \A i \in DOMAIN segs: segs[i].lines \in Files'
    BY <2>5 DEF Files
  <2>7. live.lines \in Files'
    <3>1. Len(segs) + 1 \in DOMAIN segs' /\ segs'[Len(segs) + 1].lines = live.lines
      BY <2>5
    <3> QED BY <3>1 DEF Files
  <2>8. Events(live.lines) \subseteq Stored'
    BY <2>7 DEF Stored
  <2> QED BY <2>1, <2>6, <2>8, HereOrExpired
<1>3. CASE RecordRotation(t)
  <2>1. live.lines = <<>> /\ segs' = segs /\ expired' = expired
    BY <1>0, <1>3 DEF RecordRotation, Ready, ReadyAt, Absent
  <2>2. Events(live.lines) = {}
    BY <2>1 DEF Events, Records
  <2> QED BY <2>1, <2>2, LongerLog
<1>4. CASE Retain(t)
  <2>1. live' = live
        /\ \E n \in Nat: /\ segs' = SubSeq(segs, n + 1, Len(segs))
                         /\ expired' = expired \cup UNION {Events(segs[i].lines): i \in 1 .. n}
    <3>1. Len(segs) \in Nat
      BY <1>0, LenProperties DEF LogTypes, DiskTypes
    <3> QED BY <1>4, <3>1, AuditAssumption DEF Retain
  <2> QED BY <1>0, <2>1, OldestGone
<1>5. CASE Chain(t)
  <2>1. live'.lines = live.lines /\ segs' = segs /\ expired' = expired
    BY <1>0, <1>5, OpenedLines DEF Chain, ghostVars
  <2> QED BY <2>1, LongerLog
<1>6. CASE Write(t)
  <2>1. PICK part \in Lines(next): live' = [live EXCEPT !.lines = @ \o part]
    BY <1>0, <1>6, WriteTypes
  <2>2. live'.lines = live.lines \o part
    BY <1>0, <2>1 DEF LogTypes, DiskTypes
  <2>3. Events(live.lines) \subseteq Events(live'.lines)
    BY <1>0, <2>2, FileTypes, EventsKept
  <2> QED BY <1>6, <2>3, LongerLog DEF Write
<1>7. CASE Sweep(t)
  <2>1. live' = live
        /\ \E n \in Nat: /\ segs' = SubSeq(segs, n + 1, Len(segs))
                         /\ expired' = expired \cup UNION {Events(segs[i].lines): i \in 1 .. n}
    <3>1. PICK cutoff \in 1 .. next:
            \E n \in 0 .. Aged(cutoff):
              /\ segs' = SubSeq(segs, n + 1, Len(segs))
              /\ expired' = expired \cup UNION {Events(segs[i].lines): i \in 1 .. n}
      BY <1>7, Zenon DEF Sweep
    <3>2. 0 .. Aged(cutoff) \subseteq Nat
      OBVIOUS
    <3>3. live' = live
      BY <1>7 DEF Sweep
    <3> QED BY <3>1, <3>2, <3>3, Zenon
  <2> QED BY <1>0, <2>1, OldestGone
<1>8. CASE Rewrite(t)
  <2>1. PICK cutoff \in Nat \ {0}: CopyOf(t, cutoff)
    BY <1>0, <1>8 DEF Rewrite, Ready, ReadyAt
  <2>2. Events(live.lines) \subseteq Events(copy[t].keep) \cup copy[t].drop
    BY <1>0, <2>1, CopyKeeps, IntactAnyhow, FileTypes
  <2>3. \/ /\ live'.lines = copy[t].keep
           /\ expired' = expired \cup copy[t].drop
        \/ live' = live /\ expired' = expired
    BY <1>8 DEF Rewrite
  <2> QED BY <1>8, <2>2, <2>3, LongerLog DEF Rewrite
<1> QED BY <1>1, <1>2, <1>3, <1>4, <1>5, <1>6, <1>7, <1>8 DEF OwnWork

LEMMA StoredKept ==
  ASSUME LogInv, [Next]_vars
  PROVE  Stored \subseteq Stored' \cup expired' /\ expired \subseteq expired'
<1>0. LogTypes /\ next \in Nat
  BY DEF LogInv, LogTypes
<1>1. CASE UNCHANGED vars
  BY <1>1, LongerLog DEF vars, diskVars, ghostVars
<1>2. ASSUME NEW p \in Procs, StartReadTip(p) \/ StartLook(p) \/ Enqueue(p)
      PROVE  segs' = segs /\ live' = live /\ expired' = expired
  BY <1>2 DEF StartReadTip, StartLook, Enqueue, diskVars, ghostVars
<1>3. ASSUME NEW p \in Procs, Kill(p)
      PROVE  Stored \subseteq Stored' \cup expired' /\ expired \subseteq expired'
  <2>1. PICK part \in Lines(next): live' = [live EXCEPT !.lines = @ \o part]
    BY <1>0, <1>3, KilledPart
  <2>2. live'.lines = live.lines \o part
    BY <1>0, <2>1 DEF LogTypes, DiskTypes
  <2>3. Events(live.lines) \subseteq Events(live'.lines)
    BY <1>0, <2>2, FileTypes, EventsKept
  <2> QED BY <1>3, <2>3, LongerLog DEF Kill
<1>4. ASSUME NEW t \in Threads, Coming(t)
      PROVE  segs' = segs /\ live' = live /\ expired' = expired
  BY <1>4, ComingLeavesFiles DEF diskVars
<1> QED BY <1>1, <1>2, <1>3, <1>4, WorkStays, LongerLog DEF Next, Work, Coming, OwnWork

\* No step of any process drops or overwrites a stored record, except the ones
\* that drop the old: retention and prune() (_rotate_locked, prune).
THEOREM NothingStoredLost == Spec => StoredStays
<1>1. LogInv /\ [Next]_vars => [Stored \subseteq Stored' \cup expired']_vars
  BY StoredKept
<1> QED BY <1>1, LogInvariant, PTL DEF Spec, StoredStays

\* What an audit was acknowledged for is in the log when its caller is told.
LEMMA AckedStored ==
  ASSUME LogInv, NEW t \in Threads, Write(t)
  PROVE  acked' \subseteq acked \cup Stored'
<1>0. LogTypes /\ next \in Nat \ {0} /\ live.lines \in Lines(next)
  BY FileTypes DEF LogInv, LogTypes
<1>1. SUFFICES ASSUME acked' = acked \cup Range(job[t]),
                      live' = [live EXCEPT !.lines = @ \o Chained(job[t], tip[Me(t)])]
               PROVE  Range(job[t]) \subseteq Stored'
  BY DEF Write
<1> DEFINE records == Chained(job[t], tip[Me(t)])
<1>2. job[t] \in Seq(1 .. next - 1) /\ tip[Me(t)] \in 0 .. next - 1
  BY <1>0, ThreadsAssumption DEF LogTypes, WorkTypes, MemTypes, Me
<1>3. /\ records \in Lines(next) /\ Len(records) = Len(job[t]) /\ Len(job[t]) \in Nat
      /\ \A i \in 1 .. Len(job[t]): records[i].ev = job[t][i] /\ job[t][i] \in 1 .. next - 1
  BY <1>0, <1>2, ChainedProperties, LenProperties
<1>4. live'.lines = live.lines \o records
  BY <1>0, <1>1 DEF LogTypes, DiskTypes
<1> HIDE DEF records
<1>5. Range(job[t]) \subseteq Events(records)
  <2>1. DOMAIN records = 1 .. Len(job[t]) /\ DOMAIN job[t] = 1 .. Len(job[t])
    BY <1>0, <1>2, <1>3, LinesAreLines, LenProperties
  <2>2. \A i \in 1 .. Len(job[t]): i \in Records(records) /\ records[i].ev = job[t][i]
    BY <1>3, <2>1 DEF Records
  <2> QED BY <2>1, <2>2 DEF Events, Range
<1>6. Events(records) \subseteq Events(live'.lines)
  BY <1>0, <1>3, <1>4, EventsKept
<1>7. Events(live'.lines) \subseteq Stored'
  BY DEF Stored, Files
<1> QED BY <1>5, <1>6, <1>7

\* A critical audit that reported success is in a file until retention or age
\* takes it: audit or deny (log, critical=True).
THEOREM AuditedOrDenied == Spec => []AuditOrDeny
<1>1. Init => AuditOrDeny
  BY DEF Init, AuditOrDeny
<1>2. LogInv /\ AuditOrDeny /\ [Next]_vars => AuditOrDeny'
  <2> SUFFICES ASSUME LogInv, AuditOrDeny, [Next]_vars PROVE AuditOrDeny'
    OBVIOUS
  <2>1. Stored \subseteq Stored' \cup expired' /\ expired \subseteq expired'
    BY StoredKept
  <2>2. acked' \subseteq acked \cup Stored'
    <3>1. CASE UNCHANGED vars
      BY <3>1 DEF vars, ghostVars
    <3>2. ASSUME NEW p \in Procs, StartReadTip(p) \/ StartLook(p) \/ Enqueue(p) \/ Kill(p)
          PROVE  acked' = acked
      BY <3>2 DEF StartReadTip, StartLook, Enqueue, Kill, ghostVars
    <3>3. ASSUME NEW t \in Threads, Coming(t) PROVE acked' = acked
      BY <3>3, ComingLeavesFiles
    <3>4. ASSUME NEW t \in Threads, OwnWork(t), ~Write(t) PROVE acked' = acked
      BY <3>4 DEF OwnWork, Anchor, Rotate, RotateFails, RecordRotation, Retain, Chain, Sweep, Rewrite, ghostVars
    <3> QED BY <3>1, <3>2, <3>3, <3>4, AckedStored DEF Next, Work, Coming, OwnWork
  <2> QED BY <2>1, <2>2 DEF AuditOrDeny
<1> QED BY <1>1, <1>2, LogInvariant, PTL DEF Spec

-----------------------------------------------------------------------------
(* No fork: the tip is that of the file it is used on.                        *)

\* What a process remembers of a file explains its tip: it is the last record
\* of what it has seen, while the file is still the one.
Explains(mem, from, file) ==
  /\ mem.ino = 0 => mem.size = 0
  /\ mem.size = 0 => from = 0
  /\ mem.ino = file.ino /\ file.ino # 0 =>
       mem.size <= Len(file.lines) /\ from = LastBefore(file.lines, mem.size + 1)

TipKnown == \A p \in Procs: up[p] = "up" => Explains(seen[p], tip[p], live)
TipLast == \A t \in Threads: at[t] = "write" => tip[Me(t)] = LastRecord(live.lines)
IntactFiles == \A lines \in Files: Intact(lines, pruned)

LEMMA ExplainsOwn ==
  ASSUME NEW n \in Nat, NEW file \in [ino: Nat, lines: Lines(n)], file.ino = 0 => file.lines = <<>>
  PROVE  Explains(Identity(file), LastRecord(file.lines), file)
<1>1. Len(file.lines) \in Nat /\ DOMAIN file.lines = 1 .. Len(file.lines)
  BY LinesAreLines
<1>2. Len(file.lines) = 0 => LastRecord(file.lines) = 0
  <2>1. Len(file.lines) = 0 => Records(file.lines) = {}
    BY <1>1 DEF Records
  <2> QED BY <2>1, LastBeforeNone DEF LastRecord
<1>3. file.ino = 0 => Len(file.lines) = 0
  BY EmptySeq
<1>4. /\ Identity(file).ino = file.ino /\ Identity(file).size = Len(file.lines)
  BY DEF Identity
<1> QED BY <1>1, <1>2, <1>3, <1>4 DEF Explains, LastRecord

LEMMA ExplainsGrown ==
  ASSUME NEW n \in Nat, NEW file \in [ino: Nat, lines: Lines(n)], NEW part \in Lines(n),
         NEW mem, mem.size \in Nat, NEW from, Explains(mem, from, file),
         NEW grown, grown.ino = file.ino, grown.lines = file.lines \o part
  PROVE  Explains(mem, from, grown)
<1>1. /\ grown.lines \in Lines(n) /\ Len(grown.lines) = Len(file.lines) + Len(part)
      /\ Len(file.lines) \in Nat /\ Len(part) \in Nat
      /\ \A k \in 1 .. Len(file.lines): grown.lines[k] = file.lines[k]
  BY AppendedLines
<1>2. grown.lines \in Seq(Line) /\ file.lines \in Seq(Line)
  BY <1>1, LinesAreLines
<1>3. ASSUME mem.size <= Len(file.lines)
      PROVE  mem.size <= Len(grown.lines) /\ LastBefore(grown.lines, mem.size + 1) = LastBefore(file.lines, mem.size + 1)
  <2>1. Len(file.lines) <= Len(grown.lines) /\ mem.size + 1 \in Nat /\ mem.size + 1 <= Len(file.lines) + 1
        /\ mem.size <= Len(grown.lines)
    BY <1>1, <1>3
  <2> QED BY <1>1, <1>2, <2>1, LastBeforeKept
<1> QED BY <1>3 DEF Explains

LEMMA ExplainsOther ==
  ASSUME NEW mem, NEW from, NEW old, Explains(mem, from, old), NEW file, file.ino = 0 \/ file.ino # mem.ino
  PROVE  Explains(mem, from, file)
  BY DEF Explains

\* A file that has not moved on is chained from its last record.
LEMMA ExplainsLast ==
  ASSUME NEW n \in Nat, NEW file \in [ino: Nat, lines: Lines(n)], file.ino # 0,
         NEW mem, NEW from, Explains(mem, from, file), ~MovedOn(mem, Identity(file))
  PROVE  from = LastRecord(file.lines)
<1>1. Len(file.lines) \in Nat /\ DOMAIN file.lines = 1 .. Len(file.lines)
  BY LinesAreLines
<1>2. mem.size = Len(file.lines) /\ (mem.ino = 0 \/ mem.ino = file.ino)
  BY DEF MovedOn, Identity
<1>3. CASE mem.ino = file.ino
  BY <1>2, <1>3 DEF Explains, LastRecord
<1>4. CASE mem.ino = 0
  <2>1. Len(file.lines) = 0 /\ from = 0
    BY <1>2, <1>4 DEF Explains
  <2>2. Records(file.lines) = {}
    BY <1>1, <2>1 DEF Records
  <2> QED BY <2>1, <2>2, LastBeforeNone DEF LastRecord
<1> QED BY <1>2, <1>3, <1>4

LEMMA ChainedOne ==
  ASSUME NEW n \in Nat \ {0}, NEW events \in Seq(1 .. n - 1), Len(events) = 1, NEW from \in 0 .. n - 1
  PROVE  Chained(events, from) \in Lines(n) /\ Len(Chained(events, from)) = 1
<1>1. /\ Chained(events, from) \in Lines(n)
      /\ Len(Chained(events, from)) = Len(events)
  BY ChainedType
<1> QED BY <1>1

LEMMA LastOfChained ==
  ASSUME NEW n \in Nat \ {0}, NEW lines \in Lines(n), NEW events \in Seq(1 .. n - 1), events # <<>>,
         NEW from \in 0 .. n - 1
  PROVE  LastRecord(lines \o Chained(events, from)) = Last(events)
<1> DEFINE records == Chained(events, from)
           all == lines \o records
<1>1. /\ records \in Lines(n) /\ Len(records) = Len(events)
      /\ \A i \in 1 .. Len(events): records[i].ev = events[i] /\ events[i] \in 1 .. n - 1
  BY ChainedProperties
<1>2. Len(events) \in Nat \ {0}
  BY LenProperties, EmptySeq
<1> HIDE DEF records
<1>3. /\ all \in Lines(n) /\ Len(all) = Len(lines) + Len(events) /\ Len(lines) \in Nat
      /\ all[Len(lines) + Len(events)] = records[Len(events)]
  <2>1. Len(events) \in 1 .. Len(records)
    BY <1>1, <1>2
  <2>2. /\ lines \o records \in Lines(n) /\ Len(lines \o records) = Len(lines) + Len(records)
        /\ Len(lines) \in Nat
        /\ \A k \in 1 .. Len(records): (lines \o records)[Len(lines) + k] = records[k]
    <3>1. ASSUME NEW part \in Lines(n)
          PROVE  /\ lines \o part \in Lines(n) /\ Len(lines \o part) = Len(lines) + Len(part)
                 /\ Len(lines) \in Nat
                 /\ \A k \in 1 .. Len(part): (lines \o part)[Len(lines) + k] = part[k]
      BY AppendedLines
    <3>2. records \in Lines(n)
      BY <1>1
    <3> QED BY <3>1, <3>2
  <2> QED BY <1>1, <2>1, <2>2
<1> HIDE DEF all
<1>4. all \in Seq(Line) /\ DOMAIN all = 1 .. Len(all) /\ Len(all) \in Nat
  BY <1>3, LinesAreLines
<1>5. all[Len(all)].ev = events[Len(events)] /\ events[Len(events)] # 0 /\ Len(all) \in 1 .. Len(all)
  <2>1. Len(events) \in 1 .. Len(events)
    BY <1>2
  <2>2. Len(all) \in 1 .. Len(all)
    BY <1>2, <1>3
  <2>3. events[Len(events)] \in 1 .. n - 1 /\ records[Len(events)].ev = events[Len(events)]
    BY <1>1, <2>1
  <2> QED BY <1>3, <2>2, <2>3
<1>6. LastAt(all, Len(all), Len(all) + 1)
  <2>1. Len(all) \in Records(all)
    BY <1>4, <1>5 DEF Records
  <2>2. \A k \in Records(all): k < Len(all) + 1 => k <= Len(all)
    BY <1>4 DEF Records
  <2> QED BY <1>4, <2>1, <2>2 DEF LastAt
<1>7. LastBefore(all, Len(all) + 1) = all[Len(all)].ev
  BY <1>4, <1>6, LastBeforeAt
<1> QED BY <1>5, <1>7 DEF LastRecord, Last, all, records

LEMMA MemTyped ==
  ASSUME LogTypes, NEW p \in Procs
  PROVE  /\ seen[p].ino \in 0 .. inos /\ seen[p].size \in Nat /\ seen[p] \in [ino: 0 .. inos, size: Nat]
         /\ seen[p].ino # inos + 1 /\ inos + 1 # 0 /\ tip[p] \in 0 .. next - 1
<1>1. seen[p] \in [ino: 0 .. inos, size: Nat] /\ inos \in Nat /\ tip[p] \in 0 .. next - 1
  BY FileTypes DEF LogTypes, MemTypes
<1> QED BY <1>1

\* Opening the file makes it a new one or leaves it as it is.
LEMMA ExplainsOpened ==
  ASSUME LogTypes, NEW p \in Procs, Explains(seen[p], tip[p], live)
  PROVE  Explains(seen[p], tip[p], Opened)
<1>1. live.ino = 0 => Opened.ino = inos + 1
  BY DEF Opened
<1>2. live.ino # 0 => Opened = live
  BY DEF Opened
<1> QED BY <1>1, <1>2, MemTyped, ExplainsOther

\* The tips after a step of a thread's work: that of its own process, and
\* those of the others, whose file is grown, opened, new or gone.
LEMMA WorkTips ==
  ASSUME LogInv, TipKnown, ~LongTails, NEW t \in Threads, OwnWork(t), NEW p \in Procs, up[p] = "up"
  PROVE  Explains(seen[p], tip[p], live)'
<1>0. /\ LogTypes /\ Placed /\ Ready /\ WriteOpen /\ next \in Nat \ {0} /\ inos \in Nat
      /\ live \in [ino: Nat, lines: Lines(next)] /\ live.ino <= inos
      /\ live.ino = 0 => live.lines = <<>>
  BY DEF LogInv, LogTypes, DiskTypes, Ready, ReadyAt, WriteOpen
<1>1. Explains(seen[p], tip[p], live)
  BY DEF TipKnown
<1>2. /\ seen \in [Procs -> [ino: 0 .. inos, size: Nat]] /\ tip \in [Procs -> 0 .. next - 1]
      /\ Me(t) \in Procs
  BY <1>0, ThreadsAssumption DEF LogTypes, MemTypes, Me
<1>3. Explains(Identity(live), LastRecord(live.lines), live)
  BY <1>0, ExplainsOwn
<1>mine. ASSUME NEW mem, NEW from, seen' = [seen EXCEPT ![Me(t)] = mem], tip' = [tip EXCEPT ![Me(t)] = from],
              ~(seen'[p] = seen[p] /\ tip'[p] = tip[p])
       PROVE  p = Me(t)
  BY <1>2, <1>mine
<1>4. CASE Anchor(t)
  <2> DEFINE moved == MovedOn(seen[Me(t)], Identity(live))
  <2>1. /\ live' = live /\ seen' = [seen EXCEPT ![Me(t)] = Identity(live)]
        /\ tip' = [tip EXCEPT ![Me(t)] = IF moved THEN LastRecord(live.lines) ELSE tip[Me(t)]]
    BY <1>4 DEF Anchor, diskVars
  <2>2. CASE p # Me(t)
    <3>1. seen'[p] = seen[p] /\ tip'[p] = tip[p]
      BY <2>1, <2>2
    <3> QED BY <1>1, <2>1, <3>1
  <2>3. CASE p = Me(t)
    <3>1. seen'[p] = Identity(live) /\ tip'[p] = IF moved THEN LastRecord(live.lines) ELSE tip[p]
      BY <1>2, <2>1, <2>3
    <3>2. CASE moved
      BY <1>3, <2>1, <3>1, <3>2
    <3>3. CASE ~moved /\ live.ino # 0
      <4>1. tip[p] = LastRecord(live.lines)
        BY <1>0, <1>1, <2>3, <3>3, ExplainsLast
      <4> QED BY <1>3, <2>1, <3>1, <3>3, <4>1
    <3>4. CASE ~moved /\ live.ino = 0
      <4>1. Identity(live) = [ino |-> 0, size |-> 0] /\ seen[p].size = 0
        BY <1>0, <2>3, <3>4, EmptySeq DEF MovedOn, Identity
      <4>2. tip[p] = 0
        BY <1>1, <4>1 DEF Explains
      <4> QED BY <2>1, <3>1, <3>4, <4>1, <4>2 DEF Explains
    <3> QED BY <3>2, <3>3, <3>4
  <2> QED BY <2>2, <2>3
<1>5. CASE Rotate(t)
  <2>1. live'.ino = 0
    BY <1>5 DEF Rotate, Absent
  <2>2. Explains(seen'[p], tip'[p], live)
    <3>1. CASE p # Me(t)
      <4>1. seen'[p] = seen[p] /\ tip'[p] = tip[p]
        BY <1>5, <3>1 DEF Rotate
      <4> QED BY <1>1, <4>1
    <3>2. CASE p = Me(t)
      <4>1. seen'[p] = Identity(Absent) /\ tip'[p] = 0
        BY <1>2, <1>5, <3>2 DEF Rotate
      <4>2. Identity(Absent).ino = 0 /\ Identity(Absent).size = 0
        BY <1>0, FileTypes
      <4> QED BY <4>1, <4>2 DEF Explains
    <3> QED BY <3>1, <3>2
  <2> QED BY <2>1, <2>2, ExplainsOther
<1>6. CASE RecordRotation(t)
  <2>1. live'.ino = inos + 1 /\ inos + 1 # 0
    BY <1>0, <1>6 DEF RecordRotation
  <2>2. live = Absent /\ tip[Me(t)] = 0 /\ seen[Me(t)] = Identity(Absent)
    BY <1>0, <1>6 DEF RecordRotation, Ready, ReadyAt
  <2>3. CASE seen'[p] = seen[p] /\ tip'[p] = tip[p]
    <3>1. seen[p].ino # inos + 1
      BY <1>0, MemTyped
    <3> QED BY <1>1, <2>1, <2>3, <3>1, ExplainsOther
  <2>4. CASE ~(seen'[p] = seen[p] /\ tip'[p] = tip[p])
    <3>0. live'.lines = Chained(<<next>>, tip[Me(t)])
          /\ tip' = [tip EXCEPT ![Me(t)] = next] /\ seen' = [seen EXCEPT ![Me(t)] = Identity(live')]
      BY <1>6, <2>4 DEF RecordRotation
    <3>1. p = Me(t)
      BY <1>mine, <2>4, <3>0
    <3>2. tip'[p] = next /\ seen'[p] = Identity(live')
      BY <1>2, <3>0, <3>1
    <3>3. LastRecord(live'.lines) = next
      <4> DEFINE m == next + 1
      <4>1. m \in Nat \ {0} /\ <<next>> \in Seq(1 .. m - 1) /\ 0 \in 0 .. m - 1
        BY <1>0
      <4> HIDE DEF m
      <4>2. <<>> \in Lines(m) /\ <<next>> # <<>> /\ Last(<<next>>) = next
        BY <4>1, EmptySeq DEF Lines, Last
      <4>3. LastRecord(<<>> \o Chained(<<next>>, 0)) = next
        BY <4>1, <4>2, LastOfChained
      <4>4. Chained(<<next>>, 0) \in Seq(Line)
        BY <4>1, ChainedProperties, LinesAreLines
      <4>5. <<>> \o Chained(<<next>>, 0) = Chained(<<next>>, 0)
        BY <4>4
      <4> QED BY <2>2, <3>0, <4>3, <4>5
    <3>4. live' \in [ino: Nat, lines: Lines(next')]
      BY <1>0, <1>6, RotationTypes DEF LogTypes, DiskTypes, Lines
    <3>5. Explains(Identity(live'), LastRecord(live'.lines), live')
      <4>1. next' \in Nat
        BY <1>0, <1>6 DEF RecordRotation
      <4> QED BY <2>1, <3>4, <4>1, ExplainsOwn
    <3> QED BY <3>2, <3>3, <3>5
  <2> QED BY <2>3, <2>4
<1>7. CASE RotateFails(t) \/ Retain(t)
  BY <1>1, <1>7 DEF RotateFails, Retain, diskVars, memVars
<1>8. CASE Chain(t)
  <2>1. live' = Opened
    BY <1>8 DEF Chain
  <2>2. CASE seen'[p] = seen[p] /\ tip'[p] = tip[p]
    BY <1>0, <1>1, <2>1, <2>2, ExplainsOpened
  <2>3. CASE ~(seen'[p] = seen[p] /\ tip'[p] = tip[p])
    <3>0. seen' = [seen EXCEPT ![Me(t)] = Identity(Opened)]
          /\ tip' = [tip EXCEPT ![Me(t)] = LastRecord(Opened.lines)]
      BY <1>8, <2>3 DEF Chain
    <3>1. p = Me(t)
      BY <1>mine, <2>3, <3>0
    <3>2. seen'[p] = Identity(Opened) /\ tip'[p] = LastRecord(Opened.lines)
      BY <1>2, <3>0, <3>1
    <3>3. Explains(Identity(Opened), LastRecord(Opened.lines), Opened)
      BY <1>0, FileTypes, ExplainsOwn
    <3> QED BY <2>1, <3>2, <3>3
  <2> QED BY <2>2, <2>3
<1>9. CASE Write(t)
  <2>1. PICK part \in Lines(next): live' = [live EXCEPT !.lines = @ \o part]
    BY <1>0, <1>9, WriteTypes
  <2>2. live'.ino = live.ino /\ live'.lines = live.lines \o part
    BY <1>0, <2>1
  <2>3. CASE seen'[p] = seen[p] /\ tip'[p] = tip[p]
    BY <1>0, <1>1, <2>2, <2>3, MemTyped, ExplainsGrown
  <2>4. CASE ~(seen'[p] = seen[p] /\ tip'[p] = tip[p])
    <3>0. live' = [live EXCEPT !.lines = @ \o Chained(job[t], tip[Me(t)])]
          /\ tip' = [tip EXCEPT ![Me(t)] = Last(job[t])] /\ seen' = [seen EXCEPT ![Me(t)] = Identity(live')]
      BY <1>9, <2>4 DEF Write
    <3>1. p = Me(t)
      BY <1>mine, <2>4, <3>0
    <3>2. tip'[p] = Last(job[t]) /\ seen'[p] = Identity(live')
      BY <1>2, <3>0, <3>1
    <3>3. LastRecord(live'.lines) = Last(job[t])
      <4>1. job[t] \in Seq(1 .. next - 1) /\ job[t] # <<>> /\ tip[Me(t)] \in 0 .. next - 1
        BY <1>0, <1>2, <1>9 DEF LogTypes, WorkTypes, Placed, PlacedAt, Write
      <4>2. live'.lines = live.lines \o Chained(job[t], tip[Me(t)])
        BY <1>0, <3>0
      <4> QED BY <1>0, <4>1, <4>2, LastOfChained
    <3>4. live' \in [ino: Nat, lines: Lines(next')] /\ next' = next
      BY <1>0, <1>9, WriteTypes DEF LogTypes, DiskTypes, Lines, Write
    <3>5. live'.ino # 0
      BY <1>0, <1>9, <2>2 DEF WriteOpen, Write
    <3>6. Explains(Identity(live'), LastRecord(live'.lines), live')
      BY <1>0, <3>4, <3>5, ExplainsOwn
    <3> QED BY <3>2, <3>3, <3>6
  <2> QED BY <2>3, <2>4
<1>10. CASE Sweep(t)
  BY <1>1, <1>10 DEF Sweep, memVars
<1>11. CASE Rewrite(t)
  <2>1. CASE live' = live /\ seen' = seen /\ tip' = tip
    BY <1>1, <2>1
  <2>2. CASE /\ live' = [ino |-> inos + 1, lines |-> copy[t].keep]
             /\ seen' = [seen EXCEPT ![Me(t)] = Identity(live')]
             /\ tip' = [tip EXCEPT ![Me(t)] = LastRecord(live'.lines)]
    <3>1. live' \in [ino: Nat, lines: Lines(next)] /\ live'.ino = inos + 1 /\ live'.ino # 0
      BY <1>0, <2>2 DEF LogTypes, WorkTypes
    <3>2. Explains(Identity(live'), LastRecord(live'.lines), live')
      BY <1>0, <3>1, ExplainsOwn
    <3>3. CASE p = Me(t)
      <4>1. seen'[p] = Identity(live') /\ tip'[p] = LastRecord(live'.lines)
        BY <1>2, <2>2, <3>3
      <4> QED BY <3>2, <4>1
    <3>4. CASE p # Me(t)
      <4>1. seen'[p] = seen[p] /\ tip'[p] = tip[p]
        BY <2>2, <3>4
      <4>2. live'.ino # seen[p].ino
        BY <1>0, <3>1, MemTyped
      <4> QED BY <1>1, <4>1, <4>2, ExplainsOther
    <3> QED BY <3>3, <3>4
  <2> QED BY <1>11, <2>1, <2>2 DEF Rewrite
<1> QED BY <1>4, <1>5, <1>6, <1>7, <1>8, <1>9, <1>10, <1>11 DEF OwnWork

LEMMA TipKnownKept ==
  ASSUME QuietStart, ~LongTails, LogInv, TipKnown, [Next]_vars
  PROVE  TipKnown'
<1> SUFFICES ASSUME NEW p \in Procs, up'[p] = "up" PROVE Explains(seen[p], tip[p], live)'
  BY DEF TipKnown
<1>0. /\ LockTypeOK /\ LogTypes /\ next \in Nat /\ live \in [ino: Nat, lines: Lines(next)]
      /\ live.ino = 0 => live.lines = <<>>
      /\ up \in [Procs -> {"down", "starting", "up"}]
      /\ seen \in [Procs -> [ino: 0 .. inos, size: Nat]] /\ tip \in [Procs -> 0 .. next - 1]
  BY DEF LogInv, LockInv, LogTypes, DiskTypes, MemTypes
<1>1. CASE UNCHANGED vars
  BY <1>1 DEF vars, diskVars, memVars, TipKnown
<1>2. ASSUME NEW q \in Procs, StartReadTip(q) PROVE Explains(seen[p], tip[p], live)'
  <2>1. p # q /\ up[p] = "up" /\ tip'[p] = tip[p] /\ seen' = seen /\ live' = live
    BY <1>0, <1>2 DEF StartReadTip, diskVars
  <2> QED BY <2>1 DEF TipKnown
<1>3. ASSUME NEW q \in Procs, StartLook(q) PROVE Explains(seen[p], tip[p], live)'
  <2>1. CASE p # q
    <3>1. up[p] = "up" /\ tip' = tip /\ seen'[p] = seen[p] /\ live' = live
      BY <1>0, <1>3, <2>1 DEF StartLook, diskVars
    <3> QED BY <3>1 DEF TipKnown
  <2>2. CASE p = q
    <3>1. tip'[p] = LastRecord(live.lines) /\ seen'[p] = Identity(live) /\ live' = live
      BY <1>0, <1>3, <2>2 DEF StartLook, diskVars
    <3> QED BY <1>0, <3>1, ExplainsOwn
  <2> QED BY <2>1, <2>2
<1>4. ASSUME NEW q \in Procs, Enqueue(q) PROVE Explains(seen[p], tip[p], live)'
  BY <1>4 DEF Enqueue, diskVars, TipKnown
<1>5. ASSUME NEW q \in Procs, Kill(q) PROVE Explains(seen[p], tip[p], live)'
  <2>1. p # q /\ up[p] = "up" /\ tip'[p] = tip[p] /\ seen'[p] = seen[p]
    BY <1>0, <1>5 DEF Kill
  <2>2. PICK part \in Lines(next): live' = [live EXCEPT !.lines = @ \o part]
    BY <1>0, <1>5, KilledPart
  <2>3. live'.ino = live.ino /\ live'.lines = live.lines \o part
    BY <1>0, <2>2
  <2> QED BY <1>0, <2>1, <2>3, MemTyped, ExplainsGrown DEF TipKnown
<1>6. ASSUME NEW t \in Threads, Coming(t) PROVE Explains(seen[p], tip[p], live)'
  <2>1. up' = up /\ UNCHANGED <<live, tip, seen>>
    BY <1>0, <1>6, OthersStay, ComingLeavesFiles DEF diskVars
  <2> QED BY <2>1 DEF TipKnown
<1>7. ASSUME NEW t \in Threads, OwnWork(t) PROVE Explains(seen[p], tip[p], live)'
  BY <1>0, <1>7, OthersStay, WorkTips
<1> QED BY <1>1, <1>2, <1>3, <1>4, <1>5, <1>6, <1>7 DEF Next, Work, Coming, OwnWork

LEMMA TipLastKept ==
  ASSUME LogInv, LockInv', TipKnown, TipLast, [Next]_vars
  PROVE  TipLast'
<1> SUFFICES ASSUME NEW t \in Threads, at'[t] = "write" PROVE tip'[Me(t)] = LastRecord(live'.lines)
  BY DEF TipLast
<1>0. LockInv /\ LogTypes /\ Placed /\ next \in Nat
  BY DEF LogInv, LogTypes
<1>1. CASE Undisturbed(t)
  BY <1>1 DEF Undisturbed, TipLast
<1>2. ~Enter(t)
  BY <1>0 DEF Enter, GoTo, LogTypes, WorkTypes
<1>3. CASE OwnWork(t)
  <2>1. at \in [Threads -> LogPlaces] /\ (Finish(t) => at'[t] = "out")
    BY <1>0 DEF Finish, GoTo, LogTypes, WorkTypes
  <2>2. Chain(t) /\ at' # at
    <3>1. ~(Anchor(t) \/ Rotate(t) \/ RotateFails(t) \/ RecordRotation(t) \/ Retain(t))
      BY <2>1 DEF Anchor, Rotate, RotateFails, RecordRotation, Retain, GoTo
    <3>2. ~(Write(t) \/ Sweep(t) \/ Rewrite(t))
      BY <2>1 DEF Write, Sweep, Rewrite, GoTo
    <3>3. Chain(t)
      BY <1>3, <3>1, <3>2 DEF OwnWork
    <3> QED BY <3>3 DEF Chain
  <2>3. live' = Opened /\ ~MovedOn(seen[Me(t)], Identity(Opened)) /\ tip' = tip
    BY <2>1, <2>2 DEF Chain
  <2>4. Me(t) \in Procs /\ up[Me(t)] = "up"
    BY <1>0, <1>3, OwnWorkInside, ThreadsAssumption DEF Me
  <2>5. Explains(seen[Me(t)], tip[Me(t)], Opened)
    BY <1>0, <2>4, ExplainsOpened DEF TipKnown
  <2>6. tip[Me(t)] = LastRecord(Opened.lines)
    BY <1>0, <2>3, <2>5, FileTypes, ExplainsLast
  <2> QED BY <2>3, <2>6
<1> QED BY <1>0, <1>1, <1>2, <1>3, StepKinds

LEMMA IntactMore ==
  ASSUME NEW lines, NEW gone, NEW more, gone \subseteq more, Intact(lines, gone)
  PROVE  Intact(lines, more)
  BY DEF Intact

\* A step that leaves the files as they were, or fewer, and a log that is intact.
LEMMA FilesIntact ==
  ASSUME IntactFiles, pruned \subseteq pruned',
         \A i \in DOMAIN segs': \E lines \in Files: segs'[i].lines = lines,
         Intact(live'.lines, pruned')
  PROVE  IntactFiles'
<1> SUFFICES ASSUME NEW lines \in Files' PROVE Intact(lines, pruned')
  BY DEF IntactFiles
<1>1. lines = live'.lines \/ lines \in Files
  BY DEF Files
<1> QED BY <1>1, IntactMore DEF IntactFiles

LEMMA RestOfFiles ==
  ASSUME LogTypes, NEW n \in Nat, segs' = SubSeq(segs, n + 1, Len(segs))
  PROVE  \A i \in DOMAIN segs': \E lines \in Files: segs'[i].lines = lines
<1> DEFINE rest == SubSeq(segs, n + 1, Len(segs))
<1>1. Len(segs) \in Nat /\ DOMAIN segs = 1 .. Len(segs)
  BY SubSegments
<1>2. DOMAIN rest = 1 .. (IF n < Len(segs) THEN Len(segs) - n ELSE 0)
      /\ \A i \in 1 .. Len(segs) - n: rest[i] = segs[n + i]
  <2>1. rest \in Seq([seq: Nat, lines: Lines(next)])
    BY SubSegments
  <2>2. DOMAIN rest = 1 .. Len(rest)
    BY <2>1, LenProperties
  <2> QED BY <2>2, SubSegments
<1> HIDE DEF rest
<1>3. ASSUME NEW i \in DOMAIN rest PROVE rest[i].lines \in Files
  <2>1. n + i \in DOMAIN segs /\ i \in 1 .. Len(segs) - n
    BY <1>1, <1>2
  <2> QED BY <1>2, <2>1 DEF Files
<1>4. segs' = rest
  BY DEF rest
<1> QED BY <1>3, <1>4

LEMMA WorkIntact ==
  ASSUME LogInv, TipLast, IntactFiles, NEW t \in Threads, OwnWork(t)
  PROVE  IntactFiles'
<1>0. /\ LogTypes /\ Placed /\ Ready /\ WriteOpen /\ next \in Nat \ {0}
      /\ live.lines \in Lines(next)
  BY FileTypes DEF LogInv, LogTypes, Ready, ReadyAt, WriteOpen
<1>1. Intact(live.lines, pruned) /\ \A i \in DOMAIN segs: \E lines \in Files: segs[i].lines = lines
  BY DEF IntactFiles, Files
<1>2. CASE Anchor(t) \/ RotateFails(t)
  BY <1>1, <1>2, FilesIntact DEF Anchor, RotateFails, diskVars
<1>3. CASE Rotate(t)
  <2>1. live'.lines = <<>> /\ pruned' = pruned
        /\ \E seq: segs' = Append(segs, [seq |-> seq, lines |-> live.lines])
    BY <1>3 DEF Rotate, ghostVars, Absent
  <2>2. PICK seq: segs' = Append(segs, [seq |-> seq, lines |-> live.lines])
    BY <2>1
  <2>3. /\ Len(segs) \in Nat /\ DOMAIN segs = 1 .. Len(segs) /\ DOMAIN segs' = 1 .. Len(segs) + 1
        /\ \A i \in 1 .. Len(segs): segs'[i] = segs[i]
        /\ segs'[Len(segs) + 1] = [seq |-> seq, lines |-> live.lines]
    BY <1>0, <2>2, LongerSegments
  <2>4. ASSUME NEW i \in DOMAIN segs' PROVE \E lines \in Files: segs'[i].lines = lines
    <3>1. i \in 1 .. Len(segs) \/ i = Len(segs) + 1
      BY <2>3
    <3>2. live.lines \in Files
      BY DEF Files
    <3>3. CASE i \in 1 .. Len(segs)
      BY <1>1, <2>3, <3>3
    <3>4. CASE i = Len(segs) + 1
      <4>1. segs'[i].lines = live.lines
        BY <2>3, <3>4
      <4> QED BY <3>2, <4>1
    <3> QED BY <3>1, <3>3, <3>4
  <2>5. Intact(live'.lines, pruned')
    BY <2>1 DEF Intact, Records
  <2> QED BY <2>1, <2>4, <2>5, FilesIntact
<1>4. CASE RecordRotation(t)
  <2>1. live = Absent /\ tip[Me(t)] = 0 /\ segs' = segs /\ pruned' = pruned
    BY <1>0, <1>4 DEF RecordRotation, Ready, ReadyAt
  <2> DEFINE m == next + 1
             records == Chained(<<next>>, 0)
  <2>2. m \in Nat \ {0} /\ <<next>> \in Seq(1 .. m - 1) /\ 0 \in 0 .. m - 1
    BY <1>0
  <2> HIDE DEF m
  <2>3. records \in Lines(m) /\ Len(records) = 1 /\ <<>> \in Lines(m) /\ <<Torn>> \in Lines(m)
    <3>1. Torn \in [ev: 0 .. m - 1, prev: Nat]
      BY <2>2 DEF Torn
    <3>2. <<Torn>> \in Lines(m)
      BY <3>1 DEF Lines
    <3>3. Len(<<next>>) = 1
      OBVIOUS
    <3>4. records \in Lines(m) /\ Len(records) = 1
      BY <2>2, <3>3, ChainedOne
    <3>5. <<>> \in Lines(m)
      BY EmptySeq DEF Lines
    <3> QED BY <3>2, <3>4, <3>5
  <2>4. LastRecord(<<>>) = 0
    <3>1. Records(<<>>) = {}
      BY DEF Records
    <3> QED BY <3>1, LastBeforeNone DEF LastRecord
  <2>5. live'.lines = records \/ live'.lines = <<>> \/ live'.lines = <<Torn>>
    BY <1>4, <2>1 DEF RecordRotation
  <2> HIDE DEF records
  <2>6. live'.lines \in Lines(m) /\ BeginOf(live'.lines, records)
    <3>1. BeginOf(<<Torn>>, records)
      <4>1. 0 \in 0 .. Len(records) /\ Len(<<Torn>>) = 1 /\ <<Torn>>[1] = Torn
        BY <2>3
      <4>2. \A i \in 1 .. 0: <<Torn>>[i] = records[i]
        OBVIOUS
      <4> QED BY <4>1, <4>2 DEF BeginOf
    <3> QED BY <2>2, <2>3, <2>5, <3>1, WholeBegins
  <2>7. Intact(<<>>, pruned)
    BY DEF Intact, Records
  <2>8. Intact(<<>> \o live'.lines, pruned)
    <3> DEFINE part == live'.lines
    <3>1. part \in Lines(m) /\ BeginOf(part, Chained(<<next>>, LastRecord(<<>>)))
      BY <2>4, <2>6 DEF records
    <3> HIDE DEF part
    <3>2. Intact(<<>> \o part, pruned)
      BY <2>2, <2>3, <2>7, <3>1, AppendKeepsIntact
    <3> QED BY <3>2 DEF part
  <2>9. <<>> \o live'.lines = live'.lines
    BY <2>2, <2>6, LinesAreLines
  <2> QED BY <1>1, <2>1, <2>8, <2>9, FilesIntact
<1>5. CASE Retain(t)
  <2>1. live' = live /\ pruned' = pruned /\ \E n \in Nat: segs' = SubSeq(segs, n + 1, Len(segs))
    <3>1. Len(segs) \in Nat
      BY <1>0, LenProperties DEF LogTypes, DiskTypes
    <3> QED BY <1>5, <3>1, AuditAssumption DEF Retain
  <2> QED BY <1>0, <1>1, <2>1, RestOfFiles, FilesIntact
<1>6. CASE Chain(t)
  <2>1. live'.lines = live.lines /\ segs' = segs /\ pruned' = pruned
    BY <1>0, <1>6, OpenedLines DEF Chain, ghostVars
  <2> QED BY <1>1, <2>1, FilesIntact
<1>7. CASE Write(t)
  <2>1. /\ segs' = segs /\ pruned' = pruned
        /\ job[t] \in Seq(1 .. next - 1) /\ tip[Me(t)] \in 0 .. next - 1
    BY <1>0, <1>7, ThreadsAssumption DEF Write, LogTypes, WorkTypes, MemTypes, Me
  <2>2. PICK part \in Lines(next): /\ part = Chained(job[t], tip[Me(t)]) \/ part \in Interrupted(t)
                                   /\ live' = [live EXCEPT !.lines = @ \o part]
    BY <1>0, <1>7, WriteTypes
  <2>3. live'.lines = live.lines \o part
    BY <1>0, <2>2 DEF LogTypes, DiskTypes
  <2>4. tip[Me(t)] = LastRecord(live.lines)
    BY <1>7 DEF TipLast, Write
  <2>5. BeginOf(part, Chained(job[t], tip[Me(t)]))
    BY <1>0, <2>1, <2>2, ChainedProperties, WholeBegins, InterruptedProperties
  <2>6. Intact(live.lines \o part, pruned)
    BY <1>0, <1>1, <2>1, <2>4, <2>5, AppendKeepsIntact
  <2> QED BY <1>1, <2>1, <2>3, <2>6, FilesIntact
<1>8. CASE Sweep(t)
  <2>1. live' = live /\ pruned' = pruned /\ \E n \in Nat: segs' = SubSeq(segs, n + 1, Len(segs))
    BY <1>8 DEF Sweep
  <2> QED BY <1>0, <1>1, <2>1, RestOfFiles, FilesIntact
<1>9. CASE Rewrite(t)
  <2>1. PICK cutoff \in Nat \ {0}: CopyOf(t, cutoff)
    BY <1>0, <1>9 DEF Rewrite, Ready, ReadyAt
  <2>2. Intact(copy[t].keep, pruned \cup copy[t].drop)
    BY <1>0, <1>1, <2>1, CopyKeeps
  <2>3. \/ live'.lines = copy[t].keep /\ pruned' = pruned \cup copy[t].drop
        \/ live' = live /\ pruned' = pruned
    BY <1>9 DEF Rewrite
  <2>4. segs' = segs /\ pruned \subseteq pruned' /\ Intact(live'.lines, pruned')
    BY <1>1, <1>9, <2>2, <2>3 DEF Rewrite
  <2> QED BY <1>1, <2>4, FilesIntact
<1> QED BY <1>2, <1>3, <1>4, <1>5, <1>6, <1>7, <1>8, <1>9 DEF OwnWork

LEMMA IntactKept ==
  ASSUME LogInv, TipLast, IntactFiles, [Next]_vars
  PROVE  IntactFiles'
<1>0. LogTypes /\ next \in Nat \ {0} /\ live.lines \in Lines(next)
  BY FileTypes DEF LogInv, LogTypes
<1>1. Intact(live.lines, pruned) /\ \A i \in DOMAIN segs: \E lines \in Files: segs[i].lines = lines
  BY DEF IntactFiles, Files
<1>2. CASE UNCHANGED <<live, segs, pruned>>
  BY <1>1, <1>2, FilesIntact
<1>3. ASSUME NEW p \in Procs, StartReadTip(p) \/ StartLook(p) \/ Enqueue(p)
      PROVE  UNCHANGED <<live, segs, pruned>>
  BY <1>3 DEF StartReadTip, StartLook, Enqueue, diskVars, ghostVars
<1>4. ASSUME NEW p \in Procs, Kill(p) PROVE IntactFiles'
  <2>1. segs' = segs /\ pruned' = pruned
    BY <1>4 DEF Kill
  <2>2. PICK part \in Lines(next):
          /\ \/ part = <<>>
             \/ \E s \in Threads: Me(s) = p /\ at[s] = "write" /\ part \in Interrupted(s)
          /\ live' = [live EXCEPT !.lines = @ \o part]
    BY <1>0, <1>4, KilledPart
  <2>3. live'.lines = live.lines \o part
    BY <1>0, <2>2 DEF LogTypes, DiskTypes
  <2>4. CASE part = <<>>
    <3>1. live.lines \o <<>> = live.lines
      BY <1>0, LinesAreLines
    <3> QED BY <1>1, <2>1, <2>3, <2>4, <3>1, FilesIntact
  <2>5. ASSUME NEW s \in Threads, at[s] = "write", part \in Interrupted(s)
        PROVE  Intact(live.lines \o part, pruned)
    <3>1. job[s] \in Seq(1 .. next - 1) /\ tip[Me(s)] \in 0 .. next - 1
      BY <1>0, ThreadsAssumption DEF LogTypes, WorkTypes, MemTypes, Me
    <3>2. BeginOf(part, Chained(job[s], tip[Me(s)])) /\ tip[Me(s)] = LastRecord(live.lines)
      BY <1>0, <2>5, <3>1, InterruptedProperties DEF TipLast
    <3> QED BY <1>0, <1>1, <3>1, <3>2, AppendKeepsIntact
  <2> QED BY <1>1, <2>1, <2>2, <2>3, <2>4, <2>5, FilesIntact
<1>5. ASSUME NEW t \in Threads, Coming(t) PROVE UNCHANGED <<live, segs, pruned>>
  BY <1>5, ComingLeavesFiles DEF diskVars
<1>6. CASE UNCHANGED vars
  BY <1>2, <1>6 DEF vars, diskVars, ghostVars
<1> QED BY <1>2, <1>3, <1>4, <1>5, <1>6, WorkIntact DEF Next, Work, Coming, OwnWork

\* Where nobody appends between the two reads a new log object makes, and no
\* torn line is longer than the one tail read of the loop, the chain does not
\* fork: each record of each file names the record before it, except where
\* prune() has taken that one (_chain_lock, _append_lines_locked).
THEOREM ChainStaysIntact ==
  ASSUME QuietStart, ~LongTails
  PROVE  Spec => []ChainIntact
<1> DEFINE CInv == LogInv /\ TipKnown /\ TipLast /\ IntactFiles
<1>1. Init => CInv
  <2> SUFFICES ASSUME Init PROVE CInv
    OBVIOUS
  <2>1. LogInv
    BY LogInvInitially
  <2>2. live = Absent /\ segs = <<>> /\ (\A t \in Threads: at[t] = "out")
        /\ \A p \in Procs: tip[p] = 0 /\ seen[p] = Identity(Absent)
    BY DEF Init
  <2>3. Identity(Absent) = [ino |-> 0, size |-> 0]
    BY <2>1, FileTypes DEF LogInv
  <2>4. TipKnown /\ TipLast
    BY <2>2, <2>3 DEF TipKnown, TipLast, Explains, Absent
  <2>5. Files = {<<>>}
    BY <2>2 DEF Files, Absent
  <2>6. IntactFiles
    BY <2>5 DEF IntactFiles, Intact, Records
  <2> QED BY <2>1, <2>4, <2>6
<1>2. CInv /\ [Next]_vars => CInv'
  <2> SUFFICES ASSUME CInv, [Next]_vars PROVE CInv'
    OBVIOUS
  <2>1. LogInv'
    BY LogInvKept
  <2> QED BY <2>1, TipKnownKept, TipLastKept, IntactKept DEF LogInv
<1>3. CInv => ChainIntact
  BY DEF IntactFiles, Intact, ChainIntact
<1> QED BY <1>1, <1>2, <1>3, PTL DEF Spec
=============================================================================
