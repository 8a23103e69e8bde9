------------------------------ MODULE AuditLog ------------------------------
(* The security event log of the product (sel.py): every process of a data  *)
(* home appends to one file, each record signed over the record before it.  *)
(* A record is chained from the tip the process remembers, after a look at  *)
(* whether the file is still the one the tip was read from. The writer      *)
(* thread closes a full file into a numbered segment, retention drops the   *)
(* oldest segments, prune() drops what is too old, and an audit that must   *)
(* not be lost is written by its caller, who is told when it was not.       *)
EXTENDS ChainLock, Naturals, Sequences, SequencesExt, Picking

CONSTANTS
  Writers,       \* the background writer threads, one of a process
  SegmentCap,    \* lines at which the live log is closed (_SEGMENT_MAX_BYTES)
  SegmentKeep,   \* closed segments kept (_SEGMENT_KEEP)
  AppendRetries, \* _APPEND_RETRIES
  DrainBatch,    \* _QUEUE_DRAIN_BATCH
  Running,       \* the processes whose log object is in use from the start
  QuietStart,    \* nobody appends between the two reads a new log object makes
  LongTails,     \* a torn line may be longer than the loop's one tail read
  MaxEvents, MaxFaults, MaxPrunes   \* bounds of the exploration

ASSUME AuditAssumption ==
  /\ Writers \subseteq Threads /\ Running \subseteq Procs
  /\ Writers \cap (LoopThreads \cup PruneThreads) = {}
  /\ SegmentCap \in Nat \ {0} /\ SegmentKeep \in Nat /\ AppendRetries \in Nat
  /\ DrainBatch \in Nat \ {0}
  /\ MaxEvents \in Nat /\ MaxFaults \in Nat /\ MaxPrunes \in Nat
  /\ QuietStart \in BOOLEAN /\ LongTails \in BOOLEAN

VARIABLES
  live,    \* security_events.jsonl: its inode, 0 while it is absent, and its lines
  segs,    \* security_events.d: the closed segments, oldest first
  inos,    \* inodes given out
  next,    \* the next event, in order of their timestamps
  up,      \* up[p]: the log object of p is absent, half constructed or in use
  tip,     \* tip[p]: _last_hash, the event whose record is chained from; 0 is genesis
  seen,    \* seen[p]: _live_seen, the inode and size p's tip belongs to
  queue,   \* queue[p]: events enqueued for p's writer
  at,      \* at[t]: where thread t stands in its part under the lock
  job,     \* job[t]: the events t is appending
  tries,   \* tries[t]: how often t has chained them anew
  copy,    \* copy[t]: the lines a prune found worth keeping, and the others' events
  acked,   \* events whose critical log() returned without an error
  expired, \* events dropped by retention or by age
  pruned,  \* those of them that prune() took out of the live log
  left     \* what the bounds still allow

diskVars == <<live, segs, inos>>
memVars == <<up, tip, seen, queue>>
workVars == <<at, job, tries, copy>>
ghostVars == <<next, acked, expired, pruned, left>>
vars == <<lockVars, diskVars, memVars, workVars, ghostVars>>

\* A line is a record, or event 0: a fragment that does not parse.
Line == [ev: Nat, prev: Nat]
Torn == [ev |-> 0, prev |-> 0]
Absent == [ino |-> 0, lines |-> <<>>]
Identity(file) == [ino |-> file.ino, size |-> Len(file.lines)]

Records(lines) == {i \in DOMAIN lines: lines[i].ev # 0}
Events(lines) == {lines[i].ev: i \in Records(lines)}

\* The event of the last record before line i, and genesis when there is none.
LastBefore(lines, i) ==
  LET before == {j \in Records(lines): j < i}
  IN IF before = {} THEN 0 ELSE lines[CHOOSE j \in before: \A k \in before: k <= j].ev
\* As if the tip were one no record has.
LastRecordAhead(lines) == Len(lines) + LastBefore(lines, Len(lines) + 1)

LastRecord(lines) == LastBefore(lines, Len(lines) + 1)

\* As if only a file that shrank had moved on.
MovedOnShrunk(previous, current) ==
  \/ previous.ino # 0 /\ current.ino # 0 /\ previous.ino # current.ino
  \/ previous.size > current.size

\* Whether the file is no longer the one, or no longer ends where, it was seen.
MovedOn(previous, current) ==
  \/ previous.ino # 0 /\ current.ino # 0 /\ previous.ino # current.ino
  \/ previous.size # current.size

Chained(events, from) ==
  [i \in DOMAIN events |-> [ev |-> events[i], prev |-> IF i = 1 THEN from ELSE events[i - 1]]]

Init ==
  /\ LockInit
  /\ live = Absent /\ segs = <<>> /\ inos = 0
  /\ up = [p \in Procs |-> IF p \in Running THEN "up" ELSE "down"]
  /\ tip = [p \in Procs |-> 0]
  /\ seen = [p \in Procs |-> Identity(Absent)]
  /\ queue = [p \in Procs |-> <<>>]
  /\ at = [t \in Threads |-> "out"]
  /\ job = [t \in Threads |-> <<>>]
  /\ tries = [t \in Threads |-> 0]
  /\ copy = [t \in Threads |-> [keep |-> <<>>, drop |-> {}]]
  /\ next = 1 /\ acked = {} /\ expired = {} /\ pruned = {}
  /\ left = [faults |-> MaxFaults, prunes |-> MaxPrunes]

Me(t) == ProcOf[t]
GoTo(t, where) == at' = [at EXCEPT ![t] = where]
Fault == left.faults > 0 /\ left' = [left EXCEPT !.faults = @ - 1]
NewEvent == next <= MaxEvents /\ next' = next + 1

-----------------------------------------------------------------------------
(* A process and its log object.                                           *)

\* The tip is read first and the file it was read from is looked at second.
StartReadTip(p) ==
  /\ up[p] = "down"
  /\ tip' = [tip EXCEPT ![p] = LastRecord(live.lines)]
  /\ up' = [up EXCEPT ![p] = "starting"]
  /\ UNCHANGED <<lockVars, diskVars, seen, queue, workVars, ghostVars>>

StartLook(p) ==
  /\ up[p] = "starting"
  /\ QuietStart => tip[p] = LastRecord(live.lines)
  /\ up' = [up EXCEPT ![p] = "up"]
  /\ seen' = [seen EXCEPT ![p] = Identity(live)]
  /\ UNCHANGED <<lockVars, diskVars, tip, queue, workVars, ghostVars>>

\* log(): the event waits for the writer.
Enqueue(p) ==
  /\ up[p] = "up"
  /\ NewEvent
  /\ queue' = [queue EXCEPT ![p] = Append(@, next)]
  /\ UNCHANGED <<lockVars, diskVars, up, tip, seen, workVars, acked, expired, pruned, left>>

\* The writer takes what the queue holds, up to a batch.
TakeBatch(t) ==
  /\ t \in Writers
  /\ Ask(t)
  /\ up[Me(t)] = "up"
  /\ queue[Me(t)] # <<>>
  /\ LET waiting == queue[Me(t)]
         n == IF Len(waiting) < DrainBatch THEN Len(waiting) ELSE DrainBatch
     IN /\ job' = [job EXCEPT ![t] = SubSeq(waiting, 1, n)]
        /\ queue' = [queue EXCEPT ![Me(t)] = SubSeq(waiting, n + 1, Len(waiting))]
  /\ UNCHANGED <<diskVars, up, tip, seen, at, tries, copy, ghostVars>>

\* log(critical=True), written by its caller. Off the loop it waits for the
\* queue first, and goes on when the wait times out: the wait orders nothing.
LogCritical(t) ==
  /\ t \notin Writers \cup PruneThreads
  /\ up[Me(t)] = "up"
  /\ NewEvent
  /\ \/ Ask(t) /\ job' = [job EXCEPT ![t] = <<next>>]
     \/ RefuseAtOnce(t) /\ UNCHANGED job
  /\ UNCHANGED <<diskVars, memVars, at, tries, copy, acked, expired, pruned, left>>

BeginPrune(t) ==
  /\ t \in PruneThreads
  /\ Ask(t)
  /\ up[Me(t)] = "up"
  /\ left.prunes > 0
  /\ left' = [left EXCEPT !.prunes = @ - 1]
  /\ UNCHANGED <<diskVars, memVars, workVars, next, acked, expired, pruned>>

\* The steps of the lock that a thread's work does not show in.
Approach(t) ==
  /\ TakeLock(t) \/ Miss(t) \/ JoinLate(t) \/ Publish(t) \/ Leave(t)
  /\ UNCHANGED <<diskVars, memVars, workVars, ghostVars>>

\* A refused audit is not written: its caller gets the error.
TurnedAway(t) ==
  /\ Refuse(t) \/ GiveUpGate(t)
  /\ job' = [job EXCEPT ![t] = <<>>]
  /\ UNCHANGED <<diskVars, memVars, at, tries, copy, ghostVars>>

\* Under the lock: the writer may rotate first, a prune sweeps, others append.
Enter(t) ==
  /\ PassGate(t)
  /\ GoTo(t, IF t \in Writers THEN "anchor" ELSE IF t \in PruneThreads THEN "sweep" ELSE "chain")
  /\ UNCHANGED <<diskVars, memVars, job, tries, copy, ghostVars>>

\* The end of the work under the lock.
Finish(t) ==
  /\ LeaveGate(t)
  /\ GoTo(t, "out")
  /\ job' = [job EXCEPT ![t] = <<>>]
  /\ tries' = [tries EXCEPT ![t] = 0]

-----------------------------------------------------------------------------
(* The writer's rotation window.                                           *)

\* _reanchor_if_replaced: the tip is read again when the file has moved on.
\* A full log is rotated. Where its directory or its lock cannot be had, before
\* the hold is relabelled, the batch is appended regardless.
Anchor(t) ==
  /\ at[t] = "anchor"
  /\ LET p == Me(t)
         moved == MovedOn(seen[p], Identity(live))
     IN /\ seen' = [seen EXCEPT ![p] = Identity(live)]
        /\ tip' = [tip EXCEPT ![p] = IF moved THEN LastRecord(live.lines) ELSE @]
  /\ \/ /\ Len(live.lines) >= SegmentCap
        /\ BeginRotation(t)
        /\ GoTo(t, "rotate")
        /\ UNCHANGED left
     \/ /\ Len(live.lines) < SegmentCap \/ Fault
        /\ Len(live.lines) < SegmentCap => UNCHANGED left
        /\ GoTo(t, "chain")
        /\ UNCHANGED lockVars
  /\ UNCHANGED <<diskVars, up, queue, job, tries, copy, next, acked, expired, pruned>>

\* The log becomes the newest segment, and the tip is that of no file.
Rotate(t) ==
  /\ at[t] = "rotate"
  /\ segs' = Append(segs, [seq |-> IF segs = <<>> THEN 1 ELSE Last(segs).seq + 1,
                           lines |-> live.lines])
  /\ live' = Absent
  /\ seen' = [seen EXCEPT ![Me(t)] = Identity(Absent)]
  /\ tip' = [tip EXCEPT ![Me(t)] = 0]
  /\ GoTo(t, "record")
  /\ UNCHANGED <<lockVars, inos, up, queue, job, tries, copy, ghostVars>>

\* No name is free or the rename fails, with the hold relabelled: the batch is
\* appended to the full log.
RotateFails(t) ==
  /\ at[t] = "rotate"
  /\ Fault
  /\ EndRotation(t)
  /\ GoTo(t, "chain")
  /\ UNCHANGED <<diskVars, memVars, job, tries, copy, next, acked, expired, pruned>>

\* The sel_rotation record opens the new log, unless its write fails: nothing of
\* it, a part or the whole is in the file then, and the tip is what it was.
RecordRotation(t) ==
  /\ at[t] = "record"
  /\ \/ /\ live' = [ino |-> inos + 1, lines |-> Chained(<<next>>, tip[Me(t)])]
        /\ tip' = [tip EXCEPT ![Me(t)] = next]
        /\ seen' = [seen EXCEPT ![Me(t)] = Identity(live')]
        /\ UNCHANGED left
     \/ /\ Fault
        /\ \E part \in {<<>>, <<Torn>>, Chained(<<next>>, tip[Me(t)])}:
             live' = [ino |-> inos + 1, lines |-> part]
        /\ UNCHANGED <<tip, seen>>
  /\ inos' = inos + 1
  /\ next' = next + 1
  /\ GoTo(t, "retain")
  /\ UNCHANGED <<lockVars, segs, up, queue, job, tries, copy, acked, expired, pruned>>

\* The oldest segments go, until one of them cannot be removed.
Retain(t) ==
  /\ at[t] = "retain"
  /\ LET excess == IF Len(segs) > SegmentKeep THEN Len(segs) - SegmentKeep ELSE 0 IN
       \E n \in 0..excess:
         /\ IF n = excess THEN UNCHANGED left ELSE Fault
         /\ segs' = SubSeq(segs, n + 1, Len(segs))
         /\ expired' = expired \cup UNION {Events(segs[i].lines): i \in 1..n}
  /\ EndRotation(t)
  /\ GoTo(t, "chain")
  /\ UNCHANGED <<live, inos, memVars, job, tries, copy, next, acked, pruned>>

-----------------------------------------------------------------------------
(* The append.                                                             *)

\* The file as the append opens it: created when it is absent.
Opened == IF live.ino = 0 THEN [ino |-> inos + 1, lines |-> <<>>] ELSE live

\* As if the identity were not refreshed with the tip.
ChainKeepsSeen(t) ==
  /\ at[t] = "chain"
  /\ live' = Opened
  /\ inos' = IF live.ino = 0 THEN Opened.ino ELSE inos
  /\ IF ~MovedOn(seen[Me(t)], Identity(Opened))
       THEN GoTo(t, "write") /\ UNCHANGED <<lockVars, tip, job, tries>>
       ELSE /\ tip' = [tip EXCEPT ![Me(t)] = LastRecord(Opened.lines)]
            /\ IF tries[t] < AppendRetries
                 THEN /\ tries' = [tries EXCEPT ![t] = @ + 1]
                      /\ UNCHANGED <<lockVars, at, job>>
                 ELSE Finish(t)
  /\ UNCHANGED <<segs, up, queue, copy, seen, ghostVars>>

\* The batch is chained from the tip and the file opened. A file that is not
\* the one the tip was read from is not written: the tip is read again, and
\* the loop reads one chunk of the file's end only.
Chain(t) ==
  /\ at[t] = "chain"
  /\ live' = Opened
  /\ inos' = IF live.ino = 0 THEN Opened.ino ELSE inos
  /\ IF ~MovedOn(seen[Me(t)], Identity(Opened))
       THEN GoTo(t, "write") /\ UNCHANGED <<lockVars, tip, seen, job, tries>>
       ELSE /\ seen' = [seen EXCEPT ![Me(t)] = Identity(Opened)]
            /\ \/ /\ tip' = [tip EXCEPT ![Me(t)] = LastRecord(Opened.lines)]
                  /\ IF tries[t] < AppendRetries
                       THEN /\ tries' = [tries EXCEPT ![t] = @ + 1]
                            /\ UNCHANGED <<lockVars, at, job>>
                       ELSE Finish(t)
               \/ /\ LongTails /\ t \in LoopThreads
                  /\ Opened.lines # <<>> /\ Last(Opened.lines) = Torn
                  /\ Finish(t)
                  /\ UNCHANGED tip
  /\ UNCHANGED <<segs, up, queue, copy, ghostVars>>

\* What an interrupted append leaves: whole records, then part of the next.
Interrupted(t) ==
  {SubSeq(Chained(job[t], tip[Me(t)]), 1, n): n \in 0..Len(job[t])} \cup
  {Append(SubSeq(Chained(job[t], tip[Me(t)]), 1, n), Torn): n \in 0..(Len(job[t]) - 1)}

\* As if the caller were told nothing of a failed write.
WriteUnreported(t) ==
  /\ at[t] = "write"
  /\ LET p == Me(t) IN
       /\ \/ /\ live' = [live EXCEPT !.lines = @ \o Chained(job[t], tip[p])]
             /\ tip' = [tip EXCEPT ![p] = Last(job[t])]
             /\ seen' = [seen EXCEPT ![p] = Identity(live')]
             /\ UNCHANGED left
          \/ /\ Fault
             /\ \E part \in Interrupted(t): live' = [live EXCEPT !.lines = @ \o part]
             /\ UNCHANGED <<tip, seen>>
       /\ acked' = IF t \in Writers THEN acked ELSE acked \cup Range(job[t])
  /\ Finish(t)
  /\ UNCHANGED <<segs, inos, up, queue, copy, next, expired, pruned>>

Write(t) ==
  /\ at[t] = "write"
  /\ LET p == Me(t)
         records == Chained(job[t], tip[p])
     IN \/ /\ live' = [live EXCEPT !.lines = @ \o records]
           /\ tip' = [tip EXCEPT ![p] = Last(job[t])]
           /\ seen' = [seen EXCEPT ![p] = Identity(live')]
           /\ acked' = IF t \in Writers THEN acked ELSE acked \cup Range(job[t])
           /\ UNCHANGED left
        \/ /\ Fault
           /\ \E part \in Interrupted(t): live' = [live EXCEPT !.lines = @ \o part]
           /\ UNCHANGED <<tip, seen, acked>>
  /\ Finish(t)
  /\ UNCHANGED <<segs, inos, up, queue, copy, next, expired, pruned>>

-----------------------------------------------------------------------------
(* prune().                                                                *)

\* How many of the oldest segments are past the age: the first whose newest
\* record is not, or that has none, ends the sweep.
Aged(cutoff) ==
  LET young == {i \in DOMAIN segs: LastRecord(segs[i].lines) = 0 \/ LastRecord(segs[i].lines) >= cutoff}
  IN IF young = {} THEN Len(segs) ELSE (CHOOSE i \in young: \A j \in young: i <= j) - 1

Young(cutoff) == {line \in Range(live.lines): line.ev >= cutoff}

\* Segments go whole. Of the live log the young records are copied.
Sweep(t) ==
  /\ at[t] = "sweep"
  /\ \E cutoff \in 1..next:
       LET kept == Picked(live.lines, Young(cutoff))
       IN /\ \E n \in 0..Aged(cutoff):
               /\ IF n = Aged(cutoff) THEN UNCHANGED left ELSE Fault
               /\ segs' = SubSeq(segs, n + 1, Len(segs))
               /\ expired' = expired \cup UNION {Events(segs[i].lines): i \in 1..n}
          /\ IF kept = live.lines
               THEN Finish(t) /\ UNCHANGED copy
               ELSE /\ copy' = [copy EXCEPT ![t] =
                         [keep |-> kept, drop |-> {e \in Events(live.lines): e < cutoff}]]
                    /\ GoTo(t, "rewrite")
                    /\ UNCHANGED <<lockVars, job, tries>>
  /\ UNCHANGED <<live, inos, memVars, next, acked, pruned>>

\* The copy replaces the log, and the tip is read from it.
Rewrite(t) ==
  /\ at[t] = "rewrite"
  /\ \/ /\ live' = [ino |-> inos + 1, lines |-> copy[t].keep]
        /\ inos' = inos + 1
        /\ seen' = [seen EXCEPT ![Me(t)] = Identity(live')]
        /\ tip' = [tip EXCEPT ![Me(t)] = LastRecord(live'.lines)]
        /\ expired' = expired \cup copy[t].drop
        /\ pruned' = pruned \cup copy[t].drop
        /\ UNCHANGED left
     \/ Fault /\ UNCHANGED <<live, inos, seen, tip, expired, pruned>>
  /\ copy' = [copy EXCEPT ![t] = [keep |-> <<>>, drop |-> {}]]
  /\ Finish(t)
  /\ UNCHANGED <<segs, up, queue, next, acked>>

-----------------------------------------------------------------------------
(* The end of a process, and of everything it had in memory.               *)

Kill(p) ==
  /\ up[p] # "down"
  /\ Fault
  /\ ProcessEnds(p)
  /\ \E part \in {<<>>} \cup UNION {Interrupted(t): t \in {s \in Threads: Me(s) = p /\ at[s] = "write"}}:
       live' = [live EXCEPT !.lines = @ \o part]
  /\ up' = [up EXCEPT ![p] = "down"]
  /\ tip' = [tip EXCEPT ![p] = 0]
  /\ seen' = [seen EXCEPT ![p] = Identity(Absent)]
  /\ queue' = [queue EXCEPT ![p] = <<>>]
  /\ at' = [t \in Threads |-> IF Me(t) = p THEN "out" ELSE at[t]]
  /\ job' = [t \in Threads |-> IF Me(t) = p THEN <<>> ELSE job[t]]
  /\ tries' = [t \in Threads |-> IF Me(t) = p THEN 0 ELSE tries[t]]
  /\ copy' = [t \in Threads |-> IF Me(t) = p THEN [keep |-> <<>>, drop |-> {}] ELSE copy[t]]
  /\ UNCHANGED <<segs, inos, next, acked, expired, pruned>>

Work(t) ==
  \/ Approach(t) \/ TurnedAway(t) \/ Enter(t)
  \/ Anchor(t) \/ Rotate(t) \/ RotateFails(t) \/ RecordRotation(t) \/ Retain(t)
  \/ Chain(t) \/ Write(t) \/ Sweep(t) \/ Rewrite(t)

Next ==
  \/ \E p \in Procs: StartReadTip(p) \/ StartLook(p) \/ Enqueue(p) \/ Kill(p)
  \/ \E t \in Threads: TakeBatch(t) \/ LogCritical(t) \/ BeginPrune(t) \/ Work(t)

Spec == Init /\ [][Next]_vars

\* A thread that has begun goes on: nothing but the lock and the gate holds it.
FairSpec == Spec /\ \A t \in Threads: WF_vars(Work(t) \/ TakeBatch(t))

-----------------------------------------------------------------------------
(* Properties.                                                             *)

Files == {segs[i].lines: i \in DOMAIN segs} \cup {live.lines}
Stored == UNION {Events(lines): lines \in Files}

TypeOK ==
  /\ LockTypeOK
  /\ live.ino \in Nat /\ live.lines \in Seq(Line)
  /\ \A i \in DOMAIN segs: segs[i].seq \in Nat /\ segs[i].lines \in Seq(Line)
  /\ up \in [Procs -> {"down", "starting", "up"}]
  /\ next \in Nat \ {0}
  /\ tip \in [Procs -> 0..(next - 1)]
  /\ queue \in [Procs -> Seq(1..(next - 1))]
  /\ at \in [Threads -> {"out", "anchor", "rotate", "record", "retain", "chain", "write", "sweep", "rewrite"}]
  /\ tries \in [Threads -> 0..AppendRetries]

\* How verify_integrity judges line i: it must name the last record before it.
Follows(lines, i) == lines[i].prev = LastBefore(lines, i)

\* No fork: each record was signed over the record before it in its own file,
\* except where prune() has since taken that one out (_chain_lock, the guard
\* of _append_lines_locked and the re-chaining of _append_chained_locked).
ChainIntact ==
  \A lines \in Files: \A i \in Records(lines): Follows(lines, i) \/ lines[i].prev \in pruned

\* Audit or deny: a critical audit that reported success is in a file until
\* retention or age takes it (log, critical=True).
AuditOrDeny == acked \subseteq Stored \cup expired

\* No step drops or overwrites a stored record but those that drop the old.
StoredStays == [][Stored \subseteq Stored' \cup expired']_vars

\* Under the lock one more chaining is always enough: SelChainContention
\* needs a writer that does not take the lock.
OneRechain == \A t \in Threads: tries[t] <= 1

Heavy == {"rotate", "record", "retain", "sweep", "rewrite"}

\* A joiner on the loop that waits behind a prune or a rotation sees it at
\* its next look at the label, and gives up (_acquire_gate_loop_side).
LoopPolls ==
  \A t \in LoopThreads: pc[t] = "joined" =>
    \A s \in Threads: HoldOf(t).gate = s /\ at[s] \in Heavy => HoldOf(t).kind # "append"

\* Every audit, every batch and every prune ends, and gives the lock back: no
\* order of joins, promotions, refusals and kills leaves a thread waiting.
OperationsEnd == []<>(\A t \in Threads: pc[t] = "idle")
=============================================================================
