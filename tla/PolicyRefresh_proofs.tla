------------------------ MODULE PolicyRefresh_proofs ------------------------
(* What the gates of policy_distribution.py are worth for every number of     *)
(* processes and documents: neither the cache nor a context is reached by a   *)
(* refused document, nor a context by a fold that is refused, whatever fails  *)
(* and whoever is killed in between.                                          *)
EXTENDS PolicyRefresh, TLAPS

Bad == Unusable \cup Barred
Undoing == {"restore", "redoc", "remeta"}

\* What keeps it so: the copy a process read before its fetch, and the document
\* it is about to publish, have passed the gates too; one that did not is carried
\* only to see it out of the cache.
SourceOk == published \in Docs /\ local \in 0..MaxLocal
CacheOk == doc \in 0..MaxDoc \ Bad /\ meta \in Copy /\ locked \in BOOLEAN
WorkOk ==
  /\ work \in [Procs -> Job]
  /\ \A p \in Procs: /\ work[p].pre.digest \notin Bad
                     /\ work[p].body \in Bad => work[p].at \in Undoing
InstallOk ==
  /\ running \in [Procs -> Ceiling] /\ fold \in [Procs -> Ceiling]
  /\ digest \in [Procs -> 0..MaxDoc]
  /\ \A p \in Procs: running[p].doc \notin Bad /\ running[p] \notin Unfit

IInv == SourceOk /\ CacheOk /\ WorkOk /\ InstallOk

USE RefreshAssumption

\* The records the actions write are of their types.
LEMMA Records ==
  /\ NoCopy \in Copy /\ NoCeiling \in Ceiling
  /\ \A step \in Steps, op \in {"boot", "reload", "refresh", "force"}:
       /\ NoJob(step, op) \in Job
       /\ NoJob(step, op).body = 0 /\ NoJob(step, op).pre.digest = 0
  /\ 0 \notin Bad /\ NoCeiling \notin Unfit /\ Fits(0)
  /\ IInv => /\ CachedCopy \in Copy /\ CachedCopy.digest \notin Bad
             /\ Pair \in 0..MaxDoc
             /\ \A d \in 0..MaxDoc: Composed(d) \in Ceiling /\ Composed(d).doc = d
             /\ published \in Docs
  BY DEF NoCopy, Copy, NoCeiling, Ceiling, Steps, NoJob, Job, IInv, SourceOk, CacheOk, CachedCopy,
         Readable, Pair, Composed, Docs, Ages, Bad, Fits

LEMMA InitIInv == Init => IInv
  <1> SUFFICES ASSUME Init PROVE IInv
    OBVIOUS
  <1>1. 1 \in Docs /\ 0 \in 0..MaxLocal /\ 0 \in 0..MaxDoc
    BY RefreshAssumption DEF Docs
  <1>2. NoJob("down", "boot") \in Job /\ NoJob("down", "boot").body = 0
        /\ NoJob("down", "boot").pre.digest = 0
    BY Records DEF Steps
  <1>3. SourceOk /\ CacheOk
    BY <1>1, Records DEF Init, SourceOk, CacheOk
  <1>4. WorkOk
    BY <1>2, Records DEF Init, WorkOk
  <1>5. InstallOk
    BY <1>1, Records DEF Init, InstallOk, NoCeiling, Bad
  <1> QED BY <1>3, <1>4, <1>5 DEF IInv

\* Work is handed on: the place of one process changes, with what it remembers.
LEMMA HandedOn ==
  ASSUME IInv, NEW p \in Procs,
         \/ \E step \in Steps: To(p, step) /\ (step \in Undoing \/ work[p].at \notin Undoing)
         \/ Done(p)
         \/ Down(p)
         \/ \E step \in Steps: Gets(p, step) /\ (Accepted(published) \/ step \in Undoing)
  PROVE  WorkOk'
  <1>1. work \in [Procs -> Job] /\ published \in 0..MaxDoc
    BY RefreshAssumption DEF IInv, WorkOk, SourceOk, Docs
  <1>2. \A q \in Procs: /\ work[q].pre.digest \notin Bad
                        /\ work[q].body \in Bad => work[q].at \in Undoing
    BY DEF IInv, WorkOk
  <1>3. CASE \E step \in Steps: To(p, step) /\ (step \in Undoing \/ work[p].at \notin Undoing)
    BY <1>1, <1>2, <1>3 DEF To, Job, WorkOk
  <1>4. CASE Done(p)
    <2>1. "idle" \in Steps /\ "boot" \in {"boot", "reload", "refresh", "force"}
      BY DEF Steps
    <2>2. work[p].op \in {"boot", "reload", "refresh", "force"}
      BY <1>1 DEF Job
    <2> QED BY <1>1, <1>2, <1>4, <2>1, <2>2, Records DEF Done, WorkOk
  <1>5. CASE Down(p)
    BY <1>1, <1>2, <1>5, Records DEF Down, Steps, WorkOk
  <1>6. CASE \E step \in Steps: Gets(p, step) /\ (Accepted(published) \/ step \in Undoing)
    <2>1. PICK step \in Steps: Gets(p, step) /\ (Accepted(published) \/ step \in Undoing)
      BY <1>6
    <2> DEFINE job == [work[p] EXCEPT !.body = published, !.at = step]
    <2>2. work[p] \in Job
      BY <1>1
    <2>3. job \in Job /\ job.body = published /\ job.pre = work[p].pre /\ job.at = step
      BY <2>2, <1>1 DEF Job
    <2>4. \A q \in Procs: work'[q] = IF q = p THEN job ELSE work[q]
      BY <2>1, <1>1 DEF Gets
    <2>5. work' \in [Procs -> Job]
      BY <2>1, <2>3, <1>1 DEF Gets
    <2>6. published \in Bad => step \in Undoing
      BY <2>1 DEF Accepted, Parses, Bad
    <2> QED BY <2>3, <2>4, <2>5, <2>6, <1>2 DEF WorkOk
  <1> QED BY <1>3, <1>4, <1>5, <1>6

\* A process that installs, or records, what passed the gates.
LEMMA Installs ==
  ASSUME IInv, NEW p \in Procs, NEW d \in 0..MaxDoc, d \notin Bad,
         running' = running \/ (Fits(d) /\ running' = [running EXCEPT ![p] = Composed(d)]),
         fold' \in {fold, [fold EXCEPT ![p] = Composed(d)]},
         digest' \in {digest, [digest EXCEPT ![p] = d]}
  PROVE  InstallOk'
  <1>1. Composed(d) \in Ceiling /\ Composed(d).doc = d
    BY Records
  <1> QED BY <1>1 DEF IInv, InstallOk, Fits

LEMMA LoadEnds ==
  ASSUME IInv, NEW p \in Procs, NEW d \in 0..MaxDoc, d \notin Bad,
         Loaded(p, d) \/ Unavailable(p) \/ NotStarted(p)
  PROVE  WorkOk' /\ InstallOk'
  <1>1. WorkOk'
    BY HandedOn DEF Loaded, Unavailable, NotStarted
  <1>2. \A c: [running EXCEPT ![p] = IF Starting(p) THEN c ELSE @] \in {running, [running EXCEPT ![p] = c]}
    BY DEF IInv, InstallOk
  <1>3. CASE Loaded(p, d)
    <2>1. running' = running \/ (Fits(d) /\ running' = [running EXCEPT ![p] = Composed(d)])
      BY <1>2, <1>3 DEF Loaded, installVars, IInv, InstallOk
    <2>2. /\ fold' \in {fold, [fold EXCEPT ![p] = Composed(d)]}
          /\ digest' \in {digest, [digest EXCEPT ![p] = d]}
      BY <1>3 DEF Loaded, installVars
    <2>3. InstallOk'
      BY <2>1, <2>2, Installs
    <2> QED BY <1>1, <2>3
  <1>4. CASE Unavailable(p) /\ Degrade
    <2>1. running' \in {running, [running EXCEPT ![p] = Composed(0)]}
      BY <1>2, <1>4 DEF Unavailable
    <2>2. 0 \in 0..MaxDoc /\ 0 \notin Bad /\ Fits(0)
      BY Records, RefreshAssumption
    <2>3. fold' = [fold EXCEPT ![p] = Composed(0)] /\ digest' = digest
      BY <1>4 DEF Unavailable
    <2>4. InstallOk'
      BY <2>1, <2>2, <2>3, Installs
    <2> QED BY <1>1, <2>4
  <1>5. CASE NotStarted(p) \/ (Unavailable(p) /\ ~Degrade)
    BY <1>1, <1>5, Installs DEF NotStarted, Unavailable, installVars
  <1> QED BY <1>3, <1>4, <1>5

-----------------------------------------------------------------------------
(* Every step keeps the invariant.                                         *)

USE DEF IInv

LEMMA BeginStep ==
  ASSUME IInv, NEW p \in Procs, NEW op \in {"boot", "reload", "refresh", "force"}, Begin(p, op)
  PROVE  IInv'
  <1>1. WorkOk'
    BY Records DEF Begin, WorkOk, Steps
  <1> QED BY <1>1 DEF Begin, SourceOk, CacheOk, InstallOk, cacheVars, installVars

LEMMA LoadReadStep == ASSUME IInv, NEW p \in Procs, LoadRead(p) PROVE IInv'
  <1> DEFINE copy == CachedCopy
  <1>1. copy \in Copy /\ copy.digest \in 0..MaxDoc /\ copy.digest \notin Bad
    BY Records DEF Copy
  <1>2. SourceOk' /\ CacheOk'
    BY DEF LoadRead, SourceOk, CacheOk, cacheVars
  <1>3. CASE Loaded(p, copy.digest) \/ Unavailable(p)
    BY <1>1, <1>2, <1>3, LoadEnds
  <1>4. CASE work' = [work EXCEPT ![p].at = "observe", ![p].pre = copy] /\ UNCHANGED installVars
    <2>1. InstallOk'
      BY <1>4 DEF InstallOk, installVars
    <2> DEFINE job == [work[p] EXCEPT !.at = "observe", !.pre = copy]
    <2>2. /\ job \in Job /\ job.body = work[p].body /\ job.pre = copy
          /\ work[p].at \notin Undoing
      BY <1>1 DEF Undoing, LoadRead, At, WorkOk, Job, Steps
    <2>3. work' = [work EXCEPT ![p] = job]
      BY <1>4 DEF WorkOk
    <2>4. WorkOk'
      BY <1>1, <2>2, <2>3 DEF WorkOk
    <2> QED BY <1>2, <2>1, <2>4
  <1> QED BY <1>3, <1>4 DEF LoadRead

LEMMA ObserveStep == ASSUME IInv, NEW p \in Procs, Observe(p) PROVE IInv'
  <1>1. Pair \in 0..MaxDoc
    BY Records
  <1> DEFINE job == [work[p] EXCEPT !.expect = Pair, !.at = IF Loading(p) THEN "fetch" ELSE "read"]
  <1>2. job \in Job /\ job.body = work[p].body /\ job.pre = work[p].pre /\ work[p].at \notin Undoing
    BY <1>1 DEF Undoing, Observe, At, WorkOk, Job, Steps
  <1>3. work' = [work EXCEPT ![p] = job]
    BY DEF Observe, WorkOk
  <1>4. WorkOk'
    BY <1>2, <1>3 DEF WorkOk
  <1> QED BY <1>4 DEF Observe, SourceOk, CacheOk, InstallOk, cacheVars, installVars

LEMMA RefreshReadStep == ASSUME IInv, NEW p \in Procs, RefreshRead(p) PROVE IInv'
  <1>1. CachedCopy \in Copy /\ CachedCopy.digest \notin Bad
    BY Records
  <1> DEFINE job == [work[p] EXCEPT !.pre = CachedCopy, !.at = "fetch"]
  <1>2. job \in Job /\ job.body = work[p].body /\ job.pre = CachedCopy /\ work[p].at \notin Undoing
    BY <1>1 DEF Undoing, RefreshRead, At, WorkOk, Job, Steps
  <1>3. work' = [work EXCEPT ![p] = job]
    BY DEF RefreshRead, WorkOk
  <1>4. WorkOk'
    BY <1>1, <1>2, <1>3 DEF WorkOk
  <1> QED BY <1>4 DEF RefreshRead, SourceOk, CacheOk, InstallOk, cacheVars, installVars

LEMMA LoadFetchStep == ASSUME IInv, NEW p \in Procs, LoadFetch(p) PROVE IInv'
  <1>1. SourceOk' /\ CacheOk'
    BY DEF LoadFetch, SourceOk, CacheOk, cacheVars
  <1>2. Pre(p).digest \in 0..MaxDoc /\ Pre(p).digest \notin Bad
    BY DEF Pre, WorkOk, Job, Copy
  <1>3. CASE Accepted(published) /\ Gets(p, IF NotModified(p) THEN "touch" ELSE "publish")
             /\ UNCHANGED <<installVars, left>>
    <2>1. WorkOk'
      BY <1>3, HandedOn DEF Steps, Undoing
    <2> QED BY <1>1, <1>3, <2>1 DEF InstallOk, installVars
  <1>4. CASE Loaded(p, Pre(p).digest) \/ NotStarted(p) \/ Unavailable(p)
    BY <1>1, <1>2, <1>4, LoadEnds
  <1> QED BY <1>3, <1>4 DEF LoadFetch

LEMMA LoadWinnerStep == ASSUME IInv, NEW p \in Procs, LoadWinner(p) PROVE IInv'
  <1>1. SourceOk' /\ CacheOk'
    BY DEF LoadWinner, SourceOk, CacheOk, cacheVars
  <1>2. CachedCopy.digest \in 0..MaxDoc /\ CachedCopy.digest \notin Bad
    BY Records DEF Copy
  <1>3. CASE To(p, "discard") /\ UNCHANGED installVars
    <2>1. WorkOk'
      BY <1>3, HandedOn DEF LoadWinner, At, Steps, Undoing
    <2> QED BY <1>1, <1>3, <2>1 DEF InstallOk, installVars
  <1>4. CASE Loaded(p, CachedCopy.digest) \/ Unavailable(p)
    BY <1>1, <1>2, <1>4, LoadEnds
  <1> QED BY <1>3, <1>4 DEF LoadWinner

LEMMA DiscardStep == ASSUME IInv, NEW p \in Procs, Discard(p) PROVE IInv'
  <1>1. SourceOk' /\ CacheOk'
    BY Records, RefreshAssumption DEF Discard, SourceOk, CacheOk
  <1>2. Body(p) \in 0..MaxDoc /\ Body(p) \notin Bad
    BY DEF Discard, At, Body, Undoing, WorkOk, Job
  <1>3. Loaded(p, Body(p)) \/ NotStarted(p)
    BY DEF Discard
  <1> QED BY <1>1, <1>2, <1>3, LoadEnds

LEMMA RefreshFetchStep == ASSUME IInv, NEW p \in Procs, RefreshFetch(p) PROVE IInv'
  <1>1. SourceOk' /\ CacheOk'
    BY DEF RefreshFetch, SourceOk, CacheOk, cacheVars
  <1>2. WorkOk'
    <2>1. NotModified(p) => Accepted(published)
      BY DEF NotModified, Pre, WorkOk, Accepted, Parses, Bad
    <2>2. \/ Done(p)
          \/ \E step \in Steps: Gets(p, step) /\ (Accepted(published) \/ step \in Undoing)
      <3>1. {"publish", "touch", "restore"} \subseteq Steps /\ "restore" \in Undoing
        BY DEF Steps, Undoing
      <3> QED BY <2>1, <3>1 DEF RefreshFetch
    <2> QED BY <2>2, HandedOn
  <1>3. CASE /\ Refold(p, published) /\ NotModified(p) /\ UNCHANGED digest
             /\ Moved(p, published) => Fits(published)
    <2>1. published \in 0..MaxDoc /\ published \notin Bad
      BY <1>3, RefreshAssumption DEF SourceOk, Docs, NotModified, Pre, WorkOk
    <2>2. /\ running' = running \/ (Fits(published) /\ running' = [running EXCEPT ![p] = Composed(published)])
          /\ fold' \in {fold, [fold EXCEPT ![p] = Composed(published)]}
      BY <1>3 DEF Refold
    <2>3. InstallOk'
      BY <1>3, <2>1, <2>2, Installs
    <2> QED BY <1>1, <1>2, <2>3
  <1>4. CASE UNCHANGED installVars
    BY <1>1, <1>2, <1>4 DEF InstallOk, installVars
  <1> QED BY <1>3, <1>4 DEF RefreshFetch, installVars

LEMMA TouchStep == ASSUME IInv, NEW p \in Procs, Touch(p) PROVE IInv'
  <1>1. Pre(p).digest \in 0..MaxDoc /\ Body(p) \in 0..MaxDoc /\ Body(p) \notin Bad
    BY DEF Touch, At, Pre, Body, Undoing, WorkOk, Job, Copy
  <1>2. [digest |-> Pre(p).digest, age |-> "fresh"] \in Copy
    BY <1>1 DEF Copy, Ages
  <1>3. SourceOk' /\ CacheOk'
    BY <1>2 DEF Touch, SourceOk, CacheOk
  <1>4. CASE Loaded(p, Body(p))
    BY <1>1, <1>3, <1>4, LoadEnds
  <1>5. CASE Done(p) /\ UNCHANGED installVars
    <2>1. WorkOk'
      BY <1>5, HandedOn
    <2> QED BY <1>3, <1>5, <2>1 DEF InstallOk, installVars
  <1> QED BY <1>4, <1>5 DEF Touch

\* The writers of the cache hand their work on and install nothing; what they
\* write has passed the gates.
LEMMA CacheStep ==
  ASSUME IInv, NEW p \in Procs,
         \/ PublishDoc(p) \/ Restore(p) \/ RestoreDoc(p) \/ RestoreMeta(p) \/ Confirm(p)
         \/ Reread(p)
  PROVE  IInv'
  <1>1. /\ Body(p) \in 0..MaxDoc
        /\ work[p].at \notin Undoing => Body(p) \notin Bad
        /\ Pre(p) \in Copy /\ Pre(p).digest \in 0..MaxDoc /\ Pre(p).digest \notin Bad
    BY DEF Pre, Body, At, WorkOk, Job, Copy
  <1>2. SourceOk' /\ InstallOk'
    BY DEF PublishDoc, Restore, RestoreDoc, RestoreMeta, Confirm, Reread, SourceOk, InstallOk, installVars
  <1>3. CacheOk'
    <2>1. CASE PublishDoc(p)
      <3>1. work[p].at \notin Undoing
        BY <2>1 DEF PublishDoc, At, Undoing
      <3> QED BY <1>1, <2>1, <3>1 DEF PublishDoc, CacheOk
    <2>2. CASE Restore(p)
      <3>1. 0 \in 0..MaxDoc \ Bad /\ NoCopy \in Copy
        BY Records, RefreshAssumption
      <3>2. (doc' = 0 /\ meta' = NoCopy) \/ UNCHANGED <<doc, meta>>
        BY <2>2 DEF Restore
      <3>3. locked' \in BOOLEAN
        BY <2>2 DEF Restore, CacheOk
      <3> QED BY <3>1, <3>2, <3>3 DEF CacheOk
    <2>3. CASE RestoreDoc(p)
      BY <1>1, <2>3 DEF RestoreDoc, CacheOk
    <2>4. CASE RestoreMeta(p)
      BY <1>1, <2>4 DEF RestoreMeta, CacheOk
    <2>5. CASE Confirm(p) \/ Reread(p)
      BY <2>5 DEF Confirm, Reread, CacheOk, cacheVars
    <2> QED BY <2>1, <2>2, <2>3, <2>4, <2>5
  <1>4. Done(p) \/ \E step \in Steps: To(p, step) /\ (step \in Undoing \/ work[p].at \notin Undoing)
    <2>1. {"meta", "reread", "winner", "discard", "apply", "restore", "redoc", "remeta"} \subseteq Steps
      BY DEF Steps
    <2>2. CASE Restore(p) \/ RestoreDoc(p) \/ RestoreMeta(p)
      BY <2>1, <2>2 DEF Restore, RestoreDoc, RestoreMeta, Undoing
    <2>3. CASE PublishDoc(p) \/ Reread(p) \/ Confirm(p)
      <3>1. work[p].at \notin Undoing
        BY <2>3 DEF PublishDoc, Reread, Confirm, At, Undoing
      <3> QED BY <2>1, <2>3, <3>1 DEF PublishDoc, NotPublished, Reread, Confirm
    <2> QED BY <2>2, <2>3
  <1>5. WorkOk'
    BY <1>4, HandedOn
  <1> QED BY <1>2, <1>3, <1>5

LEMMA PublishMetaStep == ASSUME IInv, NEW p \in Procs, PublishMeta(p) PROVE IInv'
  <1>1. Body(p) \in 0..MaxDoc /\ Body(p) \notin Bad /\ work[p].at \notin Undoing
    BY DEF PublishMeta, At, Body, Undoing, WorkOk, Job
  <1>2. SourceOk' /\ CacheOk'
    <2>1. [digest |-> Body(p), age |-> "fresh"] \in Copy
      BY <1>1 DEF Copy, Ages
    <2> QED BY <2>1 DEF PublishMeta, SourceOk, CacheOk
  <1>3. CASE Loaded(p, Body(p))
    BY <1>1, <1>2, <1>3, LoadEnds
  <1>4. CASE ~Loaded(p, Body(p))
    <2>1. UNCHANGED installVars /\ (Done(p) \/ \E step \in Steps: To(p, step))
      <3>1. "confirm" \in Steps /\ "reread" \in Steps
        BY DEF Steps
      <3> QED BY <1>4, <3>1 DEF PublishMeta, NotPublished
    <2>2. WorkOk'
      BY <1>1, <2>1, HandedOn
    <2> QED BY <1>2, <2>1, <2>2 DEF InstallOk, installVars
  <1> QED BY <1>3, <1>4

LEMMA ApplyStep == ASSUME IInv, NEW p \in Procs, Apply(p) PROVE IInv'
  <1>1. Body(p) \in 0..MaxDoc /\ Body(p) \notin Bad /\ work[p].at \notin Undoing
    BY DEF Apply, At, Body, Undoing, WorkOk, Job
  <1>2. SourceOk' /\ CacheOk'
    BY DEF Apply, SourceOk, CacheOk, cacheVars
  <1>3. WorkOk'
    BY <1>1, HandedOn DEF Apply, Steps
  <1>4. InstallOk'
    <2>1. CASE UNCHANGED installVars
      BY <2>1 DEF InstallOk, installVars
    <2>2. CASE ~UNCHANGED installVars
      <3>1. /\ running' = [running EXCEPT ![p] = Composed(Body(p))]
            /\ fold' = [fold EXCEPT ![p] = Composed(Body(p))]
            /\ digest' = [digest EXCEPT ![p] = Body(p)]
            /\ Fits(Body(p))
        BY <2>2 DEF Apply
      <3> QED BY <3>1, <1>1, Installs
    <2> QED BY <2>1, <2>2
  <1> QED BY <1>2, <1>3, <1>4

\* The source, the clock and the host's document.
LEMMA WorldStep == ASSUME IInv, Publish \/ LocalMoves \/ Age \/ Expire PROVE IInv'
  <1>1. SourceOk' /\ WorkOk' /\ InstallOk'
    BY RefreshAssumption
       DEF Publish, LocalMoves, Age, Expire, SourceOk, WorkOk, InstallOk, installVars, Docs
  <1>2. CacheOk'
    BY DEF Publish, LocalMoves, Age, Expire, CacheOk, cacheVars, Copy, Ages
  <1> QED BY <1>1, <1>2

LEMMA EndStep == ASSUME IInv, NEW p \in Procs, Kill(p) \/ Exit(p) PROVE IInv'
  <1>1. Ends(p)
    BY DEF Kill, Exit
  <1>2. SourceOk' /\ CacheOk'
    BY <1>1 DEF Ends, SourceOk, CacheOk
  <1>3. WorkOk'
    BY <1>1, HandedOn DEF Ends
  <1>4. InstallOk'
    BY <1>1, Records, RefreshAssumption DEF Ends, InstallOk, NoCeiling, Bad
  <1> QED BY <1>2, <1>3, <1>4

LEMMA NextIInv == IInv /\ [Next]_vars => IInv'
  <1> SUFFICES ASSUME IInv, [Next]_vars PROVE IInv'
    OBVIOUS
  <1>1. CASE UNCHANGED vars
    BY <1>1 DEF vars, cacheVars, installVars, SourceOk, CacheOk, WorkOk, InstallOk
  <1>2. ASSUME NEW p \in Procs, Start(p) \/ Poll(p) \/ FetchOrReload(p) PROVE IInv'
    BY <1>2, BeginStep DEF Start, Poll, FetchOrReload
  <1>3. ASSUME NEW p \in Procs, Work(p) PROVE IInv'
    BY <1>3, LoadReadStep, ObserveStep, RefreshReadStep, LoadFetchStep, LoadWinnerStep,
       DiscardStep, RefreshFetchStep, TouchStep, CacheStep, PublishMetaStep, ApplyStep DEF Work
  <1>4. ASSUME NEW p \in Procs, Kill(p) \/ Exit(p) PROVE IInv'
    BY <1>4, EndStep
  <1>5. CASE Publish \/ LocalMoves \/ Age \/ Expire
    BY <1>5, WorldStep
  <1> QED BY <1>1, <1>2, <1>3, <1>4, <1>5 DEF Next

LEMMA IInvMeans == IInv => TypeOK /\ RefusedNeverServed
  BY DEF SourceOk, CacheOk, WorkOk, InstallOk, TypeOK, RefusedNeverServed, Accepted, Parses, Bad

\* For every number of processes and documents: what is cached, and what is
\* remembered of the cache, parses and was let through by the gates, and every
\* process runs a fold they let through as it was composed.
THEOREM GatesInvariant == Spec => []IInv
  <1> QED BY InitIInv, NextIInv, PTL DEF Spec

\* The state stays of its type.
THEOREM RefreshTypes == Spec => []TypeOK
  <1>1. IInv => TypeOK
    BY IInvMeans
  <1> QED BY <1>1, GatesInvariant, PTL

\* A document that does not parse, or that the gates refuse as published, is never
\* the last-known-good of a start, and no process runs under one or under a fold
\* they refuse, whatever fails between the gates, the publish, the install and the
\* restore, and although a cached document is served behind the parse alone.
THEOREM RefusedKeptOut == Spec => []RefusedNeverServed
  <1>1. IInv => RefusedNeverServed
    BY IInvMeans
  <1> QED BY <1>1, GatesInvariant, PTL

-----------------------------------------------------------------------------
(* What the order of the publishes is worth: the lock, the compare-and-swap   *)
(* and what is remembered across the fetch keep the cache a pair, and never   *)
(* older than it was.                                                         *)

Writing(p) == work[p].at \in {"meta", "redoc", "remeta"}

LeftOk == left \in [failures: 0..MaxFailures, ages: Nat, fetches: Nat]

\* The lock is held by the one process between the two writes.
LockOk ==
  /\ \A p \in Procs: Writing(p) => locked
  /\ \A p, q \in Procs: Writing(p) /\ Writing(q) => p = q

\* Nothing is newer than what is published, and what is about to be published
\* is no older than what was observed before the fetch.
NotAhead(p) ==
  /\ work[p].expect <= published /\ work[p].pre.digest <= published /\ work[p].body <= published
  /\ work[p].at = "publish" => work[p].expect <= work[p].body
OrderOk ==
  /\ doc <= published /\ meta.digest <= published
  /\ \A p \in Procs: NotAhead(p)

\* While nothing has failed, the files are a pair but between two writes, and
\* there the first is the one the second will match.
HalfWritten(p) ==
  /\ At(p, "meta") => doc = Body(p)
  /\ At(p, "redoc") => doc = 0
  /\ At(p, "remeta") => doc = Pre(p).digest
PairOk ==
  Undisturbed =>
    /\ ~locked => doc \in {0, meta.digest}
    /\ \A p \in Procs: HalfWritten(p)

CacheInv == IInv /\ LeftOk /\ LockOk /\ OrderOk /\ PairOk

Act(p) == Start(p) \/ Poll(p) \/ FetchOrReload(p) \/ Work(p) \/ Kill(p) \/ Exit(p)

\* What each way to go on does to what a process remembers.
LEMMA Moves ==
  ASSUME IInv, NEW p \in Procs
  PROVE  /\ \A step \in Steps: To(p, step) =>
              /\ work'[p].at = step /\ work'[p].expect = work[p].expect
              /\ work'[p].pre = work[p].pre /\ work'[p].body = work[p].body
         /\ \A step \in Steps: Gets(p, step) =>
              /\ work'[p].at = step /\ work'[p].expect = work[p].expect
              /\ work'[p].pre = work[p].pre /\ work'[p].body = published
         /\ Done(p) => /\ work'[p].at = "idle" /\ work'[p].expect = 0
                       /\ work'[p].pre = NoCopy /\ work'[p].body = 0
         /\ Down(p) => /\ work'[p].at = "down" /\ work'[p].expect = 0
                       /\ work'[p].pre = NoCopy /\ work'[p].body = 0
         /\ \A op: Begin(p, op) =>
              /\ work'[p].at \in {"read", "observe"} /\ work'[p].expect = 0
              /\ work'[p].pre = NoCopy /\ work'[p].body = 0
  <1>1. work \in [Procs -> Job]
    BY DEF WorkOk
  <1>2. ASSUME NEW step \in Steps, To(p, step)
        PROVE  /\ work'[p].at = step /\ work'[p].expect = work[p].expect
               /\ work'[p].pre = work[p].pre /\ work'[p].body = work[p].body
    BY <1>1, <1>2 DEF To, Job
  <1>3. ASSUME NEW step \in Steps, Gets(p, step)
        PROVE  /\ work'[p].at = step /\ work'[p].expect = work[p].expect
               /\ work'[p].pre = work[p].pre /\ work'[p].body = published
    BY <1>1, <1>3 DEF Gets, Job
  <1>5. Down(p) => /\ work'[p].at = "down" /\ work'[p].expect = 0
                   /\ work'[p].pre = NoCopy /\ work'[p].body = 0
    BY <1>1 DEF Down, NoJob
  <1>6. Done(p) => /\ work'[p].at = "idle" /\ work'[p].expect = 0
                   /\ work'[p].pre = NoCopy /\ work'[p].body = 0
    BY <1>1 DEF Done, NoJob
  <1>7. ASSUME NEW op, Begin(p, op)
        PROVE  /\ work'[p].at \in {"read", "observe"} /\ work'[p].expect = 0
               /\ work'[p].pre = NoCopy /\ work'[p].body = 0
    BY <1>1, <1>7 DEF Begin, NoJob
  <1> QED BY <1>2, <1>3, <1>5, <1>6, <1>7

\* A step of one process is no step of another.
LEMMA OthersWork ==
  ASSUME IInv, NEW p \in Procs, Act(p), NEW q \in Procs, q # p
  PROVE  work'[q] = work[q]
  <1>1. work \in [Procs -> Job]
    BY DEF WorkOk
  <1>10. CASE Start(p)
    BY <1>1, <1>10 DEF Start, Begin, To, Gets, Done, Down
  <1>11. CASE Poll(p)
    BY <1>1, <1>11 DEF Poll, Begin, To, Gets, Done, Down
  <1>12. CASE FetchOrReload(p)
    BY <1>1, <1>12 DEF FetchOrReload, Begin, To, Gets, Done, Down
  <1>13. CASE LoadRead(p)
    BY <1>1, <1>13 DEF LoadRead, Loaded, Unavailable, To, Gets, Done, Down
  <1>14. CASE Observe(p)
    BY <1>1, <1>14 DEF Observe, To, Gets, Done, Down
  <1>15. CASE RefreshRead(p)
    BY <1>1, <1>15 DEF RefreshRead, To, Gets, Done, Down
  <1>16. CASE LoadFetch(p)
    BY <1>1, <1>16 DEF LoadFetch, Loaded, NotStarted, Unavailable, To, Gets, Done, Down
  <1>17. CASE LoadWinner(p)
    BY <1>1, <1>17 DEF LoadWinner, Loaded, Unavailable, To, Gets, Done, Down
  <1>18. CASE Discard(p)
    BY <1>1, <1>18 DEF Discard, Loaded, NotStarted, To, Gets, Done, Down
  <1>19. CASE RefreshFetch(p)
    BY <1>1, <1>19 DEF RefreshFetch, To, Gets, Done, Down
  <1>20. CASE Touch(p)
    BY <1>1, <1>20 DEF Touch, Loaded, To, Gets, Done, Down
  <1>21. CASE PublishDoc(p)
    BY <1>1, <1>21 DEF PublishDoc, NotPublished, To, Gets, Done, Down
  <1>22. CASE PublishMeta(p)
    BY <1>1, <1>22 DEF PublishMeta, Loaded, NotPublished, To, Gets, Done, Down
  <1>23. CASE Confirm(p)
    BY <1>1, <1>23 DEF Confirm, To, Gets, Done, Down
  <1>24. CASE Apply(p)
    BY <1>1, <1>24 DEF Apply, To, Gets, Done, Down
  <1>25. CASE Restore(p)
    BY <1>1, <1>25 DEF Restore, To, Gets, Done, Down
  <1>26. CASE RestoreDoc(p)
    BY <1>1, <1>26 DEF RestoreDoc, To, Gets, Done, Down
  <1>27. CASE RestoreMeta(p)
    BY <1>1, <1>27 DEF RestoreMeta, To, Gets, Done, Down
  <1>28. CASE Kill(p)
    BY <1>1, <1>28 DEF Kill, Ends, To, Gets, Done, Down
  <1>29. CASE Exit(p)
    BY <1>1, <1>29 DEF Exit, Ends, To, Gets, Done, Down
  <1>30. CASE Reread(p)
    BY <1>1, <1>30 DEF Reread, To, Gets, Done, Down
  <1> QED BY <1>10, <1>11, <1>12, <1>13, <1>14, <1>15, <1>16, <1>17, <1>18, <1>19, <1>20, <1>21, <1>22, <1>23, <1>24, <1>25, <1>26, <1>27, <1>28, <1>29, <1>30 DEF Act, Work

\* The source and the host's document are not the processes'.
LEMMA ActsLeave ==
  ASSUME NEW p \in Procs, Act(p)
  PROVE  UNCHANGED <<published, local>>
  <1>10. CASE Start(p)
    BY <1>10 DEF Start, Begin, Done, Down
  <1>11. CASE Poll(p)
    BY <1>11 DEF Poll, Begin, Done, Down
  <1>12. CASE FetchOrReload(p)
    BY <1>12 DEF FetchOrReload, Begin, Done, Down
  <1>13. CASE LoadRead(p)
    BY <1>13 DEF LoadRead, Loaded, Unavailable, Done, Down
  <1>14. CASE Observe(p)
    BY <1>14 DEF Observe, Done, Down
  <1>15. CASE RefreshRead(p)
    BY <1>15 DEF RefreshRead, Done, Down
  <1>16. CASE LoadFetch(p)
    BY <1>16 DEF LoadFetch, Loaded, NotStarted, Unavailable, Done, Down
  <1>17. CASE LoadWinner(p)
    BY <1>17 DEF LoadWinner, Loaded, Unavailable, Done, Down
  <1>18. CASE Discard(p)
    BY <1>18 DEF Discard, Loaded, NotStarted, Done, Down
  <1>19. CASE RefreshFetch(p)
    BY <1>19 DEF RefreshFetch, Done, Down
  <1>20. CASE Touch(p)
    BY <1>20 DEF Touch, Loaded, Done, Down
  <1>21. CASE PublishDoc(p)
    BY <1>21 DEF PublishDoc, NotPublished, Done, Down
  <1>22. CASE PublishMeta(p)
    BY <1>22 DEF PublishMeta, Loaded, NotPublished, Done, Down
  <1>23. CASE Confirm(p)
    BY <1>23 DEF Confirm, Done, Down
  <1>24. CASE Apply(p)
    BY <1>24 DEF Apply, Done, Down
  <1>25. CASE Restore(p)
    BY <1>25 DEF Restore, Done, Down
  <1>26. CASE RestoreDoc(p)
    BY <1>26 DEF RestoreDoc, Done, Down
  <1>27. CASE RestoreMeta(p)
    BY <1>27 DEF RestoreMeta, Done, Down
  <1>28. CASE Kill(p)
    BY <1>28 DEF Kill, Ends, Done, Down
  <1>29. CASE Exit(p)
    BY <1>29 DEF Exit, Ends, Done, Down
  <1>30. CASE Reread(p)
    BY <1>30 DEF Reread, Done, Down
  <1> QED BY <1>10, <1>11, <1>12, <1>13, <1>14, <1>15, <1>16, <1>17, <1>18, <1>19, <1>20, <1>21, <1>22, <1>23, <1>24, <1>25, <1>26, <1>27, <1>28, <1>29, <1>30 DEF Act, Work

\* How a step of p leaves the lock: it takes or gives it back only as the writer.
LEMMA OwnLock ==
  ASSUME CacheInv, NEW p \in Procs, Act(p)
  PROVE  \/ UNCHANGED locked /\ (Writing(p)' => Writing(p))
         \/ ~locked /\ locked'
         \/ Writing(p) /\ ~locked' /\ ~Writing(p)'
  <1>1. Writing(p) => locked
    BY DEF CacheInv, LockOk
  <1>2. locked \in BOOLEAN
    BY DEF CacheInv, CacheOk
  <1>3. Steps = Steps \cup {"idle", "meta", "redoc", "remeta", "confirm", "reread", "winner", "discard", "touch",
          "apply", "restore", "publish", "fetch", "read", "observe"}
    BY DEF Steps
  <1>4. work \in [Procs -> Job]
    BY DEF CacheInv, WorkOk
  <1>10. CASE Start(p)
    BY <1>1, <1>2, <1>3, <1>4, Moves, <1>10 DEF Start, Begin, Writing, At, cacheVars, CacheInv, Job
  <1>11. CASE Poll(p)
    BY <1>1, <1>2, <1>3, <1>4, Moves, <1>11 DEF Poll, Begin, Writing, At, cacheVars, CacheInv, Job
  <1>12. CASE FetchOrReload(p)
    BY <1>1, <1>2, <1>3, <1>4, Moves, <1>12 DEF FetchOrReload, Begin, Writing, At, cacheVars, CacheInv, Job
  <1>13. CASE LoadRead(p)
    BY <1>1, <1>2, <1>3, <1>4, Moves, <1>13 DEF LoadRead, Loaded, Unavailable, Writing, At, cacheVars, CacheInv, Job
  <1>14. CASE Observe(p)
    BY <1>1, <1>2, <1>3, <1>4, Moves, <1>14 DEF Observe, Writing, At, cacheVars, CacheInv, Job
  <1>15. CASE RefreshRead(p)
    BY <1>1, <1>2, <1>3, <1>4, Moves, <1>15 DEF RefreshRead, Writing, At, cacheVars, CacheInv, Job
  <1>16. CASE LoadFetch(p)
    BY <1>1, <1>2, <1>3, <1>4, Moves, <1>16 DEF LoadFetch, Loaded, NotStarted, Unavailable, Writing, At, cacheVars, CacheInv, Job
  <1>17. CASE LoadWinner(p)
    BY <1>1, <1>2, <1>3, <1>4, Moves, <1>17 DEF LoadWinner, Loaded, Unavailable, Writing, At, cacheVars, CacheInv, Job
  <1>18. CASE Discard(p)
    BY <1>1, <1>2, <1>3, <1>4, Moves, <1>18 DEF Discard, Loaded, NotStarted, Writing, At, cacheVars, CacheInv, Job
  <1>19. CASE RefreshFetch(p)
    BY <1>1, <1>2, <1>3, <1>4, Moves, <1>19 DEF RefreshFetch, Writing, At, cacheVars, CacheInv, Job
  <1>20. CASE Touch(p)
    BY <1>1, <1>2, <1>3, <1>4, Moves, <1>20 DEF Touch, Loaded, Writing, At, cacheVars, CacheInv, Job
  <1>21. CASE PublishDoc(p)
    BY <1>1, <1>2, <1>3, <1>4, Moves, <1>21 DEF PublishDoc, NotPublished, Writing, At, cacheVars, CacheInv, Job
  <1>22. CASE PublishMeta(p)
    <2>1. Done(p) \/ Down(p) \/ \E step \in {"confirm", "reread"}: To(p, step)
      BY <1>22 DEF PublishMeta, Loaded, NotPublished
    <2>2. ~Writing(p)'
      BY <2>1, <1>3, Moves DEF CacheInv, Writing
    <2> QED BY <1>22, <2>2 DEF PublishMeta, Writing, At
  <1>23. CASE Confirm(p)
    BY <1>1, <1>2, <1>3, <1>4, Moves, <1>23 DEF Confirm, Writing, At, cacheVars, CacheInv, Job
  <1>24. CASE Apply(p)
    BY <1>1, <1>2, <1>3, <1>4, Moves, <1>24 DEF Apply, Writing, At, cacheVars, CacheInv, Job
  <1>25. CASE Restore(p)
    BY <1>1, <1>2, <1>3, <1>4, Moves, <1>25 DEF Restore, Writing, At, cacheVars, CacheInv, Job
  <1>26. CASE RestoreDoc(p)
    BY <1>1, <1>2, <1>3, <1>4, Moves, <1>26 DEF RestoreDoc, Writing, At, cacheVars, CacheInv, Job
  <1>27. CASE RestoreMeta(p)
    BY <1>1, <1>2, <1>3, <1>4, Moves, <1>27 DEF RestoreMeta, Writing, At, cacheVars, CacheInv, Job
  <1>28. CASE Kill(p)
    BY <1>1, <1>2, <1>3, <1>4, Moves, <1>28 DEF Kill, Ends, Writing, At, cacheVars, CacheInv, Job
  <1>29. CASE Exit(p)
    BY <1>1, <1>2, <1>3, <1>4, Moves, <1>29 DEF Exit, Ends, Writing, At, cacheVars, CacheInv, Job
  <1>30. CASE Reread(p)
    BY <1>1, <1>2, <1>3, <1>4, Moves, <1>30 DEF Reread, Writing, At, cacheVars, CacheInv, Job
  <1> QED BY <1>10, <1>11, <1>12, <1>13, <1>14, <1>15, <1>16, <1>17, <1>18, <1>19, <1>20, <1>21, <1>22, <1>23, <1>24, <1>25, <1>26, <1>27, <1>28, <1>29, <1>30 DEF Act, Work

\* Nobody else writes while one does.
LEMMA LockStep ==
  ASSUME CacheInv, NEW p \in Procs, Act(p)
  PROVE  LockOk'
  <1>1. \A q \in Procs: q # p => Writing(q)' = Writing(q)
    BY OthersWork DEF CacheInv, Writing
  <1>2. LockOk
    BY DEF CacheInv
  <1> QED BY <1>1, <1>2, OwnLock DEF LockOk

\* The cache is written by the holder of the lock, or while nobody has it.
LEMMA WritesCache ==
  ASSUME CacheInv, NEW p \in Procs, Act(p)
  PROVE  UNCHANGED <<doc, meta>> \/ ~locked \/ Writing(p)
  <1>10. CASE Start(p)
    BY <1>10 DEF Start, Begin, Writing, At, cacheVars, Done, Down
  <1>11. CASE Poll(p)
    BY <1>11 DEF Poll, Begin, Writing, At, cacheVars, Done, Down
  <1>12. CASE FetchOrReload(p)
    BY <1>12 DEF FetchOrReload, Begin, Writing, At, cacheVars, Done, Down
  <1>13. CASE LoadRead(p)
    BY <1>13 DEF LoadRead, Loaded, Unavailable, Writing, At, cacheVars, Done, Down
  <1>14. CASE Observe(p)
    BY <1>14 DEF Observe, Writing, At, cacheVars, Done, Down
  <1>15. CASE RefreshRead(p)
    BY <1>15 DEF RefreshRead, Writing, At, cacheVars, Done, Down
  <1>16. CASE LoadFetch(p)
    BY <1>16 DEF LoadFetch, Loaded, NotStarted, Unavailable, Writing, At, cacheVars, Done, Down
  <1>17. CASE LoadWinner(p)
    BY <1>17 DEF LoadWinner, Loaded, Unavailable, Writing, At, cacheVars, Done, Down
  <1>18. CASE Discard(p)
    BY <1>18 DEF Discard, Loaded, NotStarted, Writing, At, cacheVars, Done, Down
  <1>19. CASE RefreshFetch(p)
    BY <1>19 DEF RefreshFetch, Writing, At, cacheVars, Done, Down
  <1>20. CASE Touch(p)
    BY <1>20 DEF Touch, Loaded, Writing, At, cacheVars, Done, Down
  <1>21. CASE PublishDoc(p)
    BY <1>21 DEF PublishDoc, NotPublished, Writing, At, cacheVars, Done, Down
  <1>22. CASE PublishMeta(p)
    BY <1>22 DEF PublishMeta, Loaded, NotPublished, Writing, At, cacheVars, Done, Down
  <1>23. CASE Confirm(p)
    BY <1>23 DEF Confirm, Writing, At, cacheVars, Done, Down
  <1>24. CASE Apply(p)
    BY <1>24 DEF Apply, Writing, At, cacheVars, Done, Down
  <1>25. CASE Restore(p)
    BY <1>25 DEF Restore, Writing, At, cacheVars, Done, Down
  <1>26. CASE RestoreDoc(p)
    BY <1>26 DEF RestoreDoc, Writing, At, cacheVars, Done, Down
  <1>27. CASE RestoreMeta(p)
    BY <1>27 DEF RestoreMeta, Writing, At, cacheVars, Done, Down
  <1>28. CASE Kill(p)
    BY <1>28 DEF Kill, Ends, Writing, At, cacheVars, Done, Down
  <1>29. CASE Exit(p)
    BY <1>29 DEF Exit, Ends, Writing, At, cacheVars, Done, Down
  <1>30. CASE Reread(p)
    BY <1>30 DEF Reread, Writing, At, cacheVars, Done, Down
  <1> QED BY <1>10, <1>11, <1>12, <1>13, <1>14, <1>15, <1>16, <1>17, <1>18, <1>19, <1>20, <1>21, <1>22, <1>23, <1>24, <1>25, <1>26, <1>27, <1>28, <1>29, <1>30 DEF Act, Work

\* What is left to the bounds only shrinks.
LEMMA LeftStep ==
  ASSUME LeftOk, NEW p \in Procs, Act(p)
  PROVE  /\ LeftOk'
         /\ Undisturbed' => Undisturbed /\ ~Fails
  <1>1. \A resource \in {"failures", "fetches"}: Uses(resource) =>
          LeftOk' /\ (Undisturbed' => Undisturbed /\ resource # "failures")
    BY DEF LeftOk, Uses, Undisturbed
  <1>2. Fails => LeftOk' /\ ~Undisturbed'
    BY <1>1 DEF Fails
  <1>3. UNCHANGED left => LeftOk' /\ (Undisturbed' => Undisturbed)
    BY DEF LeftOk, Undisturbed
  <1>4. UNCHANGED left => ~Fails
    BY DEF LeftOk, Fails, Uses
  <1>6. Uses("fetches") => ~Fails
    BY DEF LeftOk, Fails, Uses
  <1>10. CASE Start(p)
    BY <1>1, <1>2, <1>3, <1>4, <1>6, <1>10 DEF Start, Begin, Done, Down
  <1>11. CASE Poll(p)
    BY <1>1, <1>2, <1>3, <1>4, <1>6, <1>11 DEF Poll, Begin, Done, Down
  <1>12. CASE FetchOrReload(p)
    BY <1>1, <1>2, <1>3, <1>4, <1>6, <1>12 DEF FetchOrReload, Begin, Done, Down
  <1>13. CASE LoadRead(p)
    BY <1>1, <1>2, <1>3, <1>4, <1>6, <1>13 DEF LoadRead, Loaded, Unavailable, Done, Down
  <1>14. CASE Observe(p)
    BY <1>1, <1>2, <1>3, <1>4, <1>6, <1>14 DEF Observe, Done, Down
  <1>15. CASE RefreshRead(p)
    BY <1>1, <1>2, <1>3, <1>4, <1>6, <1>15 DEF RefreshRead, Done, Down
  <1>16. CASE LoadFetch(p)
    BY <1>1, <1>2, <1>3, <1>4, <1>6, <1>16 DEF LoadFetch, Loaded, NotStarted, Unavailable, Done, Down
  <1>17. CASE LoadWinner(p)
    BY <1>1, <1>2, <1>3, <1>4, <1>6, <1>17 DEF LoadWinner, Loaded, Unavailable, Done, Down
  <1>18. CASE Discard(p)
    BY <1>1, <1>2, <1>3, <1>4, <1>6, <1>18 DEF Discard, Loaded, NotStarted, Done, Down
  <1>19. CASE RefreshFetch(p)
    BY <1>1, <1>2, <1>3, <1>4, <1>6, <1>19 DEF RefreshFetch, Done, Down
  <1>20. CASE Touch(p)
    BY <1>1, <1>2, <1>3, <1>4, <1>6, <1>20 DEF Touch, Loaded, Done, Down
  <1>21. CASE PublishDoc(p)
    BY <1>1, <1>2, <1>3, <1>4, <1>6, <1>21 DEF PublishDoc, NotPublished, Done, Down
  <1>22. CASE PublishMeta(p)
    BY <1>1, <1>2, <1>3, <1>4, <1>6, <1>22 DEF PublishMeta, Loaded, NotPublished, Done, Down
  <1>23. CASE Confirm(p)
    BY <1>1, <1>2, <1>3, <1>4, <1>6, <1>23 DEF Confirm, Done, Down
  <1>24. CASE Apply(p)
    BY <1>1, <1>2, <1>3, <1>4, <1>6, <1>24 DEF Apply, Done, Down
  <1>25. CASE Restore(p)
    BY <1>1, <1>2, <1>3, <1>4, <1>6, <1>25 DEF Restore, Done, Down
  <1>26. CASE RestoreDoc(p)
    BY <1>1, <1>2, <1>3, <1>4, <1>6, <1>26 DEF RestoreDoc, Done, Down
  <1>27. CASE RestoreMeta(p)
    BY <1>1, <1>2, <1>3, <1>4, <1>6, <1>27 DEF RestoreMeta, Done, Down
  <1>28. CASE Kill(p)
    BY <1>1, <1>2, <1>3, <1>4, <1>6, <1>28 DEF Kill, Ends, Done, Down
  <1>29. CASE Exit(p)
    BY <1>1, <1>2, <1>3, <1>4, <1>6, <1>29 DEF Exit, Ends, Done, Down
  <1>30. CASE Reread(p)
    BY <1>1, <1>2, <1>3, <1>4, <1>6, <1>30 DEF Reread, Done, Down
  <1> QED BY <1>10, <1>11, <1>12, <1>13, <1>14, <1>15, <1>16, <1>17, <1>18, <1>19, <1>20, <1>21, <1>22, <1>23, <1>24, <1>25, <1>26, <1>27, <1>28, <1>29, <1>30 DEF Act, Work

\* What is read from the cache is no newer than what is published.
LEMMA ReadBounds ==
  ASSUME CacheInv
  PROVE  /\ published \in Nat /\ doc \in Nat /\ meta.digest \in Nat
         /\ Pair \in Nat /\ Pair <= published
         /\ CachedCopy.digest \in Nat /\ CachedCopy.digest <= published
         /\ NoCopy.digest = 0
         /\ \A p \in Procs: /\ work[p].expect \in Nat /\ work[p].pre.digest \in Nat
                            /\ work[p].body \in Nat
  <1>1. published \in Nat /\ doc \in Nat /\ meta.digest \in Nat
    BY DEF CacheInv, SourceOk, CacheOk, Docs, Copy
  <1>2. doc <= published /\ meta.digest <= published /\ 0 <= published
    BY <1>1 DEF CacheInv, OrderOk
  <1>3. NoCopy.digest = 0
    BY DEF NoCopy
  <1>4. \A p \in Procs: work[p].expect \in Nat /\ work[p].pre.digest \in Nat /\ work[p].body \in Nat
    <2> SUFFICES ASSUME NEW p \in Procs
                 PROVE  work[p].expect \in Nat /\ work[p].pre.digest \in Nat /\ work[p].body \in Nat
      OBVIOUS
    <2>1. work[p] \in Job
      BY DEF CacheInv, WorkOk
    <2>2. 0..MaxDoc \subseteq Nat
      OBVIOUS
    <2> QED BY <2>1, <2>2 DEF Job, Copy
  <1> QED BY <1>1, <1>2, <1>3, <1>4 DEF Pair, CachedCopy

\* Neither is what a process remembers.
LEMMA OwnOrder ==
  ASSUME CacheInv, NEW p \in Procs, Act(p)
  PROVE  NotAhead(p)'
  <1>1. NotAhead(p)
    BY DEF CacheInv, OrderOk
  <1>2. published' = published
    BY ActsLeave
  <1>3. work \in [Procs -> Job]
    BY DEF CacheInv, WorkOk
  <1>4. {"idle", "meta", "redoc", "remeta", "confirm", "reread", "winner", "discard", "touch",
         "apply", "restore", "publish", "fetch", "read", "observe"} \subseteq Steps
    BY DEF Steps
  <1>5. \A step \in Steps \ {"publish"}: To(p, step) => NotAhead(p)'
    BY <1>1, <1>2, Moves DEF NotAhead, CacheInv
  <1>6. \A step \in Steps: Gets(p, step) => NotAhead(p)'
    BY <1>1, <1>2, Moves, ReadBounds DEF NotAhead, CacheInv
  <1>7. Done(p) \/ Down(p) \/ (\E op: Begin(p, op)) => NotAhead(p)'
    BY <1>2, Moves, ReadBounds DEF NotAhead, CacheInv
  <1>8. work' = [work EXCEPT ![p].at = "observe", ![p].pre = CachedCopy] => NotAhead(p)'
    BY <1>1, <1>2, <1>3, ReadBounds DEF NotAhead, Job
  <1>10. CASE Start(p)
    BY <1>4, <1>5, <1>6, <1>7, <1>8, <1>10 DEF Start, Begin
  <1>11. CASE Poll(p)
    BY <1>4, <1>5, <1>6, <1>7, <1>8, <1>11 DEF Poll, Begin
  <1>12. CASE FetchOrReload(p)
    BY <1>4, <1>5, <1>6, <1>7, <1>8, <1>12 DEF FetchOrReload, Begin
  <1>13. CASE LoadRead(p)
    BY <1>4, <1>5, <1>6, <1>7, <1>8, <1>13 DEF LoadRead, Loaded, Unavailable
  <1>14. CASE Observe(p)
    BY <1>1, <1>2, <1>3, <1>14, ReadBounds DEF Observe, NotAhead, Job
  <1>15. CASE RefreshRead(p)
    BY <1>1, <1>2, <1>3, <1>15, ReadBounds DEF RefreshRead, NotAhead, Job
  <1>16. CASE LoadFetch(p)
    BY <1>4, <1>5, <1>6, <1>7, <1>8, <1>16 DEF LoadFetch, Loaded, NotStarted, Unavailable
  <1>17. CASE LoadWinner(p)
    BY <1>4, <1>5, <1>6, <1>7, <1>8, <1>17 DEF LoadWinner, Loaded, Unavailable
  <1>18. CASE Discard(p)
    BY <1>4, <1>5, <1>6, <1>7, <1>8, <1>18 DEF Discard, Loaded, NotStarted
  <1>19. CASE RefreshFetch(p)
    BY <1>4, <1>5, <1>6, <1>7, <1>8, <1>19 DEF RefreshFetch
  <1>20. CASE Touch(p)
    BY <1>4, <1>5, <1>6, <1>7, <1>8, <1>20 DEF Touch, Loaded
  <1>21. CASE PublishDoc(p)
    BY <1>4, <1>5, <1>6, <1>7, <1>8, <1>21 DEF PublishDoc, NotPublished
  <1>22. CASE PublishMeta(p)
    BY <1>4, <1>5, <1>6, <1>7, <1>8, <1>22 DEF PublishMeta, Loaded, NotPublished
  <1>23. CASE Confirm(p)
    BY <1>4, <1>5, <1>6, <1>7, <1>8, <1>23 DEF Confirm
  <1>24. CASE Apply(p)
    BY <1>4, <1>5, <1>6, <1>7, <1>8, <1>24 DEF Apply
  <1>25. CASE Restore(p)
    BY <1>4, <1>5, <1>6, <1>7, <1>8, <1>25 DEF Restore
  <1>26. CASE RestoreDoc(p)
    BY <1>4, <1>5, <1>6, <1>7, <1>8, <1>26 DEF RestoreDoc
  <1>27. CASE RestoreMeta(p)
    BY <1>4, <1>5, <1>6, <1>7, <1>8, <1>27 DEF RestoreMeta
  <1>28. CASE Kill(p)
    BY <1>4, <1>5, <1>6, <1>7, <1>8, <1>28 DEF Kill, Ends
  <1>29. CASE Exit(p)
    BY <1>4, <1>5, <1>6, <1>7, <1>8, <1>29 DEF Exit, Ends
  <1>30. CASE Reread(p)
    BY <1>4, <1>5, <1>6, <1>7, <1>8, <1>30 DEF Reread
  <1> QED BY <1>10, <1>11, <1>12, <1>13, <1>14, <1>15, <1>16, <1>17, <1>18, <1>19, <1>20, <1>21, <1>22, <1>23, <1>24, <1>25, <1>26, <1>27, <1>28, <1>29, <1>30 DEF Act, Work

\* Nor what is written to the cache.
LEMMA WrittenBounds ==
  ASSUME CacheInv, NEW p \in Procs, Act(p)
  PROVE  doc' <= published /\ meta'.digest <= published
  <1>1. /\ doc <= published /\ meta.digest <= published
        /\ Body(p) <= published /\ Pre(p).digest <= published
        /\ 0 <= published /\ NoCopy.digest = 0
    BY ReadBounds DEF CacheInv, OrderOk, NotAhead, Body, Pre
  <1>2. \A d, age: [digest |-> d, age |-> age].digest = d
    OBVIOUS
  <1>10. CASE Start(p)
    BY <1>1, <1>2, <1>10 DEF Start, Begin, cacheVars, Done, Down
  <1>11. CASE Poll(p)
    BY <1>1, <1>2, <1>11 DEF Poll, Begin, cacheVars, Done, Down
  <1>12. CASE FetchOrReload(p)
    BY <1>1, <1>2, <1>12 DEF FetchOrReload, Begin, cacheVars, Done, Down
  <1>13. CASE LoadRead(p)
    BY <1>1, <1>2, <1>13 DEF LoadRead, Loaded, Unavailable, cacheVars, Done, Down
  <1>14. CASE Observe(p)
    BY <1>1, <1>2, <1>14 DEF Observe, cacheVars, Done, Down
  <1>15. CASE RefreshRead(p)
    BY <1>1, <1>2, <1>15 DEF RefreshRead, cacheVars, Done, Down
  <1>16. CASE LoadFetch(p)
    BY <1>1, <1>2, <1>16 DEF LoadFetch, Loaded, NotStarted, Unavailable, cacheVars, Done, Down
  <1>17. CASE LoadWinner(p)
    BY <1>1, <1>2, <1>17 DEF LoadWinner, Loaded, Unavailable, cacheVars, Done, Down
  <1>18. CASE Discard(p)
    BY <1>1, <1>2, <1>18 DEF Discard, Loaded, NotStarted, cacheVars, Done, Down
  <1>19. CASE RefreshFetch(p)
    BY <1>1, <1>2, <1>19 DEF RefreshFetch, cacheVars, Done, Down
  <1>20. CASE Touch(p)
    BY <1>1, <1>2, <1>20 DEF Touch, Loaded, cacheVars, Done, Down
  <1>21. CASE PublishDoc(p)
    BY <1>1, <1>2, <1>21 DEF PublishDoc, NotPublished, cacheVars, Done, Down
  <1>22. CASE PublishMeta(p)
    BY <1>1, <1>2, <1>22 DEF PublishMeta, Loaded, NotPublished, cacheVars, Done, Down
  <1>23. CASE Confirm(p)
    BY <1>1, <1>2, <1>23 DEF Confirm, cacheVars, Done, Down
  <1>24. CASE Apply(p)
    BY <1>1, <1>2, <1>24 DEF Apply, cacheVars, Done, Down
  <1>25. CASE Restore(p)
    BY <1>1, <1>2, <1>25 DEF Restore, cacheVars, Done, Down
  <1>26. CASE RestoreDoc(p)
    BY <1>1, <1>2, <1>26 DEF RestoreDoc, cacheVars, Done, Down
  <1>27. CASE RestoreMeta(p)
    BY <1>1, <1>2, <1>27 DEF RestoreMeta, cacheVars, Done, Down
  <1>28. CASE Kill(p)
    BY <1>1, <1>2, <1>28 DEF Kill, Ends, cacheVars, Done, Down
  <1>29. CASE Exit(p)
    BY <1>1, <1>2, <1>29 DEF Exit, Ends, cacheVars, Done, Down
  <1>30. CASE Reread(p)
    BY <1>1, <1>2, <1>30 DEF Reread, cacheVars, Done, Down
  <1> QED BY <1>10, <1>11, <1>12, <1>13, <1>14, <1>15, <1>16, <1>17, <1>18, <1>19, <1>20, <1>21, <1>22, <1>23, <1>24, <1>25, <1>26, <1>27, <1>28, <1>29, <1>30 DEF Act, Work

\* The second write of a pair matches the first, and so does whoever writes one
\* file alone.
LEMMA OwnPair ==
  ASSUME CacheInv, NEW p \in Procs, Act(p), Undisturbed'
  PROVE  /\ ~locked' => doc' \in {0, meta'.digest}
         /\ HalfWritten(p)'
  <1>1. Undisturbed /\ ~Fails
    BY LeftStep DEF CacheInv
  <1>2. HalfWritten(p) /\ (~locked => doc \in {0, meta.digest}) /\ (Writing(p) => locked)
    BY <1>1 DEF CacheInv, PairOk, LockOk
  <1>3. Steps = Steps \cup {"idle", "meta", "redoc", "remeta", "confirm", "reread", "winner", "discard", "touch",
          "apply", "restore", "publish", "fetch", "read", "observe"}
    BY DEF Steps
  <1>4. work \in [Procs -> Job] /\ locked \in BOOLEAN
    BY DEF CacheInv, WorkOk, CacheOk
  <1>5. \A d, age: [digest |-> d, age |-> age].digest = d
    OBVIOUS
  <1>6. NoCopy.digest = 0
    BY ReadBounds
  <1>10. CASE Start(p)
    BY <1>1, <1>2, <1>3, <1>4, <1>5, <1>6, Moves, <1>10 DEF Start, Begin, HalfWritten, At, Body, Pre, Writing, cacheVars, CacheInv, Job, Pair, TouchMatches
  <1>11. CASE Poll(p)
    BY <1>1, <1>2, <1>3, <1>4, <1>5, <1>6, Moves, <1>11 DEF Poll, Begin, HalfWritten, At, Body, Pre, Writing, cacheVars, CacheInv, Job, Pair, TouchMatches
  <1>12. CASE FetchOrReload(p)
    <2>1. ~At(p, "meta")' /\ ~At(p, "redoc")' /\ ~At(p, "remeta")'
      BY <1>12, Moves DEF FetchOrReload, At, CacheInv
    <2>2. UNCHANGED cacheVars
      BY <1>12 DEF FetchOrReload, Begin
    <2> QED BY <1>2, <2>1, <2>2 DEF HalfWritten, cacheVars
  <1>13. CASE LoadRead(p)
    BY <1>1, <1>2, <1>3, <1>4, <1>5, <1>6, Moves, <1>13 DEF LoadRead, Loaded, Unavailable, HalfWritten, At, Body, Pre, Writing, cacheVars, CacheInv, Job, Pair, TouchMatches
  <1>14. CASE Observe(p)
    BY <1>1, <1>2, <1>3, <1>4, <1>5, <1>6, Moves, <1>14 DEF Observe, HalfWritten, At, Body, Pre, Writing, cacheVars, CacheInv, Job, Pair, TouchMatches
  <1>15. CASE RefreshRead(p)
    BY <1>1, <1>2, <1>3, <1>4, <1>5, <1>6, Moves, <1>15 DEF RefreshRead, HalfWritten, At, Body, Pre, Writing, cacheVars, CacheInv, Job, Pair, TouchMatches
  <1>16. CASE LoadFetch(p)
    BY <1>1, <1>2, <1>3, <1>4, <1>5, <1>6, Moves, <1>16 DEF LoadFetch, Loaded, NotStarted, Unavailable, HalfWritten, At, Body, Pre, Writing, cacheVars, CacheInv, Job, Pair, TouchMatches
  <1>17. CASE LoadWinner(p)
    BY <1>1, <1>2, <1>3, <1>4, <1>5, <1>6, Moves, <1>17 DEF LoadWinner, Loaded, Unavailable, HalfWritten, At, Body, Pre, Writing, cacheVars, CacheInv, Job, Pair, TouchMatches
  <1>18. CASE Discard(p)
    BY <1>1, <1>2, <1>3, <1>4, <1>5, <1>6, Moves, <1>18 DEF Discard, Loaded, NotStarted, HalfWritten, At, Body, Pre, Writing, cacheVars, CacheInv, Job, Pair, TouchMatches
  <1>19. CASE RefreshFetch(p)
    BY <1>1, <1>2, <1>3, <1>4, <1>5, <1>6, Moves, <1>19 DEF RefreshFetch, HalfWritten, At, Body, Pre, Writing, cacheVars, CacheInv, Job, Pair, TouchMatches
  <1>20. CASE Touch(p)
    BY <1>1, <1>2, <1>3, <1>4, <1>5, <1>6, Moves, <1>20 DEF Touch, Loaded, HalfWritten, At, Body, Pre, Writing, cacheVars, CacheInv, Job, Pair, TouchMatches
  <1>21. CASE PublishDoc(p)
    BY <1>1, <1>2, <1>3, <1>4, <1>5, <1>6, Moves, <1>21 DEF PublishDoc, NotPublished, HalfWritten, At, Body, Pre, Writing, cacheVars, CacheInv, Job, Pair, TouchMatches
  <1>22. CASE PublishMeta(p)
    BY <1>1, <1>2, <1>3, <1>4, <1>5, <1>6, Moves, <1>22 DEF PublishMeta, Loaded, NotPublished, HalfWritten, At, Body, Pre, Writing, cacheVars, CacheInv, Job, Pair, TouchMatches
  <1>23. CASE Confirm(p)
    BY <1>1, <1>2, <1>3, <1>4, <1>5, <1>6, Moves, <1>23 DEF Confirm, HalfWritten, At, Body, Pre, Writing, cacheVars, CacheInv, Job, Pair, TouchMatches
  <1>24. CASE Apply(p)
    BY <1>1, <1>2, <1>3, <1>4, <1>5, <1>6, Moves, <1>24 DEF Apply, HalfWritten, At, Body, Pre, Writing, cacheVars, CacheInv, Job, Pair, TouchMatches
  <1>25. CASE Restore(p)
    BY <1>1, <1>2, <1>3, <1>4, <1>5, <1>6, Moves, <1>25 DEF Restore, HalfWritten, At, Body, Pre, Writing, cacheVars, CacheInv, Job, Pair, TouchMatches
  <1>26. CASE RestoreDoc(p)
    BY <1>1, <1>2, <1>3, <1>4, <1>5, <1>6, Moves, <1>26 DEF RestoreDoc, HalfWritten, At, Body, Pre, Writing, cacheVars, CacheInv, Job, Pair, TouchMatches
  <1>27. CASE RestoreMeta(p)
    BY <1>1, <1>2, <1>3, <1>4, <1>5, <1>6, Moves, <1>27 DEF RestoreMeta, HalfWritten, At, Body, Pre, Writing, cacheVars, CacheInv, Job, Pair, TouchMatches
  <1>28. CASE Kill(p)
    BY <1>1, <1>2, <1>3, <1>4, <1>5, <1>6, Moves, <1>28 DEF Kill, Ends, HalfWritten, At, Body, Pre, Writing, cacheVars, CacheInv, Job, Pair, TouchMatches
  <1>29. CASE Exit(p)
    BY <1>1, <1>2, <1>3, <1>4, <1>5, <1>6, Moves, <1>29 DEF Exit, Ends, HalfWritten, At, Body, Pre, Writing, cacheVars, CacheInv, Job, Pair, TouchMatches
  <1>30. CASE Reread(p)
    BY <1>1, <1>2, <1>3, <1>4, <1>5, <1>6, Moves, <1>30 DEF Reread, HalfWritten, At, Body, Pre, Writing, cacheVars, CacheInv, Job, Pair, TouchMatches
  <1> QED BY <1>10, <1>11, <1>12, <1>13, <1>14, <1>15, <1>16, <1>17, <1>18, <1>19, <1>20, <1>21, <1>22, <1>23, <1>24, <1>25, <1>26, <1>27, <1>28, <1>29, <1>30 DEF Act, Work

\* A step of a process keeps all of it.
LEMMA ActCache ==
  ASSUME CacheInv, NEW p \in Procs, Act(p)
  PROVE  CacheInv'
  <1>1. IInv'
    <2>1. [Next]_vars
      BY DEF Act, Next
    <2> QED BY <2>1, NextIInv DEF CacheInv
  <1>2. LeftOk' /\ LockOk'
    BY LeftStep, LockStep DEF CacheInv
  <1>3. OrderOk'
    <2>1. \A q \in Procs: q # p => NotAhead(q)'
      BY OthersWork, ActsLeave DEF CacheInv, OrderOk, NotAhead
    <2>2. published' = published
      BY ActsLeave
    <2> QED BY <2>1, <2>2, OwnOrder, WrittenBounds DEF OrderOk
  <1>4. ASSUME Undisturbed'
        PROVE  (~locked => doc \in {0, meta.digest})' /\ \A q \in Procs: HalfWritten(q)'
    <2>1. Undisturbed
      BY <1>4, LeftStep DEF CacheInv
    <2>2. ASSUME NEW q \in Procs, q # p PROVE HalfWritten(q)'
      <3>1. work'[q] = work[q]
        BY <2>2, OthersWork DEF CacheInv
      <3>2. HalfWritten(q)
        BY <2>1 DEF CacheInv, PairOk
      <3>3. Writing(q) => UNCHANGED <<doc, meta>>
        BY <2>2, WritesCache DEF CacheInv, LockOk
      <3>4. ~Writing(q) => HalfWritten(q)'
        BY <3>1 DEF Writing, HalfWritten, At
      <3> QED BY <3>1, <3>2, <3>3, <3>4 DEF HalfWritten, At, Body, Pre
    <2> QED BY <1>4, <2>2, OwnPair
  <1>5. PairOk'
    BY <1>4 DEF PairOk
  <1> QED BY <1>1, <1>2, <1>3, <1>5 DEF CacheInv

\* So do the source, the clock and the host's document: what is published only
\* moves on, and a copy grows old only while nobody writes.
LEMMA WorldCache ==
  ASSUME CacheInv, Publish \/ LocalMoves \/ Age \/ Expire
  PROVE  CacheInv'
  <1>1. IInv'
    BY WorldStep DEF CacheInv
  <1>2. LeftOk' /\ (Undisturbed' => Undisturbed)
    BY DEF Publish, LocalMoves, Age, Expire, Uses, LeftOk, CacheInv, Undisturbed
  <1>3. LockOk'
    BY DEF Publish, LocalMoves, Age, Expire, LockOk, CacheInv, Writing, cacheVars
  <1>4. doc' = doc /\ meta'.digest = meta.digest /\ work' = work /\ locked' = locked
    BY DEF Publish, LocalMoves, Age, Expire, cacheVars, CacheInv, CacheOk, Copy
  <1>5. published \in Nat /\ published' \in Nat /\ published <= published'
    BY DEF Publish, LocalMoves, Age, Expire, CacheInv, SourceOk, Docs
  <1>6. OrderOk'
    BY <1>4, <1>5, ReadBounds DEF OrderOk, NotAhead, CacheInv
  <1>7. PairOk'
    BY <1>2, <1>4 DEF PairOk, HalfWritten, At, Body, Pre, CacheInv
  <1> QED BY <1>1, <1>2, <1>3, <1>6, <1>7 DEF CacheInv

LEMMA CacheStays == CacheInv /\ [Next]_vars => CacheInv'
  <1> SUFFICES ASSUME CacheInv, [Next]_vars PROVE CacheInv'
    OBVIOUS
  <1>1. CASE UNCHANGED vars
    <2>1. IInv'
      BY NextIInv DEF CacheInv
    <2>2. LeftOk' /\ LockOk' /\ OrderOk' /\ PairOk'
      BY <1>1 DEF vars, cacheVars, installVars, CacheInv, LeftOk, LockOk, OrderOk, PairOk, Writing,
                  NotAhead, HalfWritten, At, Body, Pre, Undisturbed
    <2> QED BY <2>1, <2>2 DEF CacheInv
  <1>2. ASSUME NEW p \in Procs, Act(p) PROVE CacheInv'
    BY <1>2, ActCache
  <1> QED BY <1>1, <1>2, WorldCache DEF Next, Act

LEMMA CacheStarts == Init => CacheInv
  <1> SUFFICES ASSUME Init PROVE CacheInv
    OBVIOUS
  <1>1. IInv
    BY InitIInv
  <1>2. \A p \in Procs: /\ work[p].at = "down" /\ work[p].expect = 0 /\ work[p].body = 0
                       /\ work[p].pre = NoCopy
    BY DEF Init, NoJob
  <1>3. NoCopy.digest = 0 /\ published = 1 /\ doc = 0 /\ meta = NoCopy
    BY DEF Init, NoCopy
  <1>4. OrderOk /\ LockOk
    BY <1>2, <1>3 DEF OrderOk, NotAhead, LockOk, Writing
  <1>5. PairOk
    BY <1>2, <1>3 DEF PairOk, HalfWritten, At
  <1>6. LeftOk
    BY RefreshAssumption DEF Init, LeftOk
  <1> QED BY <1>1, <1>4, <1>5, <1>6 DEF CacheInv

\* The cache is written by one process at a time, nothing in it or remembered
\* is ahead of the source, and what a publish compares against is no newer than
\* what it publishes, for any number of processes, documents and failures.
THEOREM CacheInvariant == Spec => []CacheInv
  <1> QED BY CacheStarts, CacheStays, PTL DEF Spec

\* The two files of the cache stay a pair, in every order of the writers, as
\* long as no write fails and nobody is killed between the two.
THEOREM PairNeverTorn == Spec => []CachePaired
  <1>1. CacheInv => CachePaired
    BY DEF CacheInv, PairOk, CachePaired
  <1> QED BY <1>1, CacheInvariant, PTL

\* While nothing fails, no write puts an older document over a newer one that is
\* there: the compare-and-swap finds what was observed before the fetch, and the
\* fetch was answered with what was published no earlier. A rollback that first
\* removes the newer document is not such a write (ChildNotBehind).
THEOREM SwapNeverGoesBack == Spec => NeverReplacedByOlder
  <1>1. CacheInv /\ [Next]_vars => [Undisturbed' /\ doc' # 0 => doc' >= doc \/ doc = 0]_vars
    <2> SUFFICES ASSUME CacheInv, Next, Undisturbed', doc' # 0, doc # 0 PROVE doc' >= doc
      OBVIOUS
    <2>1. doc \in Nat
      BY ReadBounds
    <2>2. CASE doc' = doc
      BY <2>1, <2>2
    <2>3. CASE doc' # doc
      <3>1. PICK p \in Procs: Act(p)
        BY <2>3 DEF Next, Act, Publish, LocalMoves, Age, Expire, cacheVars
      <3>2. Undisturbed /\ ~Fails
        BY <3>1, LeftStep DEF CacheInv
      <3>3. HalfWritten(p) /\ (~locked => doc \in {0, meta.digest})
        BY <3>2 DEF CacheInv, PairOk
      <3>4. PublishDoc(p) \/ RestoreDoc(p)
        BY <2>3, <3>1, <3>2 DEF Act, Work, Start, Poll, FetchOrReload, Begin, LoadRead, Observe, RefreshRead,
          LoadFetch, LoadWinner, Discard, RefreshFetch, Touch, PublishMeta, Reread, Confirm, Apply, Restore,
          RestoreMeta, Kill, Exit, Ends, cacheVars
      <3>5. ~RestoreDoc(p)
        BY <3>3 DEF RestoreDoc, HalfWritten
      <3>6. PublishDoc(p) /\ doc' = work[p].body /\ Pair = work[p].expect /\ ~locked
        BY <2>3, <3>4, <3>5 DEF PublishDoc, SwapMatches, Body
      <3>7. Pair = doc
        BY <3>3, <3>6 DEF Pair
      <3>8. work[p].expect <= work[p].body
        BY <3>6 DEF PublishDoc, At, CacheInv, OrderOk, NotAhead
      <3> QED BY <2>1, <3>6, <3>7, <3>8, ReadBounds
    <2> QED BY <2>2, <2>3
  <1> QED BY <1>1, CacheInvariant, PTL DEF Spec, NeverReplacedByOlder
=============================================================================
