--------------------------- MODULE PolicyRefresh ---------------------------
(* The centrally distributed ceiling (platform/policy_distribution.py). A    *)
(* process loads it at start, from the cache of the host or from the source, *)
(* and a gateway polls the source from then on. The cache is two files, the  *)
(* document and its metadata, written one after the other under a lock that  *)
(* readers do not take; it is what a start during an outage and every        *)
(* cache-only child of a gateway are governed by. Documents are numbered in  *)
(* the order they are published; one and the same source is followed.        *)
EXTENDS Naturals

CONSTANTS
  Procs,
  Gateways,      \* the processes that poll; the others load, then refresh or load
                 \* once more, and end ("policy fetch", gatewayd's app callbacks)
  MaxDoc,        \* documents are 1..MaxDoc
  Unusable,      \* those that do not parse or are not signed as the host demands,
  Barred,        \* those the floor gates refuse as they are published,
  Unfit,         \* and what they refuse once it is composed with the host's own
  Degrade,       \* on_unavailable: fall to the local tier instead of not starting
  MaxFailures,   \* bounds of the exploration: outages, failing writes, late refusals
                 \* and kills,
  MaxAges, MaxLocal, MaxFetches

ASSUME RefreshAssumption ==
  /\ Gateways \subseteq Procs
  /\ MaxDoc \in Nat \ {0} /\ Unusable \subseteq 1..MaxDoc /\ Barred \subseteq 1..MaxDoc
  /\ Unfit \subseteq [doc: 1..MaxDoc, local: 0..MaxLocal]
  /\ Degrade \in BOOLEAN
  /\ MaxFailures \in Nat /\ MaxAges \in Nat /\ MaxLocal \in Nat /\ MaxFetches \in Nat

VARIABLES
  published, \* the document the source serves
  local,     \* the version of the host's own, subordinate document
  doc,       \* the cached document, 0 when there is none
  meta,      \* its metadata: the digest it was written with, and the age
  locked,    \* whether some process has the lock of the cache
  work,      \* work[p]: where p stands in which operation, and what it remembers
  running,   \* running[p]: the ceiling in the context of p
  digest,    \* digest[p]: _installed_body_digest
  fold,      \* fold[p]: last_composed
  left       \* what the bounds still allow

cacheVars == <<doc, meta, locked>>
installVars == <<running, digest, fold>>
vars == <<published, local, cacheVars, work, installVars, left>>

Docs == 1..MaxDoc
Ages == {"fresh", "aged", "old"}   \* within the fetch window, past it, past max_cache_age_secs
Copy == [digest: 0..MaxDoc, age: Ages]
NoCopy == [digest |-> 0, age |-> "fresh"]
Ceiling == [doc: 0..MaxDoc, local: 0..MaxLocal]
NoCeiling == [doc |-> 0, local |-> 0]

Steps == {"down", "idle", "read", "observe", "fetch", "publish", "meta", "reread", "winner",
          "discard", "touch", "confirm", "apply", "restore", "redoc", "remeta"}

\* expect is the digest observed, and pre the copy read, before the fetch; body
\* is the document about to be published and installed.
Job == [at: Steps, op: {"boot", "reload", "refresh", "force"},
        expect: 0..MaxDoc, pre: Copy, body: 0..MaxDoc]
NoJob(step, op) == [at |-> step, op |-> op, expect |-> 0, pre |-> NoCopy, body |-> 0]

TypeOK ==
  /\ published \in Docs /\ local \in 0..MaxLocal
  /\ doc \in 0..MaxDoc /\ meta \in Copy /\ locked \in BOOLEAN
  /\ work \in [Procs -> Job]
  /\ running \in [Procs -> Ceiling] /\ fold \in [Procs -> Ceiling]
  /\ digest \in [Procs -> 0..MaxDoc]

Init ==
  /\ published = 1 /\ local = 0
  /\ doc = 0 /\ meta = NoCopy /\ locked = FALSE
  /\ work = [p \in Procs |-> NoJob("down", "boot")]
  /\ running = [p \in Procs |-> NoCeiling] /\ fold = [p \in Procs |-> NoCeiling]
  /\ digest = [p \in Procs |-> 0]
  /\ left = [failures |-> MaxFailures, ages |-> MaxAges, fetches |-> MaxFetches]

Uses(resource) == left[resource] > 0 /\ left' = [left EXCEPT ![resource] = @ - 1]
Fails == Uses("failures")

At(p, step) == work[p].at = step
To(p, step) == work' = [work EXCEPT ![p].at = step]
Loading(p) == work[p].op \in {"boot", "reload"}
Starting(p) == work[p].op = "boot"
Pre(p) == work[p].pre
Body(p) == work[p].body

\* The operation is over; a fetcher remembers that it had its refresh.
Done(p) == work' = [work EXCEPT ![p] = NoJob("idle", IF p \in Gateways THEN "boot" ELSE @.op)]
Down(p) == work' = [work EXCEPT ![p] = NoJob("down", "boot")]

\* read_cache_meta: metadata without a document is none.
Pair == IF doc = 0 THEN 0 ELSE meta.digest

\* read_cache: what is read is the document the metadata was written with.
Readable == doc # 0 /\ doc = meta.digest
CachedCopy == IF Readable THEN meta ELSE NoCopy

\* parse_distributed_policy, and what is asked of a document before it is
\* published to the cache: that, and validate_ceiling of the document alone.
Parses(d) == d \notin Unusable
Accepted(d) == Parses(d) /\ d \notin Barred

-----------------------------------------------------------------------------
(* What an operation ends with.                                            *)

Composed(d) == [doc |-> d, local |-> local]

\* As if the gates judged the document, and not what it is composed to.
FitsAlone(d) == d \notin Barred

\* The floor gates of a start and of apply_ceiling judge the fold.
Fits(d) == Composed(d) \notin Unfit

\* The load returns document d. A start installs what fits; the ceiling of a
\* reload answers one app callback, but the records of what is installed move too.
Loaded(p, d) ==
  IF Starting(p) /\ ~Fits(d)
    THEN Down(p) /\ UNCHANGED installVars
    ELSE /\ Done(p)
         /\ digest' = [digest EXCEPT ![p] = d]
         /\ fold' = [fold EXCEPT ![p] = Composed(d)]
         /\ running' = [running EXCEPT ![p] = IF Starting(p) THEN Composed(d) ELSE @]

\* Neither the source nor the cache gave a document: _unavailable.
Unavailable(p) ==
  IF Degrade
    THEN /\ Done(p)
         /\ fold' = [fold EXCEPT ![p] = Composed(0)]
         /\ running' = [running EXCEPT ![p] = IF Starting(p) THEN Composed(0) ELSE @]
         /\ UNCHANGED digest
    ELSE (IF Starting(p) THEN Down(p) ELSE Done(p)) /\ UNCHANGED installVars

\* A document that was read and refused never lowers the tier.
NotStarted(p) == (IF Starting(p) THEN Down(p) ELSE Done(p)) /\ UNCHANGED installVars

\* _from_cache_on_outage: a copy that is not too old is better than nothing. The
\* gates are not asked again before it is served.
Salvageable(copy) == copy.digest # 0 /\ copy.age # "old" /\ Parses(copy.digest)

-----------------------------------------------------------------------------
(* The load: load_distributed_policy and _load_by_fetch.                   *)

Begin(p, op) ==
  /\ work' = [work EXCEPT ![p] = NoJob(IF op \in {"boot", "reload"} THEN "read" ELSE "observe", op)]
  /\ UNCHANGED <<published, local, cacheVars, installVars>>

Start(p) ==
  /\ At(p, "down")
  /\ IF p \in Gateways THEN UNCHANGED left ELSE Uses("fetches")
  /\ Begin(p, "boot")

\* A fresh copy is served. Otherwise the load fetches, unless this process did
\* within the window: a start never did.
LoadRead(p) ==
  /\ At(p, "read") /\ Loading(p)
  /\ LET copy == CachedCopy
         fresh == Salvageable(copy) /\ copy.age = "fresh"
     IN \/ fresh /\ Loaded(p, copy.digest)
        \/ /\ ~fresh
           /\ work' = [work EXCEPT ![p].at = "observe", ![p].pre = copy]
           /\ UNCHANGED installVars
        \/ /\ ~fresh /\ ~Starting(p)
           /\ IF Salvageable(copy) THEN Loaded(p, copy.digest) ELSE Unavailable(p)
  /\ UNCHANGED <<published, local, cacheVars, left>>

\* The digest to be found again at the publish is observed before the fetch;
\* a refresh reads the cached copy after it.
Observe(p) ==
  /\ At(p, "observe")
  /\ work' = [work EXCEPT ![p].expect = Pair, ![p].at = IF Loading(p) THEN "fetch" ELSE "read"]
  /\ UNCHANGED <<published, local, cacheVars, installVars, left>>

RefreshRead(p) ==
  /\ At(p, "read") /\ ~Loading(p)
  /\ work' = [work EXCEPT ![p].pre = CachedCopy, ![p].at = "fetch"]
  /\ UNCHANGED <<published, local, cacheVars, installVars, left>>

\* The source answers 304 when the validators are those of its document.
NotModified(p) == work[p].op # "force" /\ Pre(p).digest = published

Gets(p, step) == work' = [work EXCEPT ![p].body = published, ![p].at = step]

LoadFetch(p) ==
  /\ At(p, "fetch") /\ Loading(p)
  /\ \/ /\ Accepted(published)
        /\ Gets(p, IF NotModified(p) THEN "touch" ELSE "publish")
        /\ UNCHANGED <<installVars, left>>
     \/ /\ ~Accepted(published)
        /\ IF Salvageable(Pre(p)) THEN Loaded(p, Pre(p).digest) ELSE NotStarted(p)
        /\ UNCHANGED left
     \/ /\ Fails
        /\ IF Salvageable(Pre(p)) THEN Loaded(p, Pre(p).digest) ELSE Unavailable(p)
  /\ UNCHANGED <<published, local, cacheVars>>

\* The winner of a lost swap passes the same gates, and is not written again.
LoadWinner(p) ==
  /\ At(p, "winner")
  /\ LET copy == CachedCopy IN
       IF copy.digest = 0 THEN To(p, "discard") /\ UNCHANGED installVars
       ELSE IF Accepted(copy.digest) THEN Loaded(p, copy.digest)
       ELSE Unavailable(p)
  /\ UNCHANGED <<published, local, cacheVars, left>>

\* _discard_disagreeing_cache: what could not be replaced is removed, and where
\* it cannot be removed the process does not start.
Discard(p) ==
  /\ At(p, "discard")
  /\ LET disagrees == Pair \notin {0, Body(p)} IN
       /\ disagrees => ~locked
       /\ \/ /\ IF disagrees THEN doc' = 0 /\ meta' = NoCopy ELSE UNCHANGED <<doc, meta>>
             /\ Loaded(p, Body(p))
             /\ UNCHANGED left
          \/ disagrees /\ Fails /\ NotStarted(p) /\ UNCHANGED <<doc, meta>>
  /\ UNCHANGED <<published, local, locked>>

-----------------------------------------------------------------------------
(* The refresh: refresh_now.                                               *)

\* The timer of a gateway, and what another process does once it has loaded.
Poll(p) == p \in Gateways /\ At(p, "idle") /\ Begin(p, "refresh") /\ UNCHANGED left

FetchOrReload(p) ==
  /\ p \notin Gateways /\ At(p, "idle") /\ Starting(p)
  /\ \E op \in {"refresh", "force", "reload"}: Begin(p, op)
  /\ UNCHANGED left

\* As if an unchanged document left the ladder as it is.
RefoldNot(p, d) == UNCHANGED <<running, fold>>

\* _recompose_differs looks at the fold on record; what differs is installed.
Moved(p, d) == Composed(d) # fold[p]
Refold(p, d) ==
  IF Moved(p, d)
    THEN /\ running' = [running EXCEPT ![p] = Composed(d)]
         /\ fold' = [fold EXCEPT ![p] = Composed(d)]
    ELSE UNCHANGED <<running, fold>>

\* A 304 for the document on record folds the ladder again and touches the
\* cache; for another one, that of the cache is adopted. Where the gates refuse
\* a document, now or for what has moved since it was published, the refresh goes
\* on as if it had published it.
RefreshFetch(p) ==
  /\ At(p, "fetch") /\ ~Loading(p)
  /\ LET confirms == NotModified(p) /\ digest[p] = published
         refolds == Moved(p, published) => Fits(published)
     IN \/ /\ ~confirms /\ Parses(published)
           /\ \/ Accepted(published) /\ Gets(p, "publish") /\ UNCHANGED left
              \/ ~Accepted(published) /\ Gets(p, "restore") /\ UNCHANGED left
              \/ Fails /\ Gets(p, "restore")
           /\ UNCHANGED installVars
        \/ /\ confirms /\ Parses(published) /\ refolds
           /\ Refold(p, published)
           /\ Gets(p, "touch")
           /\ UNCHANGED <<digest, left>>
        \/ /\ ~Parses(published) \/ (confirms /\ ~refolds)
           /\ Done(p) /\ UNCHANGED <<installVars, left>>
        \/ Fails /\ Done(p) /\ UNCHANGED installVars
  /\ UNCHANGED <<published, local, cacheVars>>

-----------------------------------------------------------------------------
(* The cache, written under its lock by both.                              *)

\* As if the metadata were written whatever it describes by now.
TouchAnyway(p) == TRUE

\* touch_cache: the age restarts, unless the metadata describes another
\* document by now.
TouchMatches(p) == Pair \in {0, Pre(p).digest}

Touch(p) ==
  /\ At(p, "touch") /\ ~locked
  /\ \/ /\ meta' = IF TouchMatches(p) THEN [digest |-> Pre(p).digest, age |-> "fresh"] ELSE meta
        /\ UNCHANGED left
     \/ Fails /\ UNCHANGED meta
  /\ IF Loading(p) THEN Loaded(p, Body(p)) ELSE Done(p) /\ UNCHANGED installVars
  /\ UNCHANGED <<published, local, doc, locked>>

\* As if a document were published without the comparison.
SwapAnyway(p) == TRUE

\* The compare-and-swap finds what was observed before the fetch.
SwapMatches(p) == Pair = work[p].expect

\* Where write_cache returns False: a refresh stands down or is rejected. A load
\* reads the pair again, when the lock is another's: it adopts what has moved the
\* cache, or removes what it could not replace.
NotPublished(p) == IF Loading(p) THEN To(p, "reread") ELSE Done(p)

Reread(p) ==
  /\ At(p, "reread")
  /\ To(p, IF Pair # work[p].expect THEN "winner" ELSE "discard")
  /\ UNCHANGED <<published, local, cacheVars, installVars, left>>

PublishDoc(p) ==
  /\ At(p, "publish") /\ ~locked
  /\ \/ SwapMatches(p) /\ doc' = Body(p) /\ locked' = TRUE /\ To(p, "meta") /\ UNCHANGED left
     \/ ~SwapMatches(p) /\ NotPublished(p) /\ UNCHANGED <<doc, locked, left>>
     \/ Fails /\ NotPublished(p) /\ UNCHANGED <<doc, locked>>
  /\ UNCHANGED <<published, local, meta, installVars>>

PublishMeta(p) ==
  /\ At(p, "meta")
  /\ locked' = FALSE
  /\ \/ /\ meta' = [digest |-> Body(p), age |-> "fresh"]
        /\ IF Loading(p) THEN Loaded(p, Body(p)) ELSE To(p, "confirm") /\ UNCHANGED installVars
        /\ UNCHANGED left
     \/ Fails /\ NotPublished(p) /\ UNCHANGED <<meta, installVars>>
  /\ UNCHANGED <<published, local, doc>>

\* The publish is read back before the document is installed.
Confirm(p) ==
  /\ At(p, "confirm")
  /\ To(p, IF CachedCopy.digest = Body(p) THEN "apply" ELSE "restore")
  /\ UNCHANGED <<published, local, cacheVars, installVars, left>>

\* apply_ceiling composes, validates what will govern, and installs it.
Apply(p) ==
  /\ At(p, "apply")
  /\ \/ /\ Fits(Body(p))
        /\ Done(p)
        /\ running' = [running EXCEPT ![p] = Composed(Body(p))]
        /\ fold' = [fold EXCEPT ![p] = Composed(Body(p))]
        /\ digest' = [digest EXCEPT ![p] = Body(p)]
        /\ UNCHANGED left
     \/ ~Fits(Body(p)) /\ To(p, "restore") /\ UNCHANGED <<installVars, left>>
     \/ Fails /\ To(p, "restore") /\ UNCHANGED installVars
  /\ UNCHANGED <<published, local, cacheVars>>

\* _restore_cache: a pair like the one this refresh publishes, whoever put it
\* there, is deleted first, and the copy of before the fetch is put back with its
\* age, if there was one.
Restore(p) ==
  /\ At(p, "restore") /\ ~locked
  /\ \/ Pair # Body(p) /\ Done(p) /\ UNCHANGED <<doc, meta, locked, left>>
     \/ /\ Pair = Body(p)
        /\ doc' = 0 /\ meta' = NoCopy
        /\ IF Pre(p).digest # 0 THEN locked' = TRUE /\ To(p, "redoc") ELSE UNCHANGED locked /\ Done(p)
        /\ UNCHANGED left
     \/ Fails /\ Done(p) /\ UNCHANGED <<doc, meta, locked>>
  /\ UNCHANGED <<published, local, installVars>>

RestoreDoc(p) ==
  /\ At(p, "redoc")
  /\ \/ doc' = Pre(p).digest /\ To(p, "remeta") /\ UNCHANGED <<locked, left>>
     \/ Fails /\ locked' = FALSE /\ Done(p) /\ UNCHANGED doc
  /\ UNCHANGED <<published, local, meta, installVars>>

RestoreMeta(p) ==
  /\ At(p, "remeta")
  /\ locked' = FALSE
  /\ Done(p)
  /\ (meta' = Pre(p) /\ UNCHANGED left) \/ (Fails /\ UNCHANGED meta)
  /\ UNCHANGED <<published, local, doc, installVars>>

-----------------------------------------------------------------------------
(* The source, the clock, the host's own document, and the end of a process. *)

Publish ==
  /\ published < MaxDoc
  /\ published' = published + 1
  /\ UNCHANGED <<local, cacheVars, work, installVars, left>>

LocalMoves ==
  /\ local < MaxLocal
  /\ local' = local + 1
  /\ UNCHANGED <<published, cacheVars, work, installVars, left>>

Age ==
  /\ Readable /\ ~locked /\ meta.age = "fresh"
  /\ meta' = [meta EXCEPT !.age = "aged"]
  /\ UNCHANGED <<published, local, doc, locked, work, installVars, left>>

Expire ==
  /\ Readable /\ ~locked /\ meta.age = "aged"
  /\ Uses("ages")
  /\ meta' = [meta EXCEPT !.age = "old"]
  /\ UNCHANGED <<published, local, doc, locked, work, installVars>>

Ends(p) ==
  /\ Down(p)
  /\ running' = [running EXCEPT ![p] = NoCeiling]
  /\ fold' = [fold EXCEPT ![p] = NoCeiling]
  /\ digest' = [digest EXCEPT ![p] = 0]
  /\ locked' = IF work[p].at \in {"meta", "redoc", "remeta"} THEN FALSE ELSE locked
  /\ UNCHANGED <<published, local, doc, meta>>

Kill(p) == ~At(p, "down") /\ Fails /\ Ends(p)

\* The process of a "policy fetch" ends after its refresh.
Exit(p) == p \notin Gateways /\ At(p, "idle") /\ ~Starting(p) /\ Ends(p) /\ UNCHANGED left

Work(p) ==
  \/ LoadRead(p) \/ Observe(p) \/ RefreshRead(p) \/ LoadFetch(p) \/ LoadWinner(p) \/ Discard(p)
  \/ RefreshFetch(p) \/ Touch(p) \/ PublishDoc(p) \/ PublishMeta(p) \/ Reread(p) \/ Confirm(p)
  \/ Apply(p) \/ Restore(p) \/ RestoreDoc(p) \/ RestoreMeta(p)

Next ==
  \/ \E p \in Procs: Start(p) \/ Poll(p) \/ FetchOrReload(p) \/ Work(p) \/ Kill(p) \/ Exit(p)
  \/ Publish \/ LocalMoves \/ Age \/ Expire

Spec == Init /\ [][Next]_vars

\* A step that began goes on, a gateway is started again and polls; the lock of
\* the cache does not pass one process by for ever; a copy does not stay fresh.
FairSpec ==
  /\ Spec /\ WF_vars(Age)
  /\ \A p \in Procs: SF_vars(Work(p)) /\ WF_vars(Exit(p))
  /\ \A p \in Gateways: WF_vars(Start(p)) /\ WF_vars(Poll(p))

-----------------------------------------------------------------------------
(* Properties.                                                             *)

\* A cache-only child adopts what the cache holds: a document that is not older
\* than the one its gateway enforces (refresh_now publishes before it installs,
\* and _restore_cache leaves what another process has put there).
ChildNotBehind == \A p \in Gateways: Readable => doc >= running[p].doc

Undisturbed == left.failures = MaxFailures

\* As long as nothing fails, no order of slow fetches, starts, polls, callbacks
\* and adoptions puts an older document in the place of a newer one (the
\* compare-and-swap of write_cache).
NeverReplacedByOlder == [][Undisturbed' /\ doc' # 0 => doc' >= doc \/ doc = 0]_vars

\* A document that does not parse, or that the gates refuse as it is published, is
\* never the last-known-good of the next start; and whatever is served from the
\* cache behind the parse alone, put back, or folded again over another local
\* document, no process is governed by what it would refuse to start under.
RefusedNeverServed ==
  /\ Readable => Accepted(doc)
  /\ \A p \in Procs: /\ running[p].doc \notin Unusable \cup Barred
                     /\ running[p] \notin Unfit

\* As long as nothing fails, no order of two writers leaves
\* a document beside the metadata of another (write_cache, touch_cache).
CachePaired == Undisturbed /\ ~locked => doc \in {0, meta.digest}

\* A gateway ends up under the published document and the host's own, whatever
\* was missed, lost, refused or rolled back on the way.
Follows ==
  <>[](Accepted(published) /\ Fits(published) =>
         \A p \in Gateways: running[p] = Composed(published))
=============================================================================
