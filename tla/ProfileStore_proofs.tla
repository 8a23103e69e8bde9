------------------------- MODULE ProfileStore_proofs -------------------------
(* Theorems about ProfileStore, for any threads, files, texts and requests.   *)
EXTENDS ProfileStore, Picking_proofs

Asking == {"try", "list", "read", "bump", "commit", "pin"}
Fields == {"at", "request", "print", "pinned", "next", "answer"}

\* What a call may answer covers the snapshot it would look at next, and what
\* its lookups have missed so far; only a loaded store is looked at.
Covered(t) ==
  LET j == work[t] IN
  /\ DOMAIN j = Fields
  /\ j.request \in Requests \cup {Poll} /\ j.next \in Nat \ {0}
  /\ j.at \in Asking => /\ j.next = 1
                        /\ j.request # Poll => Resolve(snap, j.request) \in possible[t]
  /\ j.at = "idle" => j.next = 1
  /\ j.at \in {"bump", "commit", "pin"} => snap.loaded
  /\ j.at \in {"pin", "lookup", "answered"} => j.request # Poll
  /\ j.at = "lookup" => /\ j.pinned.loaded
                        /\ Resolve(j.pinned, j.request) \in possible[t]
                        /\ \A i \in DOMAIN j.request.binds:
                             i < j.next => Bound(j.pinned, j.request.binds[i]) = {}
  /\ j.at = "answered" => j.answer \in possible[t]

\* The snapshot counts as loaded from the first reload on.
LoadedFirst == snap.loaded \in BOOLEAN /\ (~snap.loaded => \A f \in Files: ~snap.profiles[f].present)

CallsInv ==
  /\ DOMAIN work = Threads /\ DOMAIN possible = Threads
  /\ LoadedFirst /\ \A t \in Threads: Covered(t)

ClientInv ==
  /\ DOMAIN work = Threads /\ \A t \in Threads: DOMAIN work[t] = Fields
  /\ client \in [told: BOOLEAN, asking: BOOLEAN, current: BOOLEAN] /\ context \in Int
  /\ Noticed

-----------------------------------------------------------------------------
(* Reading and resolving.                                                    *)

\* The least member of a set of numbers is the one CHOOSE finds.
LEMMA LeastIsChosen ==
  ASSUME NEW S, S \subseteq Nat, NEW i \in S, \A k \in S: i <= k
  PROVE (CHOOSE j \in S: \A k \in S: j <= k) = i
<1> DEFINE c == CHOOSE j \in S: \A k \in S: j <= k
<1>1. c \in S /\ \A k \in S: c <= k
  OBVIOUS
<1>2. c \in Nat /\ i \in Nat /\ c <= i /\ i <= c
  BY <1>1
<1>3. c = i
  <2> HIDE DEF c
  <2> QED BY <1>2
<1> QED BY <1>3

\* A lookup that hits answers what the whole resolution answers, and one that
\* has missed everywhere too.
LEMMA LookupResolves ==
  ASSUME NEW s, NEW r \in Request, s.loaded, NEW i \in Nat \ {0},
         \A j \in DOMAIN r.binds: j < i => Bound(s, r.binds[j]) = {}
  PROVE /\ i > Len(r.binds) => Resolve(s, r) = Unbound(r)
        /\ i <= Len(r.binds) /\ Bound(s, r.binds[i]) # {} => Resolve(s, r) = For(s, r.binds[i])
<1> DEFINE B(j) == Bound(s, r.binds[j])
           n == Len(r.binds)
           hits == {j \in DOMAIN r.binds: B(j) # {}}
           first == CHOOSE j \in hits: \A k \in hits: j <= k
<1>1. DOMAIN r.binds = 1..n /\ n \in Nat
  BY DEF Request
<1>2. Resolve(s, r) = IF hits = {} THEN Unbound(r) ELSE For(s, r.binds[first])
  BY DEF Resolve
<1>3. \A j \in DOMAIN r.binds: j < i => B(j) = {}
  OBVIOUS
<1> HIDE DEF B, n
<1>4. ASSUME i > n PROVE hits = {}
  BY <1>1, <1>3, <1>4
<1>5. ASSUME i <= n, B(i) # {} PROVE hits # {} /\ first = i
  <2>1. i \in hits /\ hits \subseteq Nat
    BY <1>1, <1>5
  <2>2. \A k \in hits: i <= k
    BY <1>1, <1>3
  <2> HIDE DEF hits
  <2> QED BY <2>1, <2>2, LeastIsChosen
<1> QED BY <1>2, <1>4, <1>5 DEF B, n

-----------------------------------------------------------------------------
(* The answers.                                                              *)

\* What a step of one thread leaves alone stays covered.
LEMMA OthersCovered ==
  ASSUME CallsInv, snap' = snap, NEW u \in Threads,
         work'[u] = work[u], possible'[u] = possible[u]
  PROVE Covered(u)'
BY DEF CallsInv, Covered

\* A step of thread t that leaves the snapshot alone keeps the invariant when
\* it keeps t covered.
LEMMA OwnStep ==
  ASSUME CallsInv, snap' = snap, NEW t \in Threads, Covered(t)',
         work' = work \/ \E j: work' = [work EXCEPT ![t] = j],
         possible' = possible \/ \E p: possible' = [possible EXCEPT ![t] = p]
  PROVE CallsInv'
<1>1. \A u \in Threads \ {t}: work'[u] = work[u] /\ possible'[u] = possible[u]
  BY DEF CallsInv
<1>2. \A u \in Threads: Covered(u)'
  BY <1>1, OthersCovered
<1>3. DOMAIN work' = Threads /\ DOMAIN possible' = Threads
  BY DEF CallsInv
<1> QED BY <1>2, <1>3 DEF CallsInv, LoadedFirst

LEMMA InitCalls == Init => CallsInv
BY DEF Init, CallsInv, LoadedFirst, Covered, NoJob, NoSnapshot, NoProfile, Asking, Fields

LEMMA AskCalls == ASSUME CallsInv, NEW t \in Threads, Ask(t) PROVE CallsInv'
<1>1. PICK r \in Requests \cup {Poll}:
        /\ ~(snap.loaded /\ Fingerprint = fingerprint /\ r = Poll)
        /\ possible' = [possible EXCEPT ![t] = IF r = Poll THEN {} ELSE {Resolve(snap, r)}]
        /\ work' = [work EXCEPT ![t] =
             [@ EXCEPT !.request = r,
                       !.at = IF snap.loaded /\ Fingerprint = fingerprint THEN "pin" ELSE "try",
                       !.print = IF snap.loaded /\ ~(Fingerprint = fingerprint)
                                 THEN Fingerprint ELSE NoPrint]]
  BY DEF Ask
<1>2. Covered(t)' /\ snap' = snap
  BY <1>1 DEF Ask, At, CallsInv, Covered, Asking, Fields, storeVars
<1> QED BY <1>1, <1>2, OwnStep

\* Steps that change the thread's own record only.
LEMMA TryCalls == ASSUME CallsInv, NEW t \in Threads, Busy(t) \/ Lock(t) PROVE CallsInv'
<1>1. snap' = snap /\ possible' = possible
  BY DEF Busy, Lock, CallsInv, storeVars, ghosts
<1>2. \E j: work' = [work EXCEPT ![t] = j]
  BY DEF Busy, Lock, Fresh, Answers
<1>3. Covered(t) /\ DOMAIN work = Threads
  BY DEF CallsInv
<1>4. ASSUME At(t, "try"), Fresh(t), snap.loaded \/ work[t].request = Poll PROVE Covered(t)'
  <2>1. CASE work[t].request = Poll
    BY <1>3, <1>4, <2>1 DEF Fresh, NoJob, Covered, Asking, Fields
  <2>2. CASE work[t].request # Poll
    BY <1>1, <1>3, <1>4, <2>2 DEF At, Fresh, Covered, Asking, Fields
  <2> QED BY <2>1, <2>2
<1>5. ASSUME At(t, "try"), Answers(t, Answer("deny")), ~snap.loaded, work[t].request # Poll
      PROVE Covered(t)'
  <2>1. Answer("deny") \in possible[t]
    BY <1>3, <1>5 DEF At, Covered, Asking, Resolve
  <2> QED BY <1>1, <1>3, <1>5, <2>1 DEF At, Answers, Covered, Asking, Fields
<1>6. ASSUME At(t, "try"), NEW p, work' = [work EXCEPT ![t].at = "list", ![t].print = p]
      PROVE Covered(t)'
  BY <1>1, <1>3, <1>6 DEF At, Covered, Asking, Fields
<1>7. Covered(t)'
  BY <1>4, <1>5, <1>6 DEF Busy, Lock
<1> QED BY <1>1, <1>2, <1>7, OwnStep

LEMMA ReloadCalls ==
  ASSUME CallsInv, NEW t \in Threads, List(t) \/ Read(t) \/ Bump(t) \/ Commit(t)
  PROVE CallsInv'
<1>1. snap' = snap /\ possible' = possible
  BY DEF List, Read, Bump, Commit, CallsInv, storeVars, ghosts
<1>2. Covered(t) /\ DOMAIN work = Threads
  BY DEF CallsInv
<1>3. work' = work \/ \E j: work' = [work EXCEPT ![t] = j]
  BY DEF Read, List, Bump, Commit, To, Fresh
<1>4. ASSUME List(t) PROVE Covered(t)'
  BY <1>1, <1>2, <1>4 DEF List, At, To, CallsInv, LoadedFirst, Covered, Asking, Fields
<1>5. ASSUME Read(t) PROVE Covered(t)'
  BY <1>1, <1>2, <1>5 DEF Read, Covered
<1>6. ASSUME Bump(t) PROVE Covered(t)'
  BY <1>1, <1>2, <1>6 DEF Bump, At, To, CallsInv, Covered, Asking, Fields
<1>7. ASSUME Commit(t) PROVE Covered(t)'
  BY <1>1, <1>2, <1>7 DEF Commit, At, Fresh, NoJob, CallsInv, Covered, Asking, Fields
<1> QED BY <1>1, <1>3, <1>4, <1>5, <1>6, <1>7, OwnStep

LEMMA LookCalls ==
  ASSUME CallsInv, NEW t \in Threads, Pin(t) \/ Lookup(t) PROVE CallsInv'
<1>1. snap' = snap /\ possible' = possible
  BY DEF Pin, Lookup, CallsInv, storeVars, ghosts
<1>2. Covered(t) /\ DOMAIN work = Threads /\ Requests \subseteq Request
  BY ProfilesAssumption DEF CallsInv
<1>3. \E j: work' = [work EXCEPT ![t] = j]
  BY DEF Pin, Lookup, Answers
<1>4. ASSUME Pin(t) PROVE Covered(t)'
  <2>1. work[t].request \in Request
    BY <1>2, <1>4 DEF Pin, At, Covered
  <2>2. \A i \in DOMAIN work[t].request.binds: ~(i < 1)
    BY <2>1 DEF Request
  <2> QED BY <1>1, <1>2, <1>4, <2>2 DEF Pin, At, Covered, Asking, Fields
<1>5. ASSUME Lookup(t) PROVE Covered(t)'
  <2> DEFINE j == work[t]
             r == j.request
             i == j.next
  <2>1. /\ j.at = "lookup" /\ r \in Request /\ r # Poll /\ i \in Nat \ {0} /\ j.pinned.loaded
        /\ Resolve(j.pinned, r) \in possible[t]
        /\ \A k \in DOMAIN r.binds: k < i => Bound(j.pinned, r.binds[k]) = {}
    BY <1>2, <1>5 DEF Lookup, At, Covered
  <2>2. /\ i > Len(r.binds) => Resolve(j.pinned, r) = Unbound(r)
        /\ i <= Len(r.binds) /\ Bound(j.pinned, r.binds[i]) # {}
             => Resolve(j.pinned, r) = For(j.pinned, r.binds[i])
    BY <2>1, LookupResolves
  <2>3. CASE Answers(t, Resolve(j.pinned, r))
    BY <1>1, <1>2, <2>1, <2>3 DEF Answers, Covered, Asking, Fields
  <2>4. CASE /\ i <= Len(r.binds) /\ Bound(j.pinned, r.binds[i]) = {}
             /\ work' = [work EXCEPT ![t].next = @ + 1]
    <3>1. /\ work'[t].next = i + 1 /\ DOMAIN work'[t] = Fields /\ work'[t].at = "lookup"
          /\ work'[t].request = r /\ work'[t].pinned = j.pinned /\ possible'[t] = possible[t]
      BY <1>1, <1>2, <2>1, <2>4 DEF Covered, CallsInv, Fields
    <3>2. \A k \in DOMAIN r.binds: k < i + 1 => Bound(j.pinned, r.binds[k]) = {}
      <4>1. \A k \in DOMAIN r.binds: k \in Nat
        BY <2>1 DEF Request
      <4>2. ASSUME NEW k \in DOMAIN r.binds, k < i + 1 PROVE k < i \/ k = i
        <5> HIDE DEF j, r, i
        <5> QED BY <2>1, <4>1, <4>2
      <4> HIDE DEF j, r, i
      <4> QED BY <2>1, <2>4, <4>2
    <3>3. i + 1 \in Nat \ {0} /\ r \in Requests \cup {Poll}
      BY <1>2, <2>1 DEF Covered
    <3> HIDE DEF j, r, i
    <3> QED BY <2>1, <3>1, <3>2, <3>3 DEF Covered, Asking
  <2> QED BY <1>5, <2>2, <2>3, <2>4 DEF Lookup
<1> QED BY <1>1, <1>3, <1>4, <1>5, OwnStep

LEMMA ReturnCalls == ASSUME CallsInv, NEW t \in Threads, Return(t) PROVE CallsInv'
<1>1. /\ snap' = snap /\ possible' = [possible EXCEPT ![t] = {}]
      /\ work' = [work EXCEPT ![t] = NoJob]
  BY DEF Return, storeVars
<1>2. Covered(t)'
  BY <1>1 DEF NoJob, CallsInv, Covered, Asking, Fields
<1> QED BY <1>1, <1>2, OwnStep

LEMMA PublishCalls == ASSUME CallsInv, NEW t \in Threads, Publish(t) PROVE CallsInv'
<1>1. /\ work[t].at = "read" /\ snap' = Published /\ snap'.loaded = TRUE
      /\ work' = [work EXCEPT ![t].at = "bump"] /\ possible' = Seen(snap')
  BY DEF Publish, Published, At, To
<1>2. ASSUME NEW u \in Threads PROVE Covered(u)'
  <2>1. Covered(u) /\ DOMAIN work = Threads
    BY DEF CallsInv
  <2>2. /\ possible[u] \subseteq possible'[u]
        /\ work[u].at # "idle" /\ work[u].request # Poll
             => Resolve(snap', work[u].request) \in possible'[u]
    BY <1>1 DEF Seen
  <2>3. CASE u = t
    BY <1>1, <2>1, <2>2, <2>3 DEF Covered, Asking, Fields
  <2>4. CASE u # t
    <3>1. work'[u] = work[u]
      BY <1>1, <2>1, <2>4
    <3> QED BY <1>1, <2>1, <2>2, <3>1 DEF Covered, Asking
  <2> QED BY <2>3, <2>4
<1>3. DOMAIN work' = Threads /\ DOMAIN possible' = Threads
  BY <1>1 DEF CallsInv, Seen
<1> QED BY <1>1, <1>2, <1>3 DEF CallsInv, LoadedFirst

LEMMA StillCalls ==
  ASSUME CallsInv, UNCHANGED <<snap, work, possible>> PROVE CallsInv'
BY DEF CallsInv, LoadedFirst, Covered

\* Every answer is that of one snapshot of the time the call took.
THEOREM AnswersCovered == Spec => []AnswersOneSnapshot
<1>1. CallsInv => AnswersOneSnapshot
  BY DEF CallsInv, Covered, AnswersOneSnapshot, At
<1>2. CallsInv /\ [Next]_vars => CallsInv'
  <2> SUFFICES ASSUME CallsInv, [Next]_vars PROVE CallsInv'
    OBVIOUS
  <2>1. CASE \E t \in Threads: Ask(t)
    BY <2>1, AskCalls
  <2>2. CASE \E t \in Threads: Work(t)
    BY <2>2, TryCalls, ReloadCalls, LookCalls, ReturnCalls, PublishCalls DEF Work
  <2>3. CASE \E f \in Files: WriteFile(f) \/ Chmod(f) \/ RemoveFile(f)
    BY <2>3, StillCalls DEF WriteFile, Chmod, RemoveFile, Changes, storeVars, ghosts
  <2>4. CASE RemoveDirectory \/ HideDirectory \/ RestoreDirectory
    BY <2>4, StillCalls DEF RemoveDirectory, HideDirectory, RestoreDirectory, Changes, storeVars, ghosts
  <2>5. CASE InstallCeiling \/ MoveGeneration \/ Notice \/ Show
    BY <2>5, StillCalls DEF InstallCeiling, MoveGeneration, Notice, Show, storeVars, ghosts
  <2>6. CASE UNCHANGED vars
    BY <2>6, StillCalls DEF vars, storeVars, ghosts
  <2> QED BY <2>1, <2>2, <2>3, <2>4, <2>5, <2>6 DEF Next
<1> QED BY <1>1, <1>2, InitCalls, PTL DEF Spec

-----------------------------------------------------------------------------
(* The generation.                                                           *)

\* The steps that leave the client alone: none of them takes a thread from its
\* bump.
LEMMA QuietStep ==
  ASSUME ClientInv, client' = client, UNCHANGED ceilVars, DOMAIN work' = Threads,
         \A t \in Threads: DOMAIN work'[t] = Fields /\ (At(t, "bump") => At(t, "bump")')
  PROVE ClientInv'
BY DEF ClientInv, Noticed, ceilVars

\* One thread changes its own record, and was not at its bump.
LEMMA QuietThread ==
  ASSUME ClientInv, client' = client, UNCHANGED ceilVars, NEW t \in Threads, ~At(t, "bump"),
         NEW j, work' = [work EXCEPT ![t] = j], DOMAIN j = Fields
  PROVE ClientInv'
<1>1. DOMAIN work' = Threads /\ \A u \in Threads: work'[u] = IF u = t THEN j ELSE work[u]
  BY DEF ClientInv
<1> QED BY <1>1, QuietStep DEF ClientInv, At

LEMMA QuietCalls ==
  ASSUME ClientInv, NEW t \in Threads,
         Ask(t) \/ Busy(t) \/ Lock(t) \/ List(t) \/ Commit(t) \/ Pin(t) \/ Lookup(t) \/ Return(t)
  PROVE ClientInv'
<1>1. client' = client /\ UNCHANGED ceilVars /\ ~At(t, "bump")
  BY DEF Ask, Busy, Lock, List, Commit, Pin, Lookup, Return, At
<1>2. DOMAIN work[t] = Fields /\ DOMAIN NoJob = Fields
  BY DEF ClientInv, NoJob, Fields
<1>3. ASSUME Fresh(t) \/ (\E a: Answers(t, a)) \/ (\E step: To(t, step))
      PROVE \E j: DOMAIN j = Fields /\ work' = [work EXCEPT ![t] = j]
  BY <1>2, <1>3 DEF Fresh, Answers, To
<1>4. ASSUME Ask(t) \/ Return(t) \/ Pin(t)
      PROVE \E j: DOMAIN j = Fields /\ work' = [work EXCEPT ![t] = j]
  BY <1>2, <1>4 DEF Ask, Return, Pin
<1>5. ASSUME Lookup(t) \/ Lock(t)
      PROVE \E j: DOMAIN j = Fields /\ work' = [work EXCEPT ![t] = j]
  BY <1>2, <1>3, <1>5 DEF Lookup, Lock
<1>6. \E j: DOMAIN j = Fields /\ work' = [work EXCEPT ![t] = j]
  BY <1>3, <1>4, <1>5 DEF Busy, List, Commit
<1> QED BY <1>1, <1>6, QuietThread

LEMMA ToldSteps ==
  ASSUME ClientInv, NEW t \in Threads, Publish(t) \/ Bump(t) PROVE ClientInv'
<1>1. /\ DOMAIN work' = Threads /\ \A u \in Threads: DOMAIN work'[u] = Fields
      /\ Publish(t) => At(t, "bump")'
  BY DEF Publish, Bump, To, At, ClientInv, Fields
<1>2. /\ client' \in [told: BOOLEAN, asking: BOOLEAN, current: BOOLEAN]
      /\ Bump(t) => client'.told
  BY DEF Publish, Bump, ClientInv
<1>3. UNCHANGED ceilVars
  BY DEF Publish, Bump
<1> QED BY <1>1, <1>2, <1>3 DEF ClientInv, Noticed, ceilVars

\* Once the client has seen the last move of the generation, its answer is
\* current.
THEOREM ClientIsTold == Spec => []Noticed
<1>1. Init => ClientInv
  BY DEF Init, ClientInv, Noticed, NoJob, Fields
<1>2. ClientInv /\ [Next]_vars => ClientInv'
  <2> SUFFICES ASSUME ClientInv, [Next]_vars PROVE ClientInv'
    OBVIOUS
  <2>1. CASE \E t \in Threads: Ask(t) \/ Work(t)
    <3>1. CASE \E t \in Threads: Read(t)
      BY <3>1, QuietStep DEF Read, ClientInv, At
    <3> QED BY <2>1, <3>1, QuietCalls, ToldSteps DEF Work
  <2>2. CASE \E f \in Files: WriteFile(f) \/ Chmod(f) \/ RemoveFile(f)
    BY <2>2, QuietStep DEF WriteFile, Chmod, RemoveFile, Changes, ClientInv, At
  <2>3. CASE RemoveDirectory \/ HideDirectory \/ RestoreDirectory
    BY <2>3, QuietStep DEF RemoveDirectory, HideDirectory, RestoreDirectory, Changes, ClientInv, At
  <2>4. CASE InstallCeiling \/ MoveGeneration \/ Notice \/ Show
    <3>1. CASE InstallCeiling
      <4>1. context \in Int /\ context' = context + 1 /\ ceiling' = context
        BY <3>1 DEF InstallCeiling, ClientInv
      <4>2. context' # ceiling' /\ context' \in Int
        BY <4>1
      <4>3. client' \in [told: BOOLEAN, asking: BOOLEAN, current: BOOLEAN] /\ work' = work
        BY <3>1 DEF InstallCeiling, ClientInv
      <4> QED BY <4>2, <4>3 DEF ClientInv, Noticed
    <3>2. CASE MoveGeneration
      BY <3>2 DEF MoveGeneration, ClientInv, Noticed, At
    <3>3. CASE Notice \/ Show
      BY <3>3 DEF Notice, Show, ClientInv, Noticed, At, ceilVars
    <3> QED BY <2>4, <3>1, <3>2, <3>3
  <2>5. CASE UNCHANGED vars
    BY <2>5, QuietStep DEF vars, ClientInv, At
  <2> QED BY <2>1, <2>2, <2>3, <2>4, <2>5 DEF Next
<1>3. ClientInv => Noticed
  BY DEF ClientInv
<1> QED BY <1>1, <1>2, <1>3, PTL DEF Spec

-----------------------------------------------------------------------------
(* The types.                                                                *)

\* Stamps only grow, a file that is there has a text, and a directory that is
\* gone has no files.
DiskInv ==
  /\ \A f \in Files:
       /\ disk[f].stamp <= writes
       /\ Present(f) => disk[f].text # NoText
       /\ directory = "absent" => ~Present(f)
  /\ \A t \in Threads, f \in Files: work[t].print.stamps[f] <= writes

USE ProfilesAssumption

\* A fingerprint is one, and of no later stamp than the last.
LEMMA PrintTyped ==
  ASSUME TypeOK, DiskInv
  PROVE  /\ Fingerprint \in Fingerprints /\ NoPrint \in Fingerprints
         /\ \A f \in Files: Fingerprint.stamps[f] <= writes /\ NoPrint.stamps[f] <= writes
<1>1. /\ directory \in {"there", "absent", "unreadable"} /\ ceiling \in Ceilings
      /\ \A f \in Files: disk[f].stamp \in Stamps
      /\ 0 \in Stamps /\ 0 \in Ceilings /\ writes \in Nat
  BY DEF TypeOK, File, Stamps, Ceilings
<1>2. Fingerprint \in Fingerprints /\ NoPrint \in Fingerprints
  BY <1>1 DEF Fingerprint, Fingerprints, NoPrint
<1>3. \A f \in Files: Fingerprint.stamps[f] <= writes /\ NoPrint.stamps[f] <= writes
  BY <1>1 DEF Fingerprint, NoPrint, DiskInv
<1> QED BY <1>2, <1>3

\* What is read of a file is a profile.
LEMMA LoadedTyped ==
  ASSUME TypeOK, DiskInv, NEW f \in Files, Present(f)
  PROVE  Loaded(f, snap.profiles) \in Profile /\ Loaded(f, snap.profiles).present
<1>1. disk[f].text \in Text /\ disk[f].stamp \in Stamps /\ context \in Ceilings /\ 0 \in Ceilings
  BY DEF TypeOK, DiskInv, File, Stamps, Ceilings
<1>2. snap.profiles[f].bind \in Binds \cup {NoBind}
  BY DEF TypeOK, Snapshot, Profiles, Profile
<1>3. disk[f].text.bind \in Binds \cup {NoBind} /\ disk[f].text.parent \in Files \cup {0}
  BY <1>1 DEF Text
<1>4. \A bind \in Binds \cup {NoBind}: Fallback(bind) \in Profile /\ Fallback(bind).present
  BY <1>1 DEF Fallback, Profile
<1> QED BY <1>1, <1>2, <1>3, <1>4 DEF Loaded, Profile

\* Composition makes profiles of profiles, and leaves one without a parent alone.
LEMMA ComposedTyped ==
  ASSUME context \in Ceilings, NEW profiles \in Profiles
  PROVE  /\ Composed(profiles) \in Profiles
         /\ \A f \in Files: /\ profiles[f].parent = 0 => Composed(profiles)[f] = profiles[f]
                            /\ profiles[f].parent # 0 => Composed(profiles)[f].present
<1> DEFINE One(f) == Composed(profiles)[f]
<1>1. ASSUME NEW f \in Files
      PROVE  /\ One(f) \in Profile
             /\ profiles[f].parent = 0 => One(f) = profiles[f]
             /\ profiles[f].parent # 0 => One(f).present
  <2> DEFINE prof == profiles[f]
             q == profiles[prof.parent]
  <2>1. prof \in Profile /\ 0 \in Ceilings
    BY DEF Profiles, Ceilings
  <2>2. One(f) = IF prof.parent = 0 THEN prof
                 ELSE IF ~q.present \/ q.parent # 0 THEN Fallback(prof.bind)
                 ELSE [bind |-> IF prof.bind # NoBind THEN prof.bind ELSE q.bind,
                       from |-> prof.from \cup q.from,
                       fallback |-> q.fallback, parent |-> 0, present |-> TRUE]
    BY DEF Composed
  <2>3. prof.parent # 0 => q \in Profile
    BY <2>1 DEF Profile, Profiles
  <2>4. Fallback(prof.bind) \in Profile /\ Fallback(prof.bind).present
    BY <2>1 DEF Fallback, Profile
  <2> HIDE DEF prof, q, One
  <2>5. One(f) \in Profile
    BY <2>1, <2>2, <2>3, <2>4 DEF Profile
  <2>6. prof.parent # 0 => One(f).present
    BY <2>2, <2>4
  <2> QED BY <2>2, <2>5, <2>6 DEF prof
<1>2. Composed(profiles) = [f \in Files |-> One(f)]
  BY DEF Composed
<1> HIDE DEF One
<1>3. Composed(profiles) \in Profiles
  BY <1>1, <1>2 DEF Profiles
<1> QED BY <1>1, <1>3 DEF One

\* The last of the files with a bind is one of them, and so is the first bind
\* that has a profile.
LEMMA LastIsOne ==
  ASSUME NEW S \in SUBSET Files, S # {}
  PROVE  LastOf(S) \in S
<1> DEFINE Gaps == {n \in Nat: \E f \in S: n = NumFiles - f}
<1>1. Gaps \in SUBSET Nat /\ Gaps # {}
  <2>1. PICK f \in S: TRUE
    OBVIOUS
  <2>2. NumFiles - f \in Nat
    BY DEF Files
  <2>3. NumFiles - f \in Gaps
    BY <2>2
  <2> QED BY <2>3
<1>2. PICK n \in Gaps: \A k \in Gaps: n <= k
  <2> HIDE DEF Gaps
  <2> QED BY <1>1, Smallest
<1>3. PICK f \in S: n = NumFiles - f
  BY <1>2
<1>4. \A g \in S: g <= f
  <2> SUFFICES ASSUME NEW g \in S PROVE g <= f
    OBVIOUS
  <2>1. NumFiles - g \in Gaps
    BY DEF Files
  <2>2. NumFiles - f <= NumFiles - g
    BY <1>2, <1>3, <2>1
  <2> QED BY <2>2 DEF Files
<1> QED BY <1>4 DEF LastOf

LEMMA ResolveTyped ==
  ASSUME NEW snapshot \in Snapshot, NEW r \in Request
  PROVE  /\ Resolve(snapshot, r) \in AnswerSet /\ Unbound(r) \in AnswerSet
         /\ \A bind: Bound(snapshot, bind) # {} => For(snapshot, bind) \in AnswerSet
<1>1. \A kind \in {"policy", "deny", "pending"}: Answer(kind) \in AnswerSet
  BY DEF Answer, AnswerSet
<1>2. ASSUME NEW bind, Bound(snapshot, bind) # {} PROVE For(snapshot, bind) \in AnswerSet
  <2>1. LastOf(Bound(snapshot, bind)) \in Files
    BY <1>2, LastIsOne DEF Bound
  <2>2. snapshot.profiles[LastOf(Bound(snapshot, bind))] \in Profile
    BY <2>1 DEF Snapshot, Profiles
  <2> QED BY <2>2 DEF For, AnswerSet
<1>3. Unbound(r) \in AnswerSet
  BY <1>1 DEF Unbound
<1>4. Resolve(snapshot, r) \in AnswerSet
  <2> DEFINE hits == {i \in DOMAIN r.binds: Bound(snapshot, r.binds[i]) # {}}
             first == CHOOSE i \in hits: \A j \in hits: i <= j
  <2>1. Resolve(snapshot, r) = IF ~snapshot.loaded THEN Answer("deny")
                        ELSE IF hits = {} THEN Unbound(r) ELSE For(snapshot, r.binds[first])
    BY DEF Resolve
  <2>2. ASSUME hits # {} PROVE first \in hits
    <3>1. hits \in SUBSET Nat
      BY DEF Request
    <3> HIDE DEF hits
    <3>2. \E i \in hits: \A j \in hits: i <= j
      BY <2>2, <3>1, Smallest
    <3> QED BY <3>2
  <2>3. hits # {} => Bound(snapshot, r.binds[first]) # {}
    <3> HIDE DEF first
    <3> QED BY <2>2
  <2> HIDE DEF hits, first
  <2> QED BY <1>1, <1>2, <1>3, <2>1, <2>3
<1> QED BY <1>2, <1>3, <1>4

Places == {"idle", "try", "list", "read", "bump", "commit", "pin", "lookup", "answered"}

\* However a thread goes on, what it carries has its type.
LEMMA JobTyped ==
  ASSUME TypeOK, DiskInv, NEW t \in Threads
  PROVE  /\ \A step \in Places: To(t, step) => work' \in [Threads -> Job]
         /\ Fresh(t) => work' \in [Threads -> Job]
         /\ \A a \in AnswerSet: Answers(t, a) => work' \in [Threads -> Job]
         /\ NoJob \in Job
<1>1. work \in [Threads -> Job] /\ work[t] \in Job
  BY DEF TypeOK
<1>2. NoSnapshot \in Snapshot
  BY DEF NoSnapshot, Snapshot, Profiles, Profile, NoProfile, Ceilings
<1>3. Answer("pending") \in AnswerSet /\ 1 \in Nat \ {0}
  BY DEF Answer, AnswerSet
<1>4. NoJob \in Job
  BY <1>2, <1>3, PrintTyped DEF NoJob, Job
<1>5. ASSUME NEW step \in Places, To(t, step) PROVE work' \in [Threads -> Job]
  <2>1. [work[t] EXCEPT !.at = step] \in Job
    BY <1>1 DEF Job, Places
  <2> QED BY <1>1, <1>5, <2>1 DEF To
<1>6. ASSUME Fresh(t) PROVE work' \in [Threads -> Job]
  <2>1. [work[t] EXCEPT !.at = "pin", !.print = NoPrint] \in Job
    BY <1>1, PrintTyped DEF Job
  <2> QED BY <1>1, <1>4, <1>6, <2>1 DEF Fresh
<1>7. ASSUME NEW a \in AnswerSet, Answers(t, a) PROVE work' \in [Threads -> Job]
  <2>1. [work[t] EXCEPT !.at = "answered", !.pinned = NoSnapshot, !.print = NoPrint,
                        !.answer = a] \in Job
    BY <1>1, <1>2, PrintTyped DEF Job
  <2> QED BY <1>1, <1>7, <2>1 DEF Answers
<1> QED BY <1>4, <1>5, <1>6, <1>7

\* The variables but for what a thread carries and what it may answer.
StoreTypes ==
  /\ directory \in {"there", "absent", "unreadable"}
  /\ disk \in [Files -> File] /\ writes \in Stamps /\ ceiling \in Ceilings /\ context \in Ceilings
  /\ snap \in Snapshot /\ fingerprint \in Fingerprints /\ lock \in Threads \cup {Free}
  /\ draft \in [profiles: Profiles, pending: SUBSET Files]
  /\ client \in [told: BOOLEAN, asking: BOOLEAN, current: BOOLEAN]
  /\ misread \in BOOLEAN
CallTypes == work \in [Threads -> Job] /\ possible \in [Threads -> SUBSET AnswerSet]

LEMMA DraftTyped ==
  /\ NoDraft \in [profiles: Profiles, pending: SUBSET Files]
  /\ \A f \in Files: NoDraft.profiles[f] = NoProfile
  /\ NoProfile.bind = NoBind /\ NoProfile.parent = 0
BY DEF NoDraft, NoSnapshot, Profiles, Profile, NoProfile, Ceilings

\* What a reload publishes is a snapshot.
LEMMA PublishedTyped ==
  ASSUME TypeOK
  PROVE  Published \in Snapshot
BY ComposedTyped DEF Published, Snapshot, TypeOK

\* The calls.
LEMMA CallTypesKept ==
  ASSUME TypeOK, DiskInv, NEW t \in Threads, Ask(t) \/ Work(t)
  PROVE  CallTypes'
<1>1. /\ work \in [Threads -> Job] /\ work[t] \in Job
      /\ possible \in [Threads -> SUBSET AnswerSet] /\ snap \in Snapshot
  BY DEF TypeOK
<1>2. /\ work[t].request \in Requests \cup {Poll} /\ work[t].next \in Nat \ {0}
      /\ work[t].pinned \in Snapshot /\ Requests \subseteq Request
  BY <1>1 DEF Job
<1>3. Poll \in Request
  BY DEF Poll, Request
<1>4. Answer("deny") \in AnswerSet
  BY DEF Answer, AnswerSet
<1>5. CASE Ask(t)
  <2>1. PICK r \in Requests \cup {Poll}:
          /\ possible' = [possible EXCEPT ![t] = IF r = Poll THEN {} ELSE {Resolve(snap, r)}]
          /\ work' = [work EXCEPT ![t] =
               [@ EXCEPT !.request = r,
                         !.at = IF snap.loaded /\ Fingerprint = fingerprint THEN "pin" ELSE "try",
                         !.print = IF snap.loaded /\ ~(Fingerprint = fingerprint)
                                   THEN Fingerprint ELSE NoPrint]]
    BY <1>5 DEF Ask
  <2>2. Resolve(snap, r) \in AnswerSet
    BY <1>1, <1>2, <1>3, ResolveTyped
  <2>3. possible' \in [Threads -> SUBSET AnswerSet]
    BY <1>1, <2>1, <2>2
  <2>4. \A at \in Places, print \in Fingerprints:
          [work[t] EXCEPT !.request = r, !.at = at, !.print = print] \in Job
    BY <1>1 DEF Job, Places
  <2>5. work' \in [Threads -> Job]
    BY <1>1, <2>1, <2>4, PrintTyped DEF Places
  <2> QED BY <2>3, <2>5 DEF CallTypes
<1>6. CASE Busy(t) \/ List(t) \/ Read(t) \/ Bump(t) \/ Commit(t)
  <2>1. UNCHANGED possible
    BY <1>6 DEF Busy, List, Read, Bump, Commit, ghosts
  <2>2. work' \in [Threads -> Job]
    BY <1>1, <1>4, <1>6, JobTyped DEF Busy, List, Read, Bump, Commit, Places
  <2> QED BY <1>1, <2>1, <2>2 DEF CallTypes
<1>7. CASE Lock(t)
  <2>1. UNCHANGED possible
    BY <1>7 DEF Lock
  <2>2. work[t].print \in Fingerprints
    BY <1>1 DEF Job
  <2>3. Fresh(t) \/ \E print \in Fingerprints:
          work' = [work EXCEPT ![t].at = "list", ![t].print = print]
    BY <1>7, <2>2, PrintTyped DEF Lock
  <2>4. \A print \in Fingerprints:
          work' = [work EXCEPT ![t].at = "list", ![t].print = print] => work' \in [Threads -> Job]
    <3>1. \A print \in Fingerprints: [work[t] EXCEPT !.at = "list", !.print = print] \in Job
      BY <1>1 DEF Job
    <3> QED BY <1>1, <3>1
  <2> QED BY <1>1, <2>1, <2>3, <2>4, JobTyped DEF CallTypes
<1>8. CASE Publish(t)
  <2>1. \A u \in Threads: work[u].request \in Requests \cup {Poll}
    BY <1>1 DEF Job
  <2>2. \A u \in Threads: Resolve(Published, work[u].request) \in AnswerSet
    BY <1>2, <1>3, <2>1, PublishedTyped, ResolveTyped
  <2>3. possible' \in [Threads -> SUBSET AnswerSet]
    BY <1>1, <1>8, <2>2 DEF Publish, Seen
  <2>4. work' \in [Threads -> Job]
    BY <1>8, JobTyped DEF Publish, Places
  <2> QED BY <2>3, <2>4 DEF CallTypes
<1>9. CASE Pin(t)
  <2>1. [work[t] EXCEPT !.at = "lookup", !.pinned = snap] \in Job
    BY <1>1 DEF Job
  <2> QED BY <1>1, <1>9, <2>1 DEF Pin, ghosts, CallTypes
<1>10. CASE Lookup(t)
  <2> DEFINE r == work[t].request
             bind == r.binds[work[t].next]
  <2>1. r \in Request
    BY <1>2, <1>3
  <2>2. \/ Answers(t, Unbound(r))
        \/ Bound(work[t].pinned, bind) # {} /\ Answers(t, For(work[t].pinned, bind))
        \/ work' = [work EXCEPT ![t].next = @ + 1]
    BY <1>10 DEF Lookup
  <2>3. [work[t] EXCEPT !.next = @ + 1] \in Job
    BY <1>1, <1>2 DEF Job
  <2>4. work' \in [Threads -> Job]
    BY <1>1, <1>2, <2>1, <2>2, <2>3, JobTyped, ResolveTyped
  <2> QED BY <1>1, <1>10, <2>4 DEF Lookup, ghosts, CallTypes
<1>11. CASE Return(t)
  BY <1>1, <1>11, JobTyped DEF Return, CallTypes
<1> QED BY <1>5, <1>6, <1>7, <1>8, <1>9, <1>10, <1>11 DEF Work

\* The store under a call.
LEMMA StoreTypesKept ==
  ASSUME TypeOK, DiskInv, NEW t \in Threads, Ask(t) \/ Work(t)
  PROVE  StoreTypes'
<1>1. StoreTypes
  BY DEF TypeOK, StoreTypes
<1>2. CASE Ask(t) \/ Busy(t) \/ Pin(t) \/ Lookup(t) \/ Return(t)
  BY <1>1, <1>2 DEF Ask, Busy, Pin, Lookup, Return, dirVars, ceilVars, storeVars, ghosts, StoreTypes
<1>3. CASE Lock(t)
  BY <1>1, <1>3 DEF Lock, dirVars, ceilVars, ghosts, StoreTypes
<1>4. CASE List(t)
  <2>1. draft' \in [profiles: Profiles, pending: SUBSET Files]
    BY <1>1, <1>4, DraftTyped DEF List, StoreTypes
  <2>2. misread' \in BOOLEAN
    BY <1>4 DEF List, Misread
  <2> QED BY <1>1, <1>4, <2>1, <2>2 DEF List, dirVars, ceilVars, StoreTypes
<1>5. CASE Read(t)
  <2>1. PICK f \in draft.pending:
          draft' = [profiles |-> IF Present(f)
                                 THEN [draft.profiles EXCEPT ![f] = Loaded(f, snap.profiles)]
                                 ELSE draft.profiles,
                    pending |-> draft.pending \ {f}]
    BY <1>5 DEF Read
  <2>2. f \in Files /\ draft.profiles \in Profiles /\ draft.pending \subseteq Files
    BY <1>1 DEF StoreTypes
  <2>3. Present(f) => [draft.profiles EXCEPT ![f] = Loaded(f, snap.profiles)] \in Profiles
    BY <2>2, LoadedTyped DEF Profiles
  <2>4. draft' \in [profiles: Profiles, pending: SUBSET Files]
    BY <2>1, <2>2, <2>3
  <2> QED BY <1>1, <1>5, <2>4 DEF Read, dirVars, ceilVars, ghosts, StoreTypes
<1>6. CASE Publish(t)
  <2>1. client' \in [told: BOOLEAN, asking: BOOLEAN, current: BOOLEAN]
    BY <1>1, <1>6 DEF Publish, StoreTypes
  <2> QED BY <1>1, <1>6, <2>1, PublishedTyped DEF Publish, dirVars, ceilVars, StoreTypes
<1>7. CASE Bump(t)
  BY <1>1, <1>7 DEF Bump, dirVars, ceilVars, storeVars, ghosts, StoreTypes
<1>8. CASE Commit(t)
  <2>1. work[t].print \in Fingerprints
    BY DEF TypeOK, Job
  <2> QED BY <1>1, <1>8, <2>1, DraftTyped DEF Commit, dirVars, ceilVars, ghosts, StoreTypes
<1> QED BY <1>2, <1>3, <1>4, <1>5, <1>6, <1>7, <1>8 DEF Work

\* The operator, the ceiling and the client.
Outside ==
  \/ \E f \in Files: WriteFile(f) \/ Chmod(f) \/ RemoveFile(f)
  \/ RemoveDirectory \/ HideDirectory \/ RestoreDirectory
  \/ InstallCeiling \/ MoveGeneration \/ Notice \/ Show

LEMMA OutsideTypes ==
  ASSUME TypeOK, DiskInv, Outside
  PROVE  StoreTypes' /\ CallTypes'
<1>1. StoreTypes /\ CallTypes
  BY DEF TypeOK, StoreTypes, CallTypes
<1>2. Changes => writes' \in Stamps /\ writes' = writes + 1
  BY <1>1 DEF Changes, StoreTypes, Stamps
<1>3. Changes => UNCHANGED <<ceilVars, storeVars, work, client, ghosts>>
  BY DEF Changes
<1>4. NoFile \in File
  BY DEF NoFile, File, Stamps
<1>5. ASSUME NEW f \in Files, WriteFile(f) PROVE StoreTypes' /\ CallTypes'
  <2>1. Changes
    BY <1>5 DEF WriteFile
  <2>2. \A text \in Texts: [text |-> text, readable |-> TRUE, stamp |-> writes + 1] \in File
    BY <1>2, <2>1 DEF File
  <2>3. disk' \in [Files -> File]
    BY <1>1, <1>5, <2>2 DEF WriteFile, StoreTypes
  <2> QED BY <1>1, <1>2, <1>3, <1>5, <2>1, <2>3
             DEF WriteFile, ceilVars, storeVars, ghosts, StoreTypes, CallTypes
<1>6. ASSUME NEW f \in Files, Chmod(f) PROVE StoreTypes' /\ CallTypes'
  <2>1. [disk[f] EXCEPT !.readable = ~@, !.stamp = writes + 1] \in File
    <3>1. disk[f] \in File /\ writes + 1 \in Stamps
      BY <1>1, <1>2, <1>6 DEF Chmod, StoreTypes
    <3> QED BY <3>1 DEF File
  <2>2. disk' \in [Files -> File]
    BY <1>1, <1>6, <2>1 DEF Chmod, StoreTypes
  <2> QED BY <1>1, <1>2, <1>3, <1>6, <2>2 DEF Chmod, ceilVars, storeVars, ghosts, StoreTypes, CallTypes
<1>7. ASSUME NEW f \in Files, RemoveFile(f) PROVE StoreTypes' /\ CallTypes'
  <2>1. disk' \in [Files -> File]
    BY <1>1, <1>4, <1>7 DEF RemoveFile, StoreTypes
  <2> QED BY <1>1, <1>2, <1>3, <1>7, <2>1
             DEF RemoveFile, ceilVars, storeVars, ghosts, StoreTypes, CallTypes
<1>8. CASE RemoveDirectory \/ HideDirectory
  <2>1. disk' \in [Files -> File] /\ directory' \in {"there", "absent", "unreadable"}
    <3>1. CASE RemoveDirectory
      BY <1>1, <1>4, <3>1 DEF RemoveDirectory, StoreTypes
    <3>2. CASE HideDirectory
      BY <1>1, <3>2 DEF HideDirectory, StoreTypes
    <3> QED BY <1>8, <3>1, <3>2
  <2> QED BY <1>1, <1>2, <1>3, <1>8, <2>1
             DEF RemoveDirectory, HideDirectory, ceilVars, storeVars, ghosts, StoreTypes, CallTypes
<1>9. CASE RestoreDirectory
  BY <1>1, <1>9 DEF RestoreDirectory, ceilVars, storeVars, ghosts, StoreTypes, CallTypes
<1>10. CASE InstallCeiling \/ MoveGeneration \/ Notice \/ Show
  <2>1. ceiling' \in Ceilings /\ context' \in Ceilings /\ client' \in [told: BOOLEAN, asking: BOOLEAN, current: BOOLEAN]
    <3>1. CASE InstallCeiling
      <4>1. context' \in Ceilings
        BY <1>1, <3>1 DEF InstallCeiling, StoreTypes, Ceilings
      <4> QED BY <1>1, <3>1, <4>1 DEF InstallCeiling, StoreTypes
    <3>3. CASE MoveGeneration
      BY <1>1, <3>3 DEF MoveGeneration, StoreTypes
    <3>2. CASE Notice \/ Show
      BY <1>1, <3>2 DEF Notice, Show, ceilVars, StoreTypes
    <3> QED BY <1>10, <3>1, <3>2, <3>3
  <2> QED BY <1>1, <1>10, <2>1
             DEF InstallCeiling, MoveGeneration, Notice, Show, dirVars, ceilVars, storeVars, ghosts, StoreTypes, CallTypes
<1> QED BY <1>5, <1>6, <1>7, <1>8, <1>9, <1>10 DEF Outside

-----------------------------------------------------------------------------
(* The binding.                                                              *)

Reloading == {"list", "read", "bump", "commit"}

\* Only the holder of the lock reloads.
LockInv == \A t \in Threads: work[t].at \in Reloading => lock = t

\* Whatever is bound is there.
BoundIsPresent ==
  \A f \in Files: /\ snap.profiles[f].bind # NoBind => snap.profiles[f].present
                  /\ draft.profiles[f].bind # NoBind => draft.profiles[f].present

\* A file that thread t saw as it is now, and that does not say its bind.
Unusable(t, f) ==
  /\ Present(f) /\ work[t].print.stamps[f] = disk[f].stamp
  /\ disk[f].readable => ~disk[f].text.ok /\ disk[f].text.bind = NoBind

\* Once it is read, such a file has the bind it had.
KeptAt(t, f) ==
  At(t, "read") /\ f \notin draft.pending /\ Unusable(t, f) /\ snap.profiles[f].bind # NoBind =>
    draft.profiles[f].parent = 0 /\ draft.profiles[f].bind = snap.profiles[f].bind
KeptInv == \A t \in Threads, f \in Files: KeptAt(t, f)

ProfilesInv == TypeOK /\ DiskInv /\ LockInv /\ BoundIsPresent /\ KeptInv

\* What each step does to the place and the fingerprint of its thread, and of
\* the others.
LEMMA ThreadSteps ==
  ASSUME TypeOK, NEW t \in Threads, Ask(t) \/ Work(t)
  PROVE  /\ \A u \in Threads: u # t => work'[u] = work[u]
         /\ work'[t].print \in {work[t].print, Fingerprint, NoPrint}
         /\ work'[t].at = "read" => work'[t].print = work[t].print
         /\ work'[t].at \in Reloading => \/ Lock(t) /\ lock' = t
                                         \/ work[t].at \in Reloading /\ lock' = lock
<1>1. work \in [Threads -> Job]
  BY DEF TypeOK
<1>2. NoJob.print = NoPrint /\ NoJob.at = "idle"
  BY DEF NoJob
<1>3. Fresh(t) => /\ \A u \in Threads: u # t => work'[u] = work[u]
                  /\ work'[t].print = NoPrint /\ work'[t].at \in {"idle", "pin"}
  BY <1>1, <1>2 DEF Fresh, Job
<1>4. \A a: Answers(t, a) => /\ \A u \in Threads: u # t => work'[u] = work[u]
                             /\ work'[t].print = NoPrint /\ work'[t].at = "answered"
  BY <1>1 DEF Answers, Job
<1>5. \A step: To(t, step) => /\ \A u \in Threads: u # t => work'[u] = work[u]
                              /\ work'[t].print = work[t].print /\ work'[t].at = step
  BY <1>1 DEF To, Job
<1>6. CASE Ask(t)
  <2>1. PICK r: work' = [work EXCEPT ![t] =
          [@ EXCEPT !.request = r,
                    !.at = IF snap.loaded /\ Fingerprint = fingerprint THEN "pin" ELSE "try",
                    !.print = IF snap.loaded /\ ~(Fingerprint = fingerprint)
                              THEN Fingerprint ELSE NoPrint]]
    BY <1>6 DEF Ask
  <2>2. /\ work'[t].at \in {"pin", "try"} /\ work'[t].print \in {Fingerprint, NoPrint}
        /\ \A u \in Threads: u # t => work'[u] = work[u]
    BY <1>1, <2>1 DEF Job
  <2> QED BY <2>2 DEF Reloading
<1>7. CASE Busy(t)
  BY <1>3, <1>4, <1>7 DEF Busy, Reloading
<1>8. CASE Lock(t)
  <2>1. CASE Fresh(t)
    BY <1>3, <2>1 DEF Reloading
  <2>2. CASE /\ lock' = t
             /\ work' = [work EXCEPT ![t].at = "list",
                  ![t].print = IF work[t].print = NoPrint THEN Fingerprint ELSE work[t].print]
    BY <1>1, <1>8, <2>2 DEF Job
  <2> QED BY <1>8, <2>1, <2>2 DEF Lock
<1>9. CASE List(t)
  BY <1>5, <1>9 DEF List, At, Reloading
<1>10. CASE Read(t)
  BY <1>10 DEF Read
<1>11. CASE Publish(t) \/ Bump(t)
  BY <1>5, <1>11 DEF Publish, Bump, At, Reloading, storeVars
<1>12. CASE Commit(t)
  BY <1>3, <1>12 DEF Commit, Reloading
<1>13. CASE Pin(t)
  BY <1>1, <1>13 DEF Pin, Job, Reloading
<1>14. CASE Lookup(t)
  <2>1. CASE \E a: Answers(t, a)
    BY <1>4, <2>1 DEF Reloading
  <2>2. CASE work' = [work EXCEPT ![t].next = @ + 1]
    BY <1>1, <1>14, <2>2 DEF Lookup, At, Job, Reloading
  <2> QED BY <1>14, <2>1, <2>2 DEF Lookup
<1>15. CASE Return(t)
  BY <1>1, <1>2, <1>15 DEF Return, Reloading
<1> QED BY <1>6, <1>7, <1>8, <1>9, <1>10, <1>11, <1>12, <1>13, <1>14, <1>15 DEF Work

LEMMA DiskStep ==
  ASSUME TypeOK, DiskInv, \/ \E t \in Threads: Ask(t) \/ Work(t)
                          \/ Outside
  PROVE  DiskInv'
<1>1. /\ \A f \in Files: disk[f] \in File /\ disk[f].stamp \in Nat
      /\ writes \in Nat /\ \A t \in Threads, f \in Files: work[t].print.stamps[f] \in Nat
  <2>1. \A f \in Files: disk[f] \in File /\ disk[f].stamp \in Nat
    BY DEF TypeOK, File, Stamps
  <2>2. \A t \in Threads: work[t].print \in Fingerprints
    BY DEF TypeOK, Job
  <2>3. \A t \in Threads, f \in Files: work[t].print.stamps[f] \in Nat
    BY <2>2 DEF Fingerprints, Stamps
  <2>4. writes \in Nat
    BY DEF TypeOK, Stamps
  <2> QED BY <2>1, <2>3, <2>4
<1>2. ASSUME NEW t \in Threads, Ask(t) \/ Work(t) PROVE DiskInv'
  <2>1. UNCHANGED dirVars
    BY <1>2 DEF Ask, Work, Busy, Lock, List, Read, Publish, Bump, Commit, Pin, Lookup, Return, dirVars
  <2>2. \A u \in Threads, f \in Files: work'[u].print.stamps[f] <= writes
    <3> SUFFICES ASSUME NEW u \in Threads, NEW f \in Files
                 PROVE  work'[u].print.stamps[f] <= writes
      OBVIOUS
    <3>1. /\ work[u].print.stamps[f] <= writes /\ Fingerprint.stamps[f] <= writes
          /\ NoPrint.stamps[f] <= writes
      BY PrintTyped DEF DiskInv
    <3>2. work'[u].print \in {work[u].print, Fingerprint, NoPrint}
      BY <1>2, ThreadSteps
    <3> QED BY <3>1, <3>2
  <2> QED BY <2>1, <2>2 DEF dirVars, DiskInv, Present
<1>3. Changes => writes' = writes + 1 /\ work' = work
  BY DEF Changes
<1>4. NoFile.stamp = 0
  BY DEF NoFile
<1>5. ASSUME NEW f \in Files, WriteFile(f) PROVE DiskInv'
  <2>1. writes' = writes + 1 /\ work' = work /\ directory' = "there"
    BY <1>3, <1>5 DEF WriteFile, Listed
  <2>2. \A g \in Files: g # f => disk'[g] = disk[g]
    BY <1>5 DEF WriteFile, TypeOK
  <2>3. disk'[f].stamp = writes + 1 /\ disk'[f].text # NoText
    BY <1>5 DEF WriteFile, TypeOK
  <2> QED BY <1>1, <2>1, <2>2, <2>3 DEF DiskInv, Present
<1>6. ASSUME NEW f \in Files, Chmod(f) PROVE DiskInv'
  <2>1. writes' = writes + 1 /\ work' = work /\ directory' = "there" /\ Present(f)
    BY <1>3, <1>6 DEF Chmod, Listed
  <2>2. \A g \in Files: g # f => disk'[g] = disk[g]
    BY <1>6 DEF Chmod, TypeOK
  <2>3. disk'[f].stamp = writes + 1 /\ disk'[f].text = disk[f].text
    BY <1>1, <1>6 DEF Chmod, TypeOK, File
  <2> QED BY <1>1, <2>1, <2>2, <2>3 DEF DiskInv, Present
<1>7. ASSUME NEW f \in Files, RemoveFile(f) PROVE DiskInv'
  <2>1. writes' = writes + 1 /\ work' = work /\ directory' = "there"
    BY <1>3, <1>7 DEF RemoveFile, Listed
  <2>2. \A g \in Files: disk'[g] = IF g = f THEN NoFile ELSE disk[g]
    BY <1>7 DEF RemoveFile, TypeOK
  <2> QED BY <1>1, <1>4, <2>1, <2>2 DEF DiskInv, Present
<1>8. CASE RemoveDirectory
  <2>1. writes' = writes + 1 /\ work' = work /\ \A g \in Files: disk'[g] = NoFile
    BY <1>3, <1>8 DEF RemoveDirectory
  <2> QED BY <1>1, <1>4, <2>1 DEF DiskInv, Present
<1>9. CASE HideDirectory
  <2>1. writes' = writes + 1 /\ work' = work /\ disk' = disk /\ directory' = "unreadable"
    BY <1>3, <1>9 DEF HideDirectory
  <2> QED BY <1>1, <2>1 DEF DiskInv, Present
<1>10. CASE RestoreDirectory \/ InstallCeiling \/ MoveGeneration \/ Notice \/ Show
  <2>1. UNCHANGED <<disk, writes, work>> /\ directory' \in {directory, "there"}
    BY <1>10 DEF RestoreDirectory, InstallCeiling, MoveGeneration, Notice, Show, dirVars
  <2> QED BY <2>1 DEF DiskInv, Present
<1> QED BY <1>2, <1>5, <1>6, <1>7, <1>8, <1>9, <1>10 DEF Outside

LEMMA LockStep ==
  ASSUME TypeOK, LockInv, NEW t \in Threads, Ask(t) \/ Work(t)
  PROVE  LockInv'
<1>1. ASSUME NEW u \in Threads, work'[u].at \in Reloading PROVE lock' = u
  <2>1. CASE u = t
    BY <1>1, <2>1, ThreadSteps DEF LockInv
  <2>2. CASE u # t
    <3>1. lock = u
      BY <1>1, <2>2, ThreadSteps DEF LockInv
    <3>2. lock' = lock
      BY <2>2, <3>1 DEF LockInv, Ask, Work, Busy, Lock, List, Read, Publish, Bump, Commit, Pin,
        Lookup, Return, At, Reloading, storeVars
    <3> QED BY <3>1, <3>2
  <2> QED BY <2>1, <2>2
<1> QED BY <1>1 DEF LockInv

LEMMA BoundStep ==
  ASSUME TypeOK, DiskInv, BoundIsPresent, NEW t \in Threads, Ask(t) \/ Work(t)
  PROVE  BoundIsPresent'
<1>1. draft.profiles \in Profiles /\ snap.profiles \in Profiles /\ context \in Ceilings
      /\ draft.pending \subseteq Files
  BY DEF TypeOK, Snapshot
<1>2. CASE Ask(t) \/ Busy(t) \/ Lock(t) \/ Bump(t) \/ Pin(t) \/ Lookup(t) \/ Return(t)
  BY <1>2 DEF Ask, Busy, Lock, Bump, Pin, Lookup, Return, storeVars, BoundIsPresent
<1>3. CASE List(t) \/ Commit(t)
  <2>1. snap' = snap /\ (draft' = draft \/ draft'.profiles = NoDraft.profiles)
    BY <1>3 DEF List, Commit
  <2> QED BY <2>1, DraftTyped DEF BoundIsPresent
<1>4. CASE Read(t)
  <2> DEFINE Filled(f) == [draft.profiles EXCEPT ![f] = Loaded(f, snap.profiles)]
  <2>0. PICK f \in draft.pending:
          draft' = [profiles |-> IF Present(f) THEN Filled(f) ELSE draft.profiles,
                    pending |-> draft.pending \ {f}]
    BY <1>4 DEF Read
  <2>1. draft'.profiles = IF Present(f) THEN Filled(f) ELSE draft.profiles
    BY <2>0
  <2>2. f \in Files /\ (Present(f) => Loaded(f, snap.profiles).present)
    BY <1>1, LoadedTyped
  <2>3. \A g \in Files: draft'.profiles[g].bind # NoBind => draft'.profiles[g].present
    BY <1>1, <2>1, <2>2 DEF BoundIsPresent, Profiles
  <2> QED BY <1>4, <2>3 DEF Read, BoundIsPresent
<1>5. CASE Publish(t)
  <2>1. snap'.profiles = Composed(draft.profiles) /\ draft' = draft
    BY <1>5 DEF Publish, Published
  <2>2. \A f \in Files: snap'.profiles[f].bind # NoBind => snap'.profiles[f].present
    BY <1>1, <2>1, ComposedTyped DEF BoundIsPresent
  <2> QED BY <2>1, <2>2 DEF BoundIsPresent
<1> QED BY <1>2, <1>3, <1>4, <1>5 DEF Work

\* A change of a file leaves it gone, or with a later stamp.
LEMMA OutsideDisk ==
  ASSUME TypeOK, Outside, NEW f \in Files
  PROVE  disk'[f] = disk[f] \/ disk'[f].stamp = 0 \/ disk'[f].stamp = writes + 1
<1>1. ASSUME NEW g \in Files, WriteFile(g) PROVE disk'[f] = disk[f] \/ disk'[f].stamp = writes + 1
  <2>1. PICK text: disk' = [disk EXCEPT ![g] = [text |-> text, readable |-> TRUE, stamp |-> writes + 1]]
    BY <1>1 DEF WriteFile
  <2> QED BY <2>1 DEF TypeOK
<1>2. ASSUME NEW g \in Files, Chmod(g) PROVE disk'[f] = disk[f] \/ disk'[f].stamp = writes + 1
  <2>1. disk[g] \in File
    BY DEF TypeOK
  <2>2. disk'[g].stamp = writes + 1
    BY <1>2, <2>1 DEF Chmod, TypeOK, File
  <2> QED BY <1>2, <2>2 DEF Chmod, TypeOK
<1>3. ASSUME NEW g \in Files, RemoveFile(g) PROVE disk'[f] = disk[f] \/ disk'[f].stamp = 0
  BY <1>3 DEF RemoveFile, TypeOK, NoFile
<1>4. RemoveDirectory => disk'[f].stamp = 0
  BY DEF RemoveDirectory, NoFile
<1>5. HideDirectory \/ RestoreDirectory \/ InstallCeiling \/ MoveGeneration \/ Notice \/ Show => disk' = disk
  BY DEF HideDirectory, RestoreDirectory, InstallCeiling, MoveGeneration, Notice, Show, dirVars
<1> QED BY <1>1, <1>2, <1>3, <1>4, <1>5 DEF Outside

\* The operator does not make a file that was read another one unseen.
LEMMA OutsideKept ==
  ASSUME TypeOK, DiskInv, KeptInv, Outside
  PROVE  KeptInv'
<1>1. UNCHANGED <<work, snap, draft>>
  BY DEF Outside, WriteFile, Chmod, RemoveFile, RemoveDirectory, HideDirectory, RestoreDirectory,
    InstallCeiling, MoveGeneration, Notice, Show, Changes, storeVars
<1> SUFFICES ASSUME NEW u \in Threads, NEW f \in Files PROVE KeptAt(u, f)'
  BY DEF KeptInv
<1>2. KeptAt(u, f)
  BY DEF KeptInv
<1>3. work[u].print.stamps[f] <= writes /\ writes \in Nat
  BY DEF DiskInv, TypeOK, Stamps
<1>4. Unusable(u, f)' => disk'[f] = disk[f]
  BY <1>1, <1>3, OutsideDisk DEF Unusable, Present
<1>5. Unusable(u, f)' => Unusable(u, f)
  BY <1>1, <1>4 DEF Unusable, Present
<1> QED BY <1>1, <1>2, <1>5 DEF KeptAt, At

\* A file is read as it is: it is bound as before when it does not say its bind.
LEMMA ReadKeeps ==
  ASSUME TypeOK, DiskInv, NEW t \in Threads, NEW f \in Files, Unusable(t, f)
  PROVE  /\ Loaded(f, snap.profiles).parent = 0
         /\ Loaded(f, snap.profiles).bind = snap.profiles[f].bind
<1>1. Loaded(f, snap.profiles) = Fallback(snap.profiles[f].bind)
  BY DEF Loaded, Unusable
<1> QED BY <1>1 DEF Fallback

LEMMA ThreadKept ==
  ASSUME TypeOK, DiskInv, LockInv, BoundIsPresent, KeptInv, NEW t \in Threads, Ask(t) \/ Work(t)
  PROVE  KeptInv'
<1> SUFFICES ASSUME NEW u \in Threads, NEW f \in Files,
                    At(u, "read")', (f \notin draft.pending)', Unusable(u, f)',
                    snap'.profiles[f].bind # NoBind
             PROVE  draft'.profiles[f].parent = 0 /\ draft'.profiles[f].bind = snap'.profiles[f].bind
  BY DEF KeptInv, KeptAt
<1>1. UNCHANGED dirVars
  BY DEF Ask, Work, Busy, Lock, List, Read, Publish, Bump, Commit, Pin, Lookup, Return, dirVars
<1>2. KeptAt(u, f) /\ BoundIsPresent /\ f \in Files
  BY DEF KeptInv
<1>3. CASE u # t
  <2>1. work'[u] = work[u] /\ At(u, "read")
    BY <1>3, ThreadSteps DEF At
  <2>2. lock = u /\ work[t].at \notin Reloading
    BY <1>3, <2>1 DEF LockInv, At, Reloading
  <2>3. UNCHANGED <<snap, draft>>
    BY <2>2 DEF Ask, Work, Busy, Lock, List, Read, Publish, Bump, Commit, Pin, Lookup, Return, At,
      Reloading, storeVars
  <2>4. Unusable(u, f)
    BY <1>1, <2>1 DEF Unusable, Present, dirVars
  <2> QED BY <1>2, <2>1, <2>3, <2>4 DEF KeptAt
<1>4. CASE u = t
  <2>1. work'[t].print = work[t].print
    BY <1>4, ThreadSteps DEF At
  <2>2. Unusable(t, f)
    BY <1>1, <1>4, <2>1 DEF Unusable, Present, dirVars
  <2>3. work'[t].at = "read"
    BY <1>4 DEF At
  <2>4. CASE List(t)
    <3>1. \A step: To(t, step) => work'[t].at = step
      BY DEF To, TypeOK, Job
    <3>2. /\ snap' = snap
          /\ draft'.pending = IF Listed THEN {g \in Files: Present(g)} ELSE {}
          /\ ~(directory = "unreadable" /\ \E g \in Files: snap.profiles[g].present)
      <4>1. ~(directory = "unreadable" /\ \E g \in Files: snap.profiles[g].present)
        BY <2>3, <2>4, <3>1 DEF List
      <4>2. snap' = snap
        BY <2>4 DEF List
      <4>3. draft' = [profiles |-> NoDraft.profiles,
                      pending |-> IF Listed THEN {g \in Files: Present(g)} ELSE {}]
        BY <2>4, <4>1 DEF List
      <4> QED BY <4>1, <4>2, <4>3
    <3>3. snap.profiles[f].present
      BY <3>2 DEF BoundIsPresent
    <3>4. directory # "absent"
      BY <2>2 DEF Unusable, DiskInv
    <3>5. Listed
      BY <3>2, <3>3, <3>4 DEF Listed, TypeOK
    <3> QED BY <2>2, <3>2, <3>5 DEF Unusable
  <2>5. CASE Read(t)
    <3> DEFINE Filled(g) == [draft.profiles EXCEPT ![g] = Loaded(g, snap.profiles)]
    <3>1. PICK g \in draft.pending:
            draft' = [profiles |-> IF Present(g) THEN Filled(g) ELSE draft.profiles,
                      pending |-> draft.pending \ {g}]
      BY <2>5 DEF Read
    <3>2. /\ draft'.profiles = IF Present(g) THEN Filled(g) ELSE draft.profiles
          /\ draft'.pending = draft.pending \ {g} /\ snap' = snap /\ At(t, "read")
      BY <2>5, <3>1 DEF Read
    <3>3. DOMAIN draft.profiles = Files
      BY DEF TypeOK, Profiles
    <3>4. CASE g = f
      <4>1. draft'.profiles[f] = Loaded(f, snap.profiles)
        BY <2>2, <3>2, <3>3, <3>4 DEF Unusable
      <4> QED BY <2>2, <3>2, <4>1, ReadKeeps
    <3>5. CASE g # f
      <4>1. draft'.profiles[f] = draft.profiles[f]
        BY <3>2, <3>3, <3>5
      <4>2. f \notin draft.pending
        BY <3>2, <3>5
      <4> QED BY <1>2, <1>4, <2>2, <3>2, <4>1, <4>2 DEF KeptAt
    <3> QED BY <3>4, <3>5
  <2>6. ~(Ask(t) \/ Busy(t) \/ Lock(t) \/ Publish(t) \/ Bump(t) \/ Commit(t) \/ Pin(t) \/ Lookup(t)
          \/ Return(t))
    <3>1. work \in [Threads -> Job]
      BY DEF TypeOK
    <3>2. \A step: To(t, step) => work'[t].at = step
      BY <3>1 DEF To, Job
    <3>3. Fresh(t) => work'[t].at \in {"idle", "pin"}
      BY <3>1 DEF Fresh, NoJob, Job
    <3>4. \A a: Answers(t, a) => work'[t].at = "answered"
      BY <3>1 DEF Answers, Job
    <3>5. ~Ask(t)
      <4> SUFFICES ASSUME Ask(t) PROVE work'[t].at \in {"pin", "try"}
        BY <2>3
      <4>1. PICK r: work' = [work EXCEPT ![t] =
              [@ EXCEPT !.request = r,
                        !.at = IF snap.loaded /\ Fingerprint = fingerprint THEN "pin" ELSE "try",
                        !.print = IF snap.loaded /\ ~(Fingerprint = fingerprint)
                                  THEN Fingerprint ELSE NoPrint]]
        BY DEF Ask
      <4> QED BY <3>1, <4>1 DEF Job
    <3>6. ~(Busy(t) \/ Publish(t) \/ Bump(t) \/ Commit(t))
      BY <2>3, <3>2, <3>3, <3>4 DEF Busy, Publish, Bump, Commit
    <3>7. ~Lock(t)
      <4>1. \A print: work' = [work EXCEPT ![t].at = "list", ![t].print = print] => work'[t].at = "list"
        BY <3>1 DEF Job
      <4> QED BY <2>3, <3>3, <4>1 DEF Lock
    <3>8. ~(Pin(t) \/ Return(t))
      BY <2>3, <3>1 DEF Pin, Return, NoJob, Job
    <3>9. ~Lookup(t)
      <4>1. At(t, "lookup") /\ work' = [work EXCEPT ![t].next = @ + 1] => work'[t].at = "lookup"
        BY <3>1 DEF At, Job
      <4> QED BY <2>3, <3>4, <4>1 DEF Lookup
    <3> QED BY <3>5, <3>6, <3>7, <3>8, <3>9
  <2> QED BY <2>4, <2>5, <2>6 DEF Work
<1> QED BY <1>3, <1>4

LEMMA ProfilesStart == Init => ProfilesInv
<1> SUFFICES ASSUME Init PROVE ProfilesInv
  OBVIOUS
<1>1. /\ 0 \in Stamps /\ writes \in Stamps /\ 1 \in Ceilings /\ 0 \in Ceilings
      /\ \A f \in Files: f \in Stamps /\ f <= NumFiles
  BY DEF Init, Stamps, Ceilings, Files
<1>2. \A f \in Files: /\ StartTexts[f] \in Text \cup {NoText}
                      /\ disk[f] = IF StartTexts[f] = NoText THEN NoFile
                                   ELSE [text |-> StartTexts[f], readable |-> TRUE, stamp |-> f]
  BY DEF Init
<1>3. disk \in [Files -> File]
  <2>1. NoFile \in File
    BY <1>1 DEF NoFile, File
  <2>2. \A f \in Files: disk[f] \in File
    <3> SUFFICES ASSUME NEW f \in Files PROVE disk[f] \in File
      OBVIOUS
    <3>1. CASE StartTexts[f] = NoText
      BY <1>2, <2>1, <3>1
    <3>2. CASE StartTexts[f] # NoText
      <4>1. disk[f] = [text |-> StartTexts[f], readable |-> TRUE, stamp |-> f]
        BY <1>2, <3>2
      <4> QED BY <1>1, <1>2, <4>1 DEF File
    <3> QED BY <3>1, <3>2
  <2> QED BY <2>2 DEF Init
<1>4. \A f \in Files: disk[f].stamp <= writes /\ (Present(f) => disk[f].text # NoText)
  BY <1>1, <1>2 DEF NoFile, Present, Init
<1>5. NoSnapshot \in Snapshot /\ NoPrint \in Fingerprints /\ \A f \in Files: NoPrint.stamps[f] = 0
  BY <1>1 DEF NoSnapshot, Snapshot, Profiles, Profile, NoProfile, NoPrint, Fingerprints
<1>6. NoJob \in Job /\ NoJob.print = NoPrint /\ NoJob.at = "idle"
  <2>1. Answer("pending") \in AnswerSet /\ 1 \in Nat \ {0}
    BY DEF Answer, AnswerSet
  <2> QED BY <1>5, <2>1 DEF NoJob, Job
<1>7. work \in [Threads -> Job] /\ possible \in [Threads -> SUBSET AnswerSet]
  BY <1>6 DEF Init
<1>8. TypeOK
  BY <1>1, <1>3, <1>5, <1>7, DraftTyped DEF Init, TypeOK
<1>9. DiskInv
  BY <1>4, <1>5, <1>6 DEF Init, DiskInv, Stamps
<1>10. BoundIsPresent
  BY DraftTyped DEF Init, BoundIsPresent, NoSnapshot
<1>11. LockInv /\ KeptInv
  BY <1>6 DEF Init, LockInv, Reloading, KeptInv, KeptAt, At
<1> QED BY <1>8, <1>9, <1>10, <1>11 DEF ProfilesInv

LEMMA ProfilesKept == ProfilesInv /\ [Next]_vars => ProfilesInv'
<1> SUFFICES ASSUME ProfilesInv, [Next]_vars PROVE ProfilesInv'
  OBVIOUS
<1> USE DEF ProfilesInv
<1>1. StoreTypes /\ CallTypes
  BY DEF TypeOK, StoreTypes, CallTypes
<1>2. (StoreTypes /\ CallTypes)' => TypeOK'
  BY DEF TypeOK, StoreTypes, CallTypes
<1>3. ASSUME NEW t \in Threads, Ask(t) \/ Work(t) PROVE ProfilesInv'
  <2>1. TypeOK'
    BY <1>2, <1>3, StoreTypesKept, CallTypesKept
  <2>2. DiskInv'
    BY <1>3, DiskStep
  <2> QED BY <1>3, <2>1, <2>2, LockStep, BoundStep, ThreadKept
<1>4. CASE Outside
  <2>1. UNCHANGED <<work, snap, draft, lock>>
    BY <1>4 DEF Outside, WriteFile, Chmod, RemoveFile, RemoveDirectory, HideDirectory,
      RestoreDirectory, InstallCeiling, MoveGeneration, Notice, Show, Changes, storeVars
  <2>2. LockInv' /\ BoundIsPresent'
    BY <2>1 DEF LockInv, BoundIsPresent
  <2> QED BY <1>2, <1>4, <2>2, OutsideTypes, DiskStep, OutsideKept
<1>5. CASE UNCHANGED vars
  BY <1>5 DEF vars, dirVars, ceilVars, storeVars, ghosts, TypeOK, DiskInv, LockInv, BoundIsPresent, KeptInv,
    KeptAt, Unusable, At, Present
<1> QED BY <1>3, <1>4, <1>5 DEF Next, Outside

\* The invariant of the reloads, for any threads, files and texts: only the
\* holder of the lock reloads, and a file it found as it is now and cannot use
\* has in its draft the bind it had.
THEOREM ReloadsInvariant == Spec => []ProfilesInv
<1> QED BY ProfilesStart, ProfilesKept, PTL DEF Spec

\* Every variable of ProfileStore has its type: an answer is a profile, a
\* refusal or the ceiling alone.
THEOREM ProfilesTypes == Spec => []TypeOK
<1>1. ProfilesInv => TypeOK
  BY DEF ProfilesInv
<1> QED BY <1>1, ReloadsInvariant, PTL

\* A reload that finds a bound profile's file damaged or unreadable leaves the
\* bind where it was, whatever the operator does to the directory meanwhile.
THEOREM BindingKept == Spec => KeepsBinding
<1>1. ProfilesInv /\ [Next]_vars =>
        [\A t \in Threads, f \in Files:
           /\ Publish(t) /\ snap.profiles[f].bind # NoBind
           /\ Present(f) /\ work[t].print.stamps[f] = disk[f].stamp
           /\ disk[f].readable => ~disk[f].text.ok /\ disk[f].text.bind = NoBind
           => snap'.profiles[f].bind = snap.profiles[f].bind]_vars
  <2> SUFFICES ASSUME ProfilesInv, NEW t \in Threads, NEW f \in Files, Publish(t),
                      snap.profiles[f].bind # NoBind, Unusable(t, f)
               PROVE  snap'.profiles[f].bind = snap.profiles[f].bind
    BY DEF Unusable
  <2>1. draft.profiles[f].parent = 0 /\ draft.profiles[f].bind = snap.profiles[f].bind
    BY DEF ProfilesInv, KeptInv, KeptAt, Publish
  <2>2. snap'.profiles = Composed(draft.profiles)
    BY DEF Publish, Published
  <2>3. Composed(draft.profiles)[f] = draft.profiles[f]
    BY <2>1, ComposedTyped DEF ProfilesInv, TypeOK
  <2> QED BY <2>1, <2>2, <2>3
<1> QED BY <1>1, ReloadsInvariant, PTL DEF Spec, KeepsBinding

=============================================================================
