---------------------------- MODULE ProfileStore ----------------------------
(* The profiles a call is governed by (platform/governance_profiles.py). The *)
(* files of one directory are read into an immutable snapshot, which every    *)
(* thread of the gateway looks at without a lock; whoever finds that the      *)
(* directory or the ceiling has another fingerprint reloads it, unless some   *)
(* other thread already does: nobody ever waits. Files are written, damaged   *)
(* and removed by the operator at any time. A client shows an answer derived  *)
(* from the snapshot and asks again when the generation has moved.            *)
EXTENDS Integers, Sequences

CONSTANTS
  Threads,
  Pollers,     \* those that ask again and again (poll_profiles_fresh)
  NumFiles,    \* profile files, numbered in the order of their names
  Binds,       \* surfaces, apps and tasks a profile can be bound to
  Texts,       \* what the operator may write in a file,
  StartTexts,  \* and what the files hold at the start
  Requests,    \* what may be resolved: the binds in their precedence, and
               \* whether it is unattended and of unproven identity
  MaxWrites, MaxCeilings,   \* bounds of the exploration
  NoBind, NoText, Free

Files == 1..NumFiles
Text == [ok: BOOLEAN, bind: Binds \cup {NoBind}, parent: Files \cup {0}]
Request == [binds: Seq(Binds), contained: BOOLEAN]

ASSUME ProfilesAssumption ==
  /\ NumFiles \in Nat /\ StartTexts \in [Files -> Text \cup {NoText}] /\ Pollers \subseteq Threads
  /\ Texts \subseteq Text /\ Requests \subseteq Request /\ Requests # {}
  /\ MaxWrites \in Nat /\ MaxCeilings \in Nat \ {0}
  /\ NoBind \notin Binds /\ NoText \notin Text /\ Free \notin Threads

VARIABLES
  directory,   \* "there", "absent" or "unreadable"
  disk,        \* disk[f]: what the file holds, whether it can be read, its stamp
  writes,      \* the changes so far: the stamp of the last one
  ceiling,     \* the generation of the ceiling
  context,     \* the ceiling that is installed, which its generation follows
  snap,        \* _snap
  fingerprint, \* _fingerprint
  lock,        \* _lock
  draft,       \* by_name of the reload under way, and the files not read yet
  work,        \* work[t]: where t stands, and what it carries
  client,      \* what the client knows of its answer
  possible,    \* possible[t]: what one snapshot of the time t took would answer
  misread      \* whether the last reload listed other files than its fingerprint

dirVars == <<directory, disk, writes>>
storeVars == <<snap, fingerprint, lock, draft>>
ghosts == <<possible, misread>>
ceilVars == <<ceiling, context>>
vars == <<dirVars, ceilVars, storeVars, work, client, ghosts>>

Stamps == 0..(NumFiles + MaxWrites)
Ceilings == 0..MaxCeilings
File == [text: Text \cup {NoText}, readable: BOOLEAN, stamp: Stamps]
NoFile == [text |-> NoText, readable |-> TRUE, stamp |-> 0]

\* A profile: its bind, the files whose controls it combines, and the ceiling
\* whose fallback replaces or narrows it (0: none).
Profile == [bind: Binds \cup {NoBind}, from: SUBSET Stamps, fallback: Ceilings,
            parent: Files \cup {0}, present: BOOLEAN]
NoProfile == [bind |-> NoBind, from |-> {}, fallback |-> 0, parent |-> 0, present |-> FALSE]
Fallback(bind) == [bind |-> bind, from |-> {}, fallback |-> context, parent |-> 0, present |-> TRUE]

Profiles == [Files -> Profile]
Snapshot == [loaded: BOOLEAN, profiles: Profiles]
Fingerprints == [directory: {"there", "absent", "unreadable", "never"},
                 stamps: [Files -> Stamps], ceiling: Ceilings]
NoPrint == [directory |-> "never", stamps |-> [f \in Files |-> 0], ceiling |-> 0]

\* "policy" is the answer None: the ceiling alone governs.
AnswerSet == [kind: {"profile"}, profile: Profile]
           \cup [kind: {"policy", "deny", "pending"}, profile: {NoProfile}]
Answer(kind) == [kind |-> kind, profile |-> NoProfile]

Poll == [binds |-> <<>>, contained |-> FALSE]
NoSnapshot == [loaded |-> FALSE, profiles |-> [f \in Files |-> NoProfile]]
NoDraft == [profiles |-> NoSnapshot.profiles, pending |-> {}]
Job == [at: {"idle", "try", "list", "read", "bump", "commit", "pin", "lookup", "answered"},
        request: Requests \cup {Poll}, print: Fingerprints, pinned: Snapshot, next: Nat \ {0},
        answer: AnswerSet]
NoJob == [at |-> "idle", request |-> Poll, print |-> NoPrint, pinned |-> NoSnapshot, next |-> 1,
          answer |-> Answer("pending")]

TypeOK ==
  /\ directory \in {"there", "absent", "unreadable"}
  /\ disk \in [Files -> File] /\ writes \in Stamps /\ ceiling \in Ceilings /\ context \in Ceilings
  /\ snap \in Snapshot /\ fingerprint \in Fingerprints /\ lock \in Threads \cup {Free}
  /\ draft \in [profiles: Profiles, pending: SUBSET Files]
  /\ work \in [Threads -> Job]
  /\ client \in [told: BOOLEAN, asking: BOOLEAN, current: BOOLEAN]
  /\ possible \in [Threads -> SUBSET AnswerSet] /\ misread \in BOOLEAN

-----------------------------------------------------------------------------
(* Reading the directory.                                                    *)

Present(f) == disk[f].stamp # 0
Listed == directory = "there"

\* _dir_fingerprint with _ceiling_token.
Fingerprint ==
  [directory |-> directory, ceiling |-> ceiling,
   stamps |-> [f \in Files |-> IF Listed THEN disk[f].stamp ELSE 0]]

\* The names a fingerprint has, and whether they could be listed.
Listing(print) == [directory |-> print.directory, files |-> {f \in Files: print.stamps[f] # 0}]
Misread(print) == Listing(Fingerprint) # Listing(print)

\* As if a file that cannot be used lost its bind.
LoadedUnbound(f, prior) ==
  IF Listed /\ disk[f].readable /\ disk[f].text.ok
  THEN [bind |-> disk[f].text.bind, from |-> {disk[f].stamp}, fallback |-> 0,
        parent |-> disk[f].text.parent, present |-> TRUE]
  ELSE Fallback(NoBind)

\* One file of the first pass. A file that cannot be used is replaced by the
\* fallback, bound as its text says or else as it was bound before.
Loaded(f, prior) ==
  LET text == disk[f].text
      readable == Listed /\ disk[f].readable
  IN IF readable /\ text.ok
     THEN [bind |-> text.bind, from |-> {disk[f].stamp}, fallback |-> 0,
           parent |-> text.parent, present |-> TRUE]
     ELSE Fallback(IF readable /\ text.bind # NoBind THEN text.bind ELSE prior[f].bind)

\* The second pass: a profile is narrowed by its parent, and replaced by the
\* fallback when that is missing or has a parent itself.
Composed(profiles) ==
  [f \in Files |->
     LET p == profiles[f]
         q == profiles[p.parent]
     IN IF p.parent = 0 THEN p
        ELSE IF ~q.present \/ q.parent # 0 THEN Fallback(p.bind)
        ELSE [bind |-> IF p.bind # NoBind THEN p.bind ELSE q.bind, from |-> p.from \cup q.from,
              fallback |-> q.fallback, parent |-> 0, present |-> TRUE]]

\* What a reload would publish if nothing moved meanwhile.
Reloaded ==
  [loaded |-> TRUE, profiles |->
     Composed([f \in Files |-> IF Present(f) THEN Loaded(f, snap.profiles) ELSE NoProfile])]

-----------------------------------------------------------------------------
(* Resolving a request in one snapshot.                                      *)

Bound(s, bind) == {f \in Files: s.profiles[f].bind = bind}
LastOf(S) == CHOOSE f \in S: \A g \in S: g <= f
For(s, bind) == [kind |-> "profile", profile |-> s.profiles[LastOf(Bound(s, bind))]]

Unbound(r) == Answer(IF r.contained THEN "deny" ELSE "policy")

\* The first of the binds that has a profile decides.
Resolve(s, r) ==
  LET hits == {i \in DOMAIN r.binds: Bound(s, r.binds[i]) # {}}
      first == CHOOSE i \in hits: \A j \in hits: i <= j
  IN IF ~s.loaded THEN Answer("deny")
     ELSE IF hits = {} THEN Unbound(r) ELSE For(s, r.binds[first])

Init ==
  /\ directory = "there" /\ writes = NumFiles
  /\ disk = [f \in Files |-> IF StartTexts[f] = NoText THEN NoFile
                            ELSE [text |-> StartTexts[f], readable |-> TRUE, stamp |-> f]]
  /\ ceiling = 1 /\ context = 1
  /\ snap = NoSnapshot /\ fingerprint = NoPrint /\ lock = Free /\ draft = NoDraft
  /\ work = [t \in Threads |-> NoJob]
  /\ client = [told |-> FALSE, asking |-> FALSE, current |-> TRUE]
  /\ possible = [t \in Threads |-> {}] /\ misread = FALSE

At(t, step) == work[t].at = step
To(t, step) == work' = [work EXCEPT ![t].at = step]
\* A poll ends when the store is fresh, a call goes on to look its binds up.
Fresh(t) == work' = [work EXCEPT ![t] = IF @.request = Poll THEN NoJob
                                        ELSE [@ EXCEPT !.at = "pin", !.print = NoPrint]]
Answers(t, a) == work' = [work EXCEPT ![t] = [@ EXCEPT !.at = "answered", !.pinned = NoSnapshot,
                                                       !.print = NoPrint, !.answer = a]]

-----------------------------------------------------------------------------
(* One call: _ensure_fresh, then the lookups of resolve_active_scope.         *)

\* A loaded store is compared without the lock.
Ask(t) ==
  /\ At(t, "idle")
  /\ LET fresh == snap.loaded /\ Fingerprint = fingerprint IN
     \E r \in IF t \in Pollers THEN {Poll} ELSE Requests:
       /\ ~(fresh /\ r = Poll)
       /\ possible' = [possible EXCEPT ![t] = IF r = Poll THEN {} ELSE {Resolve(snap, r)}]
       /\ work' = [work EXCEPT ![t] =
            [@ EXCEPT !.request = r, !.at = IF fresh THEN "pin" ELSE "try",
                      !.print = IF snap.loaded /\ ~fresh THEN Fingerprint ELSE NoPrint]]
  /\ UNCHANGED <<dirVars, ceilVars, storeVars, client, misread>>

\* Another thread reloads: a warm store is looked at as it is, a store that was
\* never loaded denies the call.
Busy(t) ==
  /\ At(t, "try") /\ lock # Free
  /\ IF snap.loaded \/ work[t].request = Poll THEN Fresh(t) ELSE Answers(t, Answer("deny"))
  /\ UNCHANGED <<dirVars, ceilVars, storeVars, client, ghosts>>

\* The fingerprint of before the lock is used, if there was one.
Lock(t) ==
  /\ At(t, "try") /\ lock = Free
  /\ LET print == IF work[t].print = NoPrint THEN Fingerprint ELSE work[t].print IN
       IF snap.loaded /\ print = fingerprint
       THEN Fresh(t) /\ UNCHANGED <<lock, misread>>
       ELSE /\ lock' = t /\ misread' = FALSE
            /\ work' = [work EXCEPT ![t].at = "list", ![t].print = print]
  /\ UNCHANGED <<dirVars, ceilVars, snap, fingerprint, draft, client, possible>>

\* iterdir: what was loaded is kept when the directory cannot be listed.
List(t) ==
  /\ At(t, "list")
  /\ IF directory = "unreadable" /\ \E f \in Files: snap.profiles[f].present
     THEN To(t, "bump") /\ UNCHANGED draft
     ELSE /\ To(t, "read")
          /\ draft' = [profiles |-> NoDraft.profiles,
                       pending |-> IF Listed THEN {f \in Files: Present(f)} ELSE {}]
  /\ misread' = Misread(work[t].print)
  /\ UNCHANGED <<dirVars, ceilVars, snap, fingerprint, lock, client, possible>>

\* A file that is gone by now is skipped.
Read(t) ==
  /\ At(t, "read")
  /\ \E f \in draft.pending:
       /\ \A g \in draft.pending: f <= g
       /\ draft' = [profiles |-> IF Present(f)
                                 THEN [draft.profiles EXCEPT ![f] = Loaded(f, snap.profiles)]
                                 ELSE draft.profiles,
                    pending |-> draft.pending \ {f}]
  /\ misread' = (misread \/ Misread(work[t].print))
  /\ UNCHANGED <<dirVars, ceilVars, snap, fingerprint, lock, work, client, possible>>

Published == [loaded |-> TRUE, profiles |-> Composed(draft.profiles)]

\* Every call under way may see the new snapshot.
Seen(s) == [t \in Threads |-> IF work[t].at = "idle" \/ work[t].request = Poll THEN possible[t]
                              ELSE possible[t] \cup {Resolve(s, work[t].request)}]

\* As if the generation did not move with a new snapshot.
PublishUntold(t) ==
  /\ At(t, "read") /\ draft.pending = {}
  /\ snap' = Published
  /\ possible' = Seen(Published)
  /\ client' = [client EXCEPT !.current = @ /\ Published = snap]
  /\ To(t, "commit")
  /\ UNCHANGED <<dirVars, ceilVars, fingerprint, lock, draft, misread>>

Publish(t) ==
  /\ At(t, "read") /\ draft.pending = {}
  /\ snap' = Published
  /\ possible' = Seen(Published)
  /\ client' = [client EXCEPT !.current = @ /\ Published = snap]
  /\ To(t, "bump")
  /\ UNCHANGED <<dirVars, ceilVars, fingerprint, lock, draft, misread>>

\* _bump_profile_generation.
Bump(t) ==
  /\ At(t, "bump")
  /\ To(t, "commit")
  /\ client' = [client EXCEPT !.told = TRUE]
  /\ UNCHANGED <<dirVars, ceilVars, storeVars, ghosts>>

\* As if the directory were looked at again after the reload.
CommitNow(t) ==
  /\ At(t, "commit")
  /\ fingerprint' = Fingerprint
  /\ lock' = Free /\ draft' = NoDraft
  /\ Fresh(t)
  /\ UNCHANGED <<dirVars, ceilVars, snap, client, ghosts>>

Commit(t) ==
  /\ At(t, "commit")
  /\ fingerprint' = work[t].print
  /\ lock' = Free /\ draft' = NoDraft
  /\ Fresh(t)
  /\ UNCHANGED <<dirVars, ceilVars, snap, client, ghosts>>

Pin(t) ==
  /\ At(t, "pin")
  /\ work' = [work EXCEPT ![t].at = "lookup", ![t].pinned = snap]
  /\ UNCHANGED <<dirVars, ceilVars, storeVars, client, ghosts>>

\* As if each lookup read the store anew.
LookupAnew(t) ==
  /\ At(t, "lookup")
  /\ LET r == work[t].request
         i == work[t].next
     IN \/ i > Len(r.binds) /\ Answers(t, Unbound(r))
        \/ /\ i <= Len(r.binds)
           /\ IF Bound(snap, r.binds[i]) # {}
              THEN Answers(t, For(snap, r.binds[i]))
              ELSE work' = [work EXCEPT ![t].next = @ + 1]
  /\ UNCHANGED <<dirVars, ceilVars, storeVars, client, ghosts>>

\* One bind after the other, in the one snapshot.
Lookup(t) ==
  /\ At(t, "lookup")
  /\ LET r == work[t].request
         s == work[t].pinned
         i == work[t].next
     IN \/ i > Len(r.binds) /\ Answers(t, Unbound(r))
        \/ /\ i <= Len(r.binds)
           /\ IF Bound(s, r.binds[i]) # {}
              THEN Answers(t, For(s, r.binds[i]))
              ELSE work' = [work EXCEPT ![t].next = @ + 1]
  /\ UNCHANGED <<dirVars, ceilVars, storeVars, client, ghosts>>

Return(t) ==
  /\ At(t, "answered")
  /\ work' = [work EXCEPT ![t] = NoJob]
  /\ possible' = [possible EXCEPT ![t] = {}]
  /\ UNCHANGED <<dirVars, ceilVars, storeVars, client, misread>>

-----------------------------------------------------------------------------
(* The operator, the ceiling, the client.                                    *)

Changes ==
  /\ writes < NumFiles + MaxWrites /\ writes' = writes + 1
  /\ UNCHANGED <<ceilVars, storeVars, work, client, ghosts>>

WriteFile(f) ==
  /\ Listed
  /\ \E text \in Texts:
       disk' = [disk EXCEPT ![f] = [text |-> text, readable |-> TRUE, stamp |-> writes + 1]]
  /\ Changes
  /\ UNCHANGED directory

Chmod(f) ==
  /\ Listed /\ Present(f)
  /\ disk' = [disk EXCEPT ![f].readable = ~@, ![f].stamp = writes + 1]
  /\ Changes
  /\ UNCHANGED directory

RemoveFile(f) ==
  /\ Listed /\ Present(f)
  /\ disk' = [disk EXCEPT ![f] = NoFile]
  /\ Changes
  /\ UNCHANGED directory

\* The directory goes with its files, or cannot be listed for a while.
RemoveDirectory ==
  /\ directory # "absent"
  /\ directory' = "absent" /\ disk' = [f \in Files |-> NoFile]
  /\ Changes

HideDirectory == Listed /\ directory' = "unreadable" /\ Changes /\ UNCHANGED disk

RestoreDirectory ==
  /\ ~Listed /\ directory' = "there"
  /\ UNCHANGED <<disk, writes, ceilVars, storeVars, work, client, ghosts>>

\* apply_ceiling installs another context, and then its generation moves.
InstallCeiling ==
  /\ context = ceiling /\ context < MaxCeilings
  /\ context' = context + 1
  /\ client' = [client EXCEPT !.current = FALSE]
  /\ UNCHANGED <<dirVars, ceiling, storeVars, work, ghosts>>

MoveGeneration ==
  /\ context # ceiling
  /\ ceiling' = context
  /\ client' = [client EXCEPT !.told = TRUE]
  /\ UNCHANGED <<dirVars, context, storeVars, work, ghosts>>

\* The client has seen the generation move, and asks for the answer again.
Notice ==
  /\ client.told /\ ~client.asking
  /\ client' = [client EXCEPT !.told = FALSE, !.asking = TRUE, !.current = FALSE]
  /\ UNCHANGED <<dirVars, ceilVars, storeVars, work, ghosts>>

Show ==
  /\ client.asking
  /\ client' = [client EXCEPT !.asking = FALSE, !.current = TRUE]
  /\ UNCHANGED <<dirVars, ceilVars, storeVars, work, ghosts>>

Work(t) == Busy(t) \/ Lock(t) \/ List(t) \/ Read(t) \/ Publish(t) \/ Bump(t) \/ Commit(t)
           \/ Pin(t) \/ Lookup(t) \/ Return(t)

Next ==
  \/ \E t \in Threads: Ask(t) \/ Work(t)
  \/ \E f \in Files: WriteFile(f) \/ Chmod(f) \/ RemoveFile(f)
  \/ RemoveDirectory \/ HideDirectory \/ RestoreDirectory
  \/ InstallCeiling \/ MoveGeneration \/ Notice \/ Show

Spec == Init /\ [][Next]_vars

\* Nobody waits, so a call that began goes on; the pollers ask again.
FairSpec == Spec /\ WF_vars(MoveGeneration)
                 /\ \A t \in Threads: WF_vars(Work(t)) /\ (t \in Pollers => WF_vars(Ask(t)))

-----------------------------------------------------------------------------
(* Properties.                                                               *)

\* Whatever is reloaded while a call looks its binds up, the answer is that of
\* one snapshot of the time the call took, and a denial when there was none.
AnswersOneSnapshot ==
  \A t \in Threads: At(t, "answered") => work[t].answer \in possible[t]

\* A client that has seen the last move of the generation shows an answer of the
\* present snapshot and ceiling.
Noticed ==
  /\ ~client.told /\ ~client.asking
  /\ context = ceiling /\ \A t \in Threads: ~At(t, "bump")
  => client.current

\* A profile that was bound stays bound through a reload that finds its file
\* damaged, unless the file says another bind.
KeepsBinding ==
  [][\A t \in Threads, f \in Files:
       /\ Publish(t) /\ snap.profiles[f].bind # NoBind
       /\ Present(f) /\ work[t].print.stamps[f] = disk[f].stamp
       /\ disk[f].readable => ~disk[f].text.ok /\ disk[f].text.bind = NoBind
       => snap'.profiles[f].bind = snap.profiles[f].bind]_vars

Reflects == Reloaded = snap

\* The directory looks again as it did when the fingerprint was taken, and had
\* other files, or none to be listed, while it was read.
CameBack == misread /\ Fingerprint = fingerprint

\* An edit, a repair, a removal or a new ceiling is picked up, whatever it falls
\* between, where the directory did not change and change back in mid-reload.
Follows == <>[](directory = "unreadable" \/ CameBack \/ Reflects)
=============================================================================
