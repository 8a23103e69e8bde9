# kirocrew-demo: a TLA+ development

This directory holds TLA+ modules about the programs of this repository, TLC
configurations that check them on small instances, and TLAPS proofs of what
holds for every value of the constants. `PROJECT.json` lists the runs, the
mutations each property is tried against, the source lines each definition
stands for, the hazards and the disagreements found.

The repository deploys and demonstrates a governed agent host. Two kinds of code
in it are hard to get right by reading and testing. The first is a handful of
Python helpers (`infrastructure/`, `scripts/`) that change one host in many small
steps while other processes change the same files. The second is the part of the
product under `crew-security-evidence/kiro_crew` that keeps state: the event log
every process appends to, the ceiling that is fetched, cached and folded, and the
profiles that are reloaded under the calls they govern. Most of the rest is
classification of text without state, presentation builders, recorded evidence
and vendored code.

## 1. Inventory

| component | source | state it keeps | operations | interacts with |
|---|---|---|---|---|
| enterprise policy helper | `infrastructure/enterprise-policy/manage.py`, driven by `scripts/manage-enterprise-policy.py` | policy, systemd drop-in, manifest, two backups per plan; the terminal flag in `config.json` | plan, apply, activate, rollback, verify | Gateway (config lock), systemd, owner's editor, administrator, other operators |
| telemetry collector | `infrastructure/observability-collector/collector.py` | a history, a latest sample per source, one event file, a lock | server `--store`, `receive-client` | itself (several processes), client, app |
| telemetry client | `scripts/demo-telemetry.py` | the upload receipt; a launchd timer | collect_once, setup, stop | collector over SSH |
| observability app | `infrastructure/observability/app/backend/server.py` | none | snapshot | reads the store without its lock |
| live setup, host side | `infrastructure/live-setup/remote.py` | staging directories, integration files, telemetry settings in `config.json` | receive, integrate, services | Gateway, systemd, MCP helper |
| MCP helper | `scripts/manage-demo-mcp.py` | the registration, one hook entry of `config.json`, a backup of it | plan, apply, verify | Gateway (API and config lock), policy helper, systemd |
| live setup, driver | `scripts/setup-live-demo.py`, `live_setup_app.py`, `live_setup_desktop.py` | desktop settings and their backup; receipts | ten stages | all of the above |
| deployment and cloud drivers | `scripts/deploy-demo.py`, `demo-cloud.py`, `demo_config.py` | the deployment file and its backup | plan, apply, status | AWS command line, host |
| runtime installer | `infrastructure/install-runtime-bundle.py` | the virtual environment and its receipt | verify, install | - |
| host controls | `infrastructure/host-controls/*`, `scripts/configure-host-controls.py` | control files and services, the prompt | setup, amend | systemd |
| MCP enforcement server | `infrastructure/mcp-enforcement/server.py` | an audit stream | invoke | S3 |
| probe presenter | `scripts/serve-demo-probes.py` | records, artifacts, the one active run | start, run, snapshot | browser, a command |
| security event log | `kiro_crew/sel.py` | the live file, the closed segments, the lock's sidecar; in each process the tip, what it saw of the file, a queue | log (queued, or critical), the writer's batches, rotation, retention, prune, verify | every process of a data home; threads of one process, its event loop |
| central policy distribution | `kiro_crew/platform/policy_distribution.py` | a cache of two files under a lock; in each process the ceiling, its digest and the last fold | load at start, refresh, the poll, rollback | the source, other processes, cache-only children, the ceiling |
| governance ceiling | `kiro_crew/platform/governance.py` | the edition's document and the last fold, per process | compose, fold, load (twice per start), the gates, refresh | the distribution, the files of the host, the edition |
| profile store | `kiro_crew/platform/governance_profiles.py` | a snapshot, its fingerprint, a generation | resolve, reload, poll | the operator's files, the ceiling, the dashboard |
| command floor, sandbox, hooks, validation, paths, redaction | the rest of `kiro_crew` | none, or files only read | one decision about one text, path or document | - |
| login helper, council runs, evidence readers, builders | `scripts/*` | files written once | - | - |
| vendored code, evidence | `archify-source`, `evidence`, `output`, `recordings` | - | - | - |

What is hard in it, and what makes each part correct:

* **Policy helper.** apply makes six changes to the host and rollback six, and either
  may fail or be killed between any two, beside other writers of `config.json`, a
  service that systemd restarts at will, and other operators: nothing locks the managed
  files. Correct means: the fail-closed drop-in never stands without its policy; no
  operator destroys what another has in hand; the owner's settings survive; a failed
  apply undoes itself; what a report of success says is true.
* **Collector.** Samples arrive late, twice and out of order through sessions
  the client may have given up; a store replaces three files in turn. Correct
  means: what is shown never goes back in time, nothing is stored twice, each
  change has its event, files stay bounded, nobody waits for ever.
* **Client and app.** The receipt's `uploaded` must be worth something though
  an earlier session may finish later; a snapshot reads three files at three
  instants and must still explain what it shows.
* **integrate and the MCP helper.** Both change `config.json` beside the
  Gateway, which loads it only at its start; `integrate` without the product's
  lock. Correct means: reports are about what runs, whole files and not parts
  of them, backups before changes, no setting of the owner lost.
* **Event log.** Each record is signed over the one before it, and the tip is
  remembered in memory, in several processes. Correct means: however appends,
  rotations, retention and prunes interleave, are cut or killed, no record names
  a predecessor that is not the last one; an audit reported as stored is stored;
  the event loop is never held behind a rotation; every lock is given back.
* **Distribution.** A document and its metadata are two files, and a child that may only
  read the cache is governed by them. Correct means: no refused document is kept for the
  next start and no refused fold governs, an older document never replaces a newer one,
  a failure or a kill anywhere leaves something the next start or poll repairs, and the
  gateway ends up under the published document.
* **Ceiling.** Four tiers, each absent, usable or not, folded at two loads and at
  each refresh. Correct means: what is in force is exactly what the documents
  that ought to bind permit, in every control but the posture of the channels, which
  the highest of them gives alone; a lower tier never widens.
* **Profile store.** Nobody waits for a reload. Correct means: a call is answered
  from one snapshot, a damaged profile stays bound, the dashboard hears of each
  change, and each change is picked up.
* **The rest** is listed under "components" and "hazards" in `PROJECT.json`
  and in the plan below.

## 2. Modules

| module | models | composed of |
|---|---|---|
| `ManagedPolicy` | the four changing modes of the policy helper with everything around them | |
| `MCManagedPolicy` | instances for TLC: initial documents, symmetry | `ManagedPolicy` |
| `ManagedPolicy_proofs` | theorems and proofs | `ManagedPolicy`, TLAPS |
| `SampleRegister` | what the store promises: a register per source | |
| `SampleStore` | `store_sample` run by any number of processes; implements `SampleRegister` | `SampleRegister` (refinement), `Picking` |
| `Dashboard` | client and app around the store | `SampleStore` |
| `SampleStore_proofs` | theorems about both | `Dashboard`, `Picking_proofs`, TLAPS |
| `MCSampleStore`, `MCDashboard` | instances for TLC | |
| `GatewaySetup`, `GatewaySetup_proofs` | `integrate` and the MCP helper over one `config.json` | |
| `ChainLock` | the lock of the event log: a file lock, shared by the threads of a process | |
| `AuditLog` | the event log of several processes | `ChainLock` (extended, and refined), `Picking` |
| `AuditLog_proofs` | theorems about the lock, about the log, and that it implements the lock | `AuditLog`, `Picking_proofs` |
| `PolicyRefresh`, `PolicyRefresh_proofs` | load, refresh and cache of the central ceiling | |
| `Ceiling` | the controls, their composition, the fold of two documents | |
| `CeilingLadder`, `CeilingLadder_proofs` | which documents a process folds, and when | `Ceiling` |
| `ProfileStore`, `ProfileStore_proofs` | reload and lookup of profiles | |
| `Picking`, `Picking_proofs` | a comprehension with a condition as a recursive function; induction, and what it picks | TLAPS |
| `MCAuditLog`, `MCPolicyRefresh`, `MCCeilingLadder`, `MCProfileStore` | instances for TLC | |

In every module an operator or process has a program counter `pc`, and an action
stands for one system call or command together with the computation up to the
next one. Definitions that name a plausible mistake ("As if ...", or a variant
such as `LockKept`) stand beside the definition they vary; no action uses them.

### ManagedPolicy

The disk is `policy`, `dropin`, `manifest` and the sets `before`, `saved` of
plans whose backups exist, whole; a file that was made and not written yet, or never
will be, is the name of its operator at the path, and of a backup an entry of
`partial`. `config` is the part of `config.json` the helper can
tell apart: whether the `dashboard` and `terminal` objects exist, the flag, a
peer setting in each, whether the approval posture is interactive, and whether
the bytes are in the helper's own form (`canonical`). `unit` is the drop-in
systemd has *loaded* and `service.env` the one the process was *started* with:
three things that agree only after a reload and a restart. `reviewed` and
`receipt` are what operators hold between calls, shared by them.

`BeginApply` .. `Answer` are `operate` in order; a refused or failing write goes
through `Undo`, which takes the patch back first if there was one and then
removes what was created, last first. `write_new` is two steps, the making of a file
under a free name (`Create`) and the writing of it (`Fill`): a kill in between leaves
the partial file, and a write that fails unlinks what is at the name by then.
`PatchLock`, `PatchRead`, `PatchLook`, `PatchSwap` are `patch_terminal`, with its
second look at the file and `os.replace` apart. `remove_exact` is the comparison
(`Compare`) and the removal by name (`Unlink`): what comes to the name in between is
removed. With `LateFaults` a call may also fail when its change is made (the sync of a
directory after a creation, a replacement or a removal). `Observe` and
`Check` are the polling of activate and its last comparison. The environment:
the Gateway saving under the lock, an editor saving without it (`RawEdit`), an
administrator's file at a managed path or reload, service failures, kills
(`Kill`, also while the lock is held) and reboots.

Abstracted: the contents of the policy (a model value), path and ownership
checks, the hashes (equality of the plan), wording.

### SampleStore, SampleRegister, Dashboard

`history`, `events` and `latest` are the files; `known` is what a process read
and computed under the lock before its writes. `Transition` is
`transition_events` with the order of its events; `Lasts` the cut to the limits.
`AtomicWrite` replaces a file or fails before. `Register` maps `accepted` to the
last of a history and `shown` to the latest file: a store is an `Accept` and
later a `Publish`, everything else stutters.

`Dashboard` adds the client (`Collect`, `GiveUp`, `LoseSession`, `Answer`),
sessions as a set of messages (unordered, delayed, lost) and the app's snapshot,
one file per step in the order of `snapshot()`.

### GatewaySetup

`config` holds the telemetry settings, the hook entries and one other setting; `running`
is the Gateway process with what it loaded at its start. `integrate` is `BeginIntegrate`
.. `CheckActive`: `Compare` and `Replace` are two steps and take no lock, so a Gateway
save can fall between. A failing `write_new` leaves part of a file (`partial`, `stubs`).
The backup of `integrate` holds the document, that of the MCP helper the hook list it is
about to change (`BackupOf`). `is-active` succeeds when one of its two units is, so
`configured` can be said with the Gateway down. The MCP helper is `MakePlan`,
`BeginRegister` .. `Observe`; `RetireLook` compares under the product's lock and
`RetireWrite` writes before it is given back: no Gateway save falls between, but another
operator's `Replace` can. A plan names the process it saw, so `GatewayStarts` voids it
(`receipt' = None`, `outdated`). Not in the model: an owner who adds the retired entry
again while the restart is awaited, and the order of a lost registration among other
servers. One operator at a time is checked.

### ChainLock, AuditLog

`flock` is the process whose descriptor has the sidecar locked. `hold[p]` is the
entry of a process in `_CHAIN_HOLDS`: its members, its label (`kind`) and who is
through its gate. A thread joins a hold of its process or tries for the file
lock; only a thread of an event loop is refused by a heavy label, or gives up at
the gate. A rotation relabels the hold and restores the label.

`AuditLog` extends it: what a thread does between `Enter` and `Leave` is its part
of `_append_chained_locked`, `_rotate_under_lock` or `_prune_live_locked`, one
step per system call. `live` is the file with its inode, `segs` the closed
segments; `tip`, `seen` and `queue` are what a process remembers. A record holds
its event and the event it was signed over; a fragment is event 0. A write may be
cut after a fragment (`Interrupted`), any write or rename may be the last of a
process (`Kill`). Two constants cut the model where the code has a window of its
own: `QuietStart` (nobody appends between the two reads a new log object makes;
without it the chain forks, run `audit_start_fork`) and `LongTails` (the file is
longer than the window read from its end, section 5).

### PolicyRefresh

`doc` and `meta` are the two cached files. A process is in one operation (`boot`,
`reload`, `refresh`, `force`) at one step, with the digest it observed, the copy it
read before its fetch, and the document it carries. Loads come from the cache when it
is fresh and from the source otherwise; a refresh publishes with compare-and-swap,
reads back, installs, and rolls back what it could not install. Documents are
numbered in the order they are published; the host's own document is a version that
moves. A document may not parse (`Unusable`), may be refused by `validate_ceiling` as it
is (`Barred`), or only as it is composed with the host's own (`Unfit`), and each is
asked where the code asks it: the first two before a document is cached, the fold where
it is installed, and only the parse of what is served from the cache. What a lost swap
leaves is read again after the lock was given back (`Reread`). Failures are outages,
failing writes, late refusals (of what has moved since the publish, such as a profile)
and kills. Left out: the refusal of a document that moves its source, since one source
is followed.

### Ceiling, CeilingLadder

A pattern is the set of items it matches, so the lists of a ruleset are sets of items.
`ComposeRules`, `ComposeGates`, `ComposeRanks` and `ComposeMaps` are the four `compose`
methods with their flattening, `Fold` is `_intersect_ceilings` with the pins.
`CeilingLadder` has the four tiers as state (`env`, `bundled`, `home`, `served`), the
load of the public core (`CoreLoad`, without the edition's document, the last one of a
start without an edition), that of an edition (`EditionLoad`), the gates (`Boot`),
`Refresh`, and a load by a caller in the running process (`LoadAgain`), which is known
only from what the source says of `mcp_gateway.app_call`. `Exact` is the reference a
fold is held against: it asks the ceiling and each document the same questions, and of
the channels' posture, which a fold does not compose, the highest document that governs
channels. `basis` is a ghost: the documents that ought to bind, chosen from the files
and not from what the process remembers. A fetch is one step here; `PolicyRefresh` takes
it apart, over documents without contents.

### ProfileStore

`disk` are the files with a stamp for what `stat` shows; `snap`, `fingerprint` and
`lock` are the store's; `draft` is the reload in progress, file by file. A thread
asks, finds the fingerprint moved, reloads or goes on with what there is, pins a
snapshot, looks up, and answers. `possible` (a ghost) collects what one snapshot of
the time the call took would answer; `misread` says that the last reload listed other
files than its fingerprint has. The fingerprint is taken in one step; a hidden directory
makes its files unreadable; a fallback is known by the ceiling it came from. A ceiling is
installed first and its generation moves in a second step, which is how
`policy_distribution.py:2145` describes `set_context`, whose source is not here.

## 3. Runs

| run | instance | what it shows |
|---|---|---|
| `policy_one` | one operator, one policy, four initial documents, 1 edit of any kind, 1 fault (also one that comes after the change), editor, administrator; 3.8 million states | both backups, whole, exist whenever manifest or receipt do; restoring is the inverse of patching; success of activate and rollback means what it says |
| `policy_two` | two operators, one policy, 1 save of the Gateway, of the flag or of the peer beside it; fair; 440 thousand states | the drop-in has its policy at every instant, no save under the lock is lost, a completed undoing leaves nothing, every operation ends and returns the lock |
| `policy_undo_stuck` | smallest, violation | an apply whose manifest write fails can leave policy and drop-in (finding) |
| `store_one` | two processes, one source, two check values, one error code, 3 instants, history 2, events 4, 1 fault; fair | type and bounds, order, no change without its event unless a store was cut, the register is implemented, every process ends |
| `dashboard_ends` | two processes, two sources, 2 uploads, 1 snapshot, 1 fault | `uploaded` is shown, a snapshot explains itself, no event twice |
| `setup_one` | one operator, 2 files, 1 Gateway save, 2 faults, policy may be removed | `configured` means whole files; a whole backup of what is changed precedes a change; retirement keeps what the Gateway saved and is about the running process |
| `audit_shared` | a gateway (writer, loop, prune) and a second writer; 3 events, segments of 1 line, 1 kept, batches of 2, 1 fault, 1 prune; fair | one thread inside, no fork, an acknowledged audit is stored, nothing stored is lost but to age and retention, one re-chaining is enough, the loop is not held up, every operation ends |
| `audit_start_fork` | one process in use, one starting, segments of 2; violation | a log object constructed beside an append forks the chain (finding) |
| `policy_refresh` | a gateway and a fetcher, 4 documents, the second does not parse, the third is refused as it is, the fourth until the local document moves; 1 failure, 1 expiry, 1 local edit, 1 fetch; fair | no refused document is cached and no refused fold governs, document and metadata agree, no write puts an older document over a newer one, the gateway follows |
| `refresh_behind` | a gateway and a fetcher, no document refused, no failure; violation | a rollback puts an older document under a newer ceiling (finding) |
| `profiles_shared` | a gate and a poller, 2 files, 5 texts, 1 change, 2 ceilings; fair | answers of one snapshot, the client is told, binds are kept, changes are followed |
| `ladder_four` | four documents that differ in every control, each tier any of them, absent or unusable, 2 edits | with and without an edition: the ceiling in force is exact (the posture of the channels is the highest one), the fold remembered is the one in force unless a caller loaded since, a home file refuses no start under a central document |

Why the bounds suffice. *Faults*: one fault is one failure at any point; in `setup_one`
two, since a file half written (first) matters only to the retry that may itself be cut
(second). *Edits and saves*: one edit by another writer can fall in any window, and a
second adds no new comparison; of the kinds of edit, `policy_two` takes the two that
share an object with the flag. *Two files* are enough for "some whole, one partial, some
absent", and for a profile with a parent. *History 2, events 4*: a store can fill and
cut both. *Two uploads*: the session of the first, given up, may arrive after the
second's. *Three instants* give older, equal and newer than the last sample and a skew
on either side. *Two operators, one policy*: the shared files allow only pairwise
conflicts (create and remove by equality); failures and kills between any number of
operators are covered by the theorems `PolicyBeforeDropin` and `UndoneMeansClean`.
*Segments of one line*: every record is followed by a rotation or precedes one, so with
three events both processes rotate under each other, and retention drops a segment; the
two processes run from the start, because `QuietStart` makes a later start the same as
an earlier one. *Four documents of the distribution*: an old one, one of each kind that
is refused before it is cached, and a new one that is refused at first where it is
installed; that a fold which governed is refused after an edit is in the theorem only.
*One failure* falls at any step of any operation. *Four documents of the ladder* make,
among their pairs, each combination of allow and deny lists, an absent control on either
side, ranks and versions in both orders, a version that does not parse, pins on either
side, and a fold the gates refuse; a ceiling has at most two documents. *Two edits* let
a file break and be repaired, or two tiers move, around a refresh.

Deadlock is checked except in the two runs of the event log, where every bound used
up and every writer idle is an end the system may stop in. Symmetry is used only in
safety runs, for operators, processes and findings of a probe that no other constant
names.

Fairness. `ManagedPolicy`, `SampleStore`: `WF(Continue(o))`, the operating system keeps
running a process that is not killed, and all its waits are bounded (the lock is tried
once, or until a deadline; commands have timeouts); `WF(GatewaySaves)`, a save that has
the lock ends. `AuditLog`: weak fairness of a thread's own next step, which is disabled
while the lock or gate is another's; that it suffices is part of what `OperationsEnd`
shows. `PolicyRefresh`: `SF` of a process's step, because the cache's lock is free again
and again while others use it, and a kernel does not pass one waiter by for ever; `WF`
that a started gateway polls, as `_Refresher._run` does in a loop, that an operator's
service manager starts it again, that a process that is done exits, and that a copy does
not stay fresh. `ProfileStore`: a call that began goes on, the poller asks again
(`poll_profiles_fresh`), and `set_context` returns. Nothing is assumed of people, of
failures or of the order of messages.

Findings are in `PROJECT.json`: each of the three violation runs contradicts a
test, a comment or a docstring, quoted there.

## 4. Proofs

Each module is proved from the assumptions named in the module it is about, for
any number of operators, processes, threads, documents or files and any bounds,
except where a hypothesis is named below. Every safety invariant and every action
property that a passing run checks is stated by a theorem; each inductive invariant
was checked by TLC on an instance before it was proved.

`ManagedPolicy_proofs`, from `ValuesAssumption`:

* `TypeCorrect` (`TypeOK`). The invariant is `TypeInv`: `TypeOK` alone does not
  say that an operator in the middle of apply holds a plan, which the types of
  the backups and of the manifest need; `LocalsOK` says in which mode each
  program counter can be and what the operator holds there.
* `PolicyBeforeDropin` (`DropinHasPolicy`, and `OneClaim`, which no run lists), assuming
  `LateFaults = FALSE` and `Admin = FALSE`. The code needs both: when the directory sync
  after the drop-in fails, the file is there and not in the list of what to undo
  (`manage.py:142`, 415), so the policy goes and the drop-in stays; and a file of the
  administrator's can be what lets a delayed second rollback get past its `unlink` of the
  drop-in, to the policy of an apply that began meanwhile. `DropinHasPolicy` is not
  inductive: an operator about to create the drop-in, and one that removed it, both rely
  on a policy file that is *theirs*. `ClaimInv` adds that at most one such claim stands,
  and that a drop-in, whole or partial, stands with no claim; the lemmas show that no
  step makes a second claim (exclusive creation) or removes a claimed policy.
* `UndoneMeansClean` (`UndoneLeavesNothing`), with the same hypotheses, for any number
  of operators, templates and faults. An undoing removes what was *equal* to what it
  made when it looked, so it must be shown that nobody else's equal file stands there,
  and that none comes before the removal. `OwnInv`: an apply past its first backup has a
  plan of its own, because that backup is created exclusively, so a manifest of its plan
  is its own. `ClaimInv` gives the policy and the drop-in. `UneditedInv` gives the
  document: while nobody but operators wrote it, every known plan records the same flag
  and peers, and the document has that flag, or is patched while the policy stands and
  nobody is about to take it back; `LockInv` says that what was read under the lock is
  still there.
* `RollbackHasBackups` (`InstallBacked`). `BackedInv` adds, for each operator
  past its backups, that the backups of the plan it holds are there; backups
  are never removed.
* `PeersKept` (`OperatorsKeepPeers`), assuming `RawEditor = FALSE`: an edit without the
  lock in the instant before `os.replace` is overwritten (section 5). By `LockInv`: who
  is in `patch_terminal` holds the lock, and what it read is what is there;
  `OneConfigWriter` (only `PatchSwap` of an operator writes `config`) and two lemmas on
  `Patched` and `Restored` do the rest.
* `PlannedConfigRestored` (`RestoreIsInverse`): from `RestoredInverse`, which
  needs well-formed documents; `FormInv` carries that through every place a
  document is kept (config, views, plans, receipts, manifest).
* `ActivatedMeansGoverned` (`ActivatedIsGoverned`) and `RolledBackMeansClean`
  (`RolledBackIsClean`), assuming `Alone` (at most one operator), as the run that
  checks them does. With two operators TLC finds both false: the other rolls back,
  and applies again, between the last look of the first and its report; nothing locks
  the host. `ActivateInv` says what the last snapshot found
  and who may have changed it since; `RollbackInv` that what was removed stays so.

`SampleStore_proofs`, from `StoreAssumption` and `DashboardAssumption`, for any
number of processes and sources and any limits:

* `TypeCorrect`, `HistoryInOrder` (`HistoryOrdered`), `EventsOnce` (`NoEventTwice`) and
  `ChangesRecorded` (`UncutChangesRecorded`), from one invariant `IInv`: the process
  between its reading and its last write is the one with the lock (`LockHeld`); what it
  computed still extends what is on disk (`ReadyHistory`, `ReadyEvents`,
  `ReadyLatest`); the newest event of a source is no later than its history
  (`EventsReached`), so an event made for a newer sample is new; and every kept change
  has its event, but the last one of a source whose events are being written
  (`UncutExplained`). `EventsReached` is what a cut after the history leaves true.
* `ImplementsTheRegister` (`ImplementsRegister`): the refinement of `SampleRegister`,
  action by action: writing the history accepts, writing the latest file publishes.
* `DashboardIsStore`: the dashboard's specification implements the store's, so all of
  this holds with client and app around it.
* `UploadsAreShown` (`UploadedIsShown`): `ClientInv` follows one upload through its
  sessions (each carries the upload's sample; one that stored it did so to a file that
  has only moved on since).
* `SnapshotsExplain` (`ShownIsExplained`): `ViewInv` says, file by file, what the app's
  reading so far owes to the order it reads in: the samples first and the events last.

`GatewaySetup_proofs`, from `SetupAssumption`, for any number of files, saves, faults
and, for the first two, operators:

* `ConfiguredMeansWhole` (`ConfiguredIsWhole`) and `ChangedAfterBackup`
  (`ChangedIsBackedUp`) from `SetupInv`: beside the types, whoever works holds the
  document it read, and who writes a retirement holds the lock and has that document in
  view (`ReadInv`), what it no longer has to write is whole (`FilesInv`; a whole file is
  never touched), and the backup it made or found stands (`BackupInv`).
* `RetireRemovesOne` (`RetireKeepsOthers`), assuming `Alone`: between the look and the
  write the lock keeps the Gateway's saves out (`InView`). With two operators TLC finds it
  false: `integrate` takes no lock.
* `RetiredMeansRunning` (`RetiredIsRunning`), assuming `Alone`, from `RetiredIsGone`:
  after the removal the entry is in no document anyone holds, not in what the Gateway is
  about to save, and after the restart not in its process. With two operators TLC
  finds it false (section 5).

`AuditLog_proofs`, from `ThreadsAssumption` and `AuditAssumption`:

* `ChainExclusion` (`OneInside`), from the invariant `LockInvariant`: the threads
  between joining and leaving are exactly the members of their process's hold, who is
  inside is at its gate, and only the process that has a hold has the file lock.
  Counting a joiner *before* it passes the gate, which looks like waste, is what makes
  it inductive: the last to leave is then the one to close. `LockGivenBack` follows.
* `LogFollowsLock`: the event log implements `ChainLock`'s specification; every step
  takes one step of the lock or leaves it alone, kills included. `LogExclusion` then
  needs no invariant of the log.
* `LogInvariant`: `LogInv` adds to the lock's invariant the types, where each thread
  can be in its operation (`Placed`), which label its hold shows there (`Shown`), what a
  thread that looked for the tip again has now seen (`Tried`), and what each step in
  progress relies on (`Ready`). From it `LogTypesCorrect`, `AlwaysOneRechain`
  (`OneRechain`: after one look the file is as seen, and nobody else is inside),
  `LoopAlwaysPolls` (`LoopPolls`), `NothingStoredLost` (`StoredStays`: a rewrite drops
  what is old and copies the rest, by `PickedProperties`) and `AuditedOrDenied`
  (`AuditOrDeny`).
* `ChainStaysIntact` (`ChainIntact`), assuming `QuietStart` and `~LongTails`, without
  which it is false (run `audit_start_fork`; section 5). `TipKnown`: for a running
  process, whatever it remembers is the last record of the file *or the file no longer
  looks as it did when it was remembered*. `TipLast`: who is about to write has the last
  record. That a file which looks the same is the same rests on inodes that are not
  used again and lengths that only grow.

`PolicyRefresh_proofs`, from `RefreshAssumption`:

* `RefreshTypes`, and `RefusedKeptOut` (`RefusedNeverServed`) by `GatesInvariant`: the
  cache alone is not inductive, because a process may carry a document past the
  moment the cache is looked at. The invariant has one part per place a document can
  be in: the source, the cache, a process at work, a process's context. What is read
  from the cache is not asked by the gates again; that it passed them is what the
  invariant says of the cache. A refused document is carried only by a process that
  sees it out of the cache (`Undoing`). That a *fold* is fit is said of contexts only:
  a cached document may not fit (section 5).
* `PairNeverTorn` (`CachePaired`) and `SwapNeverGoesBack` (`NeverReplacedByOlder`) by
  `CacheInv`: one process is between two writes and it has the lock (`LockOk`); the
  file it wrote first is the one its second will match (`PairOk`); nothing is newer than
  what is published, and what is about to be published is no older than what was
  observed before its fetch (`OrderOk`). The compare-and-swap puts it in only where that
  is still there. Both properties speak of the time before the first failure, and
  `NeverReplacedByOlder` of one write: a rollback that removes the newer document and
  then puts the older one back is not excluded (run `refresh_behind`).

`ProfileStore_proofs`, from `ProfilesAssumption`:

* `AnswersCovered` (`AnswersOneSnapshot`): a pinned snapshot was the store's at some
  time of the call, so what it answers is in `possible`, whatever is published later.
* `ClientIsTold` (`Noticed`): the client is current, or a generation has moved that it
  has not read, or a thread stands between publication and the move.
* `ProfilesTypes` (`TypeOK`) and `BindingKept` (`KeepsBinding`) by `ProfilesInv`: only
  the holder of the lock reloads (`LockInv`), stamps only grow (`DiskInv`), what is
  bound is there, and a damaged file that was already read has in the draft the bind the
  snapshot has (`KeptInv`), which nobody replaces meanwhile.

`CeilingLadder_proofs`, from `CeilingAssumption` and `LadderAssumption`:

* one lemma per kind of control says that the composition permits exactly what both
  permit (`RulesExact`, `GatesExact`, `RanksExact`, `MapsExact`, `FloorsExact`), with
  and without flattening and when one side lacks the control; `FoldIsExact` puts them
  together. `MapsExact` needs the authority's members to be a plain ruleset, which
  parsing guarantees: the code drops the narrower members otherwise.
* `FoldsExactly` (`InstalledIsExact`), by `Inv`: the process remembers its edition's
  document from its load on, so a refresh folds what a start would. The posture of the
  channels is said to be the highest one, not to be composed.
  `RecordAgrees`, `LadderTypes`, and `HomeNeverRefuses` (`HomeCannotRefuse`).

`Picking_proofs`: what a list comprehension with a condition yields is a recursive
function (`Picked`), and `PickedProperties` says for every list that it is the wanted
elements in their order and nothing else. The library's induction theorems take an operator as
a parameter and cannot be used here; its theorem on minimal elements (`WFMin`) does
not, and with the well-founded order of the naturals gives induction for a *set* of
numbers (`Smallest`, `SetInduction`). The event order of a store, the copy of a prune
and the largest generation of a profile rest on it.

Only model-checked: the five liveness properties (`OperationsEnd` of the policy helper
and of the event log, `StoresEnd`, `Follows` of the distribution and of the profiles).
They need fairness and ENABLED, which the prover does not handle. Two invariants are
theorems that no run lists on their own, being what others rest on: the types of the
client and of the view are parts of `DInv`, and `RetiredIsGone`. The hypotheses beyond
the modules' assumptions are those named above: `LateFaults = FALSE` with `Admin =
FALSE`, `RawEditor = FALSE`, `Alone`, `QuietStart` and `~LongTails`; each excludes a
case in which TLC finds the property false.


## 5. Not modelled, observations, and the plan

Not modelled on purpose: wording, hashes and signatures (one verdict each), path and
ownership checks, the probes that fill a sample, the matchers of patterns,
presentation, evidence, vendored code. The larger part of `kiro_crew` by lines (the
command and argument floor, the shell normaliser, the denied rules, the sandbox's
arguments, hooks and validation, paths, exfiltration, redaction) decides about one
text at a time without state. What could be wrong there is a pattern; a model
would copy the pattern, or abstract it to a verdict and say nothing. The map covers
a small share of the implementation's lines for that reason.

Observations made while modelling, which no run of this directory holds against the
code:

* *Policy helper.* A save of `config.json` without the lock in the instant between the
  second look and `os.replace` is overwritten (`manage.py:259-262`). `remove_exact`
  compares, and then unlinks by name (148-153): a file put there in between is removed,
  and a rollback still reports `removed_only_managed_files`. A write that fails when
  the directory is synced is not undone, because the file is not yet in `created` (142,
  414-416): of the drop-in, that leaves it without the policy, which the undoing
  removes. Two rollbacks at once can also end in that state, when a file of the
  administrator's or a failing write (whose clean-up unlinks by name, 139) is between
  them. The theorems name these cases as hypotheses.
* *Setup.* A retried integrate reports telemetry the running Gateway has not loaded
  (`remote.py:238`); the hook can be retired after the policy was rolled back between
  the second proof and the removal (`manage-demo-mcp.py:362-366`). `integrate` reports
  after `is-active` of two units, which succeeds when one of them is (`remote.py:240`).
  With two operators `RetireKeepsOthers` is false, since `os.replace` of the other's
  integrate can fall between the look and the write of a retirement, and
  `RetiredIsRunning` is false: the other's integrate writes back the document it read
  before the retirement (`remote.py:231`), and the Gateway started for the report loads
  the entry again. The run and the theorem are for one operator.
* *Collector.* A store cut after its history loses the event of a change
  (`collector.py:382`).
* *Event log.* With `LongTails`, `ChainIntact` fails: the re-anchoring notes the file
  as seen before a tail longer than its window is refused (`sel.py:1643-1651`). A prune
  of the live log leaves a first record whose predecessor it removed (2836-2884), though
  the docstring of the verification says that each file starts from genesis (2429-2430);
  `ChainIntact` allows it (`pruned`).
* *Distribution.* A start publishes what it fetched before anything judges the fold
  (`policy_distribution.py:1748`), so a document that parses and passes alone, and does
  not fit the host, stays cached when the start is refused for it; the promise at
  2355-2361, that a document failing a mandated check is not left behind, is kept by the
  refresh only. A refresh rolls it back, but a child that starts between its publish and
  its refusal (2401, 2462) reads it. A load in a polling process would move the record
  of what is installed without installing it. The docstring of the cache's rollback says
  that a refused document stays when there is nothing to put back; the code removes it,
  and says why (`policy_distribution.py:2512-2516`, 2547-2556). The model follows the
  code.
* *Ceiling.* A fold keeps the posture of the higher document's channels and drops the
  one beneath it (`ScopedMap.compose`, 1099-1103), where the docstrings say that a
  refresh loses no local restriction and that a local document can add restrictions
  (3430-3436, 3489-3490). `Exact` follows the code. A load in a running process
  records its fold as the one in effect without installing it (3604-3606; docstring
  3006-3010), so that the next quiet poll, which compares with the record, leaves what
  is installed as it is: `RecordIsInstalled` holds only where no caller loaded since
  (`reloaded`). The core's load without the edition raises for an unusable home file that
  the edition's document, or a central one it declares, would outrank
  (`CoreLoad` refuses; docstring `governance.py:3516-3519`). A central document
  reached through a block of a home file that is not the folded subordinate leaves the
  ceiling without a source, so that host never refreshes (3575-3590, 1920-1937). A
  composed AND of lists hides its patterns from `_ceiling_mentions_mcp_server` and
  `_command_deny_patterns`, which read plain rulesets (3942-3973, 2098-2117).
* *Profile store.* The directory is listed for the fingerprint and again for the reload.
  When only the second listing fails, the good fingerprint is committed beside an empty
  or old snapshot, and the files are not looked at again until one is edited
  (`governance_profiles.py:557-560`, 576, 594, 616-618). A file that comes and goes
  between fingerprint and listing stays active. `Follows` excludes just these cases, in
  which the directory looks again as the fingerprint says (`CameBack`).

Hazards seen in the code that no module covers yet, with the module planned for them: a
failed reload that leaves a removed drop-in loaded (`manage.py:179`), a before-receipt planned again
(405), one operator rolling back while another activates (456); a client clock ahead of
the host (`collector.py:278`); integrate's replacement without the product's lock
(`remote.py:231`); two uploads of one stage (`remote.py:139`); a probe's record and
artifact (`serve-demo-probes.py:314`); the removal of a failed runtime installation
(`install-runtime-bundle.py:341`); the audit record before the call
(`mcp-enforcement/server.py:163`).

Next, in this order:

1. `Ceiling`'s readers: the resolution of a call against ceiling and profile, and the
   two readers that look for patterns in a composed ruleset.
2. `Staging`: `receive` and `verify_stage`, two uploads of one stage, killed uploads.
3. `ProbeServer`: `OperatorState` with requests and the background run.
4. `TelemetryTimer`: setup and stop of the client's timer, composed with `Dashboard`.
5. `RuntimeInstall` and `HostControls`: installers with an undoing of their own.
6. `Routes`: `route_segments` as a function against a reference definition.

Theorems next: those of the modules above as they are written. In the present ones,
`ChainIntact` with `LongTails` and a tail that always fits, which would state the
hypothesis on the files and not on a constant; the reports of activation and rollback
for several operators under a hypothesis on what the others do meanwhile; and
`RefreshTypes` and `CachePaired` with failures, where the pair may be torn and only
what repairs it can be stated.
