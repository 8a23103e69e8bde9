---------------------------- MODULE SampleStore ----------------------------
(***************************************************************************)
(* The observability store (store_sample of                                *)
(* infrastructure/observability-collector/collector.py): the timer's       *)
(* server samples and the client samples that arrive over SSH each run a   *)
(* process that takes one file lock with a deadline, reads the history and *)
(* the shared event file, and replaces three files one after the other.    *)
(* A process may fail at a write or be killed anywhere.                     *)
(***************************************************************************)
EXTENDS Naturals, Sequences, Picking

CONSTANTS
  Writers,      \* collector processes
  Sources,      \* METRICS: "client" and "server"
  Checks,       \* what a sample's health checks may say
  ErrorCodes,   \* the probe errors a sample may list, in sorted order
  HistoryLimit, \* SAMPLE_LIMIT
  EventLimit,   \* EVENT_LIMIT
  MaxSkew,      \* how far a timestamp may be from the host's clock
  MaxTime,      \* bound on the clock and on timestamps
  MaxFaults,    \* bound on failing writes and kills
  None, Free

Errors == {ErrorCodes[i] : i \in DOMAIN ErrorCodes}
StoreCodes == {"first_sample", "checks_changed", "sample_recovered"}

Samples == [source: Sources, at: 0 .. MaxTime, checks: Checks, errors: SUBSET Errors]

ASSUME StoreAssumption ==
  /\ ErrorCodes \in Seq(STRING) /\ Errors \cap StoreCodes = {}
  /\ \A i, j \in DOMAIN ErrorCodes : ErrorCodes[i] = ErrorCodes[j] => i = j
  /\ HistoryLimit \in Nat \ {0} /\ EventLimit \in Nat \ {0}
  /\ MaxSkew \in Nat /\ MaxTime \in Nat /\ MaxFaults \in Nat
  /\ Free \notin Writers /\ None \notin Samples

VARIABLES
  clock,    \* the host's clock, in the whole seconds of collected_at
  history,  \* <source>-history.jsonl
  events,   \* events.jsonl, shared by the sources
  latest,   \* <source>.json
  lock,     \* holder of .collector.lock
  pc,
  sample,   \* what a process stores
  known,    \* the history and the events it will write, from what it read
  stored,   \* processes that ended well, until they store again
  faults

files == <<history, events, latest>>
process == <<pc, sample, known, stored>>
storeVars == <<clock, history, events, latest, lock, pc, sample, known, stored, faults>>

-----------------------------------------------------------------------------
Last(seq) == IF seq = <<>> THEN None ELSE seq[Len(seq)]

\* The last `limit` elements; and one more than that.
LastOver(seq, limit) ==
  IF Len(seq) > limit + 1 THEN SubSeq(seq, Len(seq) - limit, Len(seq)) ELSE seq
Lasts(seq, limit) ==
  IF Len(seq) > limit THEN SubSeq(seq, Len(seq) - limit + 1, Len(seq)) ELSE seq

Event(s, code) == [source |-> s.source, at |-> s.at, code |-> code]

EventsFor(s, codes) == [i \in DOMAIN codes |-> Event(s, codes[i])]

When(condition, code) == IF condition THEN <<code>> ELSE <<>>

\* A set of error codes, as a sample lists it.
Listed(codes) == Picked(ErrorCodes, codes)

NewErrors(previous, s) == s.errors \ (IF previous = None THEN {} ELSE previous.errors)

\* A wrong reading: a change of the checks goes unsaid beside a probe error.
TransitionQuiet(previous, s) ==
  EventsFor(s,
    When(previous = None, "first_sample")
    \o (IF previous = None THEN <<>> ELSE
          When(previous.checks # s.checks /\ s.errors = {}, "checks_changed")
          \o When(previous.errors # {} /\ s.errors = {}, "sample_recovered"))
    \o Listed(NewErrors(previous, s)))

\* transition_events.
Transition(previous, s) ==
  EventsFor(s,
    When(previous = None, "first_sample")
    \o (IF previous = None THEN <<>> ELSE
          When(previous.checks # s.checks, "checks_changed")
          \o When(previous.errors # {} /\ s.errors = {}, "sample_recovered"))
    \o Listed(NewErrors(previous, s)))

-----------------------------------------------------------------------------
Init ==
  /\ clock = 0
  /\ history = [src \in Sources |-> <<>>] /\ events = <<>>
  /\ latest = [src \in Sources |-> None]
  /\ lock = Free
  /\ pc = [w \in Writers |-> "idle"]
  /\ sample = [w \in Writers |-> None]
  /\ known = [w \in Writers |-> None]
  /\ stored = {}
  /\ faults = 0

Goto(w, next) == pc' = [pc EXCEPT ![w] = next] /\ UNCHANGED <<sample, known, stored>>

Stop(w, how) ==
  /\ pc' = [pc EXCEPT ![w] = "idle"]
  /\ sample' = [sample EXCEPT ![w] = None]
  /\ known' = [known EXCEPT ![w] = None]
  /\ stored' = IF how = "stored" THEN stored \cup {w} ELSE stored

Fault == faults < MaxFaults /\ faults' = faults + 1

\* finally: closing the lock file gives the lock back, whatever happened.
ReleasedOnStop(w, how) == Stop(w, how) /\ lock' = IF how = "failed" THEN lock ELSE Free
Released(w, how) == Stop(w, how) /\ lock' = Free

\* validate_sample: the host's clock and the sample's are close.
Timely(s) == s.at <= clock + MaxSkew /\ clock <= s.at + MaxSkew

Begin(w, s) ==
  /\ pc[w] = "idle" /\ Timely(s)
  /\ pc' = [pc EXCEPT ![w] = "lock"]
  /\ sample' = [sample EXCEPT ![w] = s]
  /\ stored' = stored \ {w}
  /\ UNCHANGED <<clock, files, lock, known, faults>>

\* The lock is tried until a deadline of two seconds.
AcquireShared(w) ==
  /\ pc[w] = "lock" /\ lock' = w /\ Goto(w, "read")
  /\ UNCHANGED <<clock, files, faults>>

Acquire(w) ==
  /\ pc[w] = "lock"
  /\ \/ lock = Free /\ lock' = w /\ Goto(w, "read")
     \/ lock # Free /\ Stop(w, "busy") /\ UNCHANGED lock
  /\ UNCHANGED <<clock, files, faults>>

PreviousShown(w) == latest[sample[w].source]
Previous(w) == Last(history[sample[w].source])

\* As if a late sample were stored like any other.
AnyTime(w) == FALSE
OlderOnly(w) == Previous(w) # None /\ sample[w].at < Previous(w).at
NotNewer(w) == Previous(w) # None /\ sample[w].at <= Previous(w).at

\* Both files are read, and what will be written computed, before any write.
Read(w) ==
  /\ pc[w] = "read"
  /\ \/ NotNewer(w) /\ Released(w, "not_newer")
     \/ /\ ~NotNewer(w)
        /\ known' = [known EXCEPT ![w] =
             [history |-> Lasts(Append(history[sample[w].source], sample[w]), HistoryLimit),
              events |-> Lasts(events \o Transition(Previous(w), sample[w]), EventLimit)]]
        /\ pc' = [pc EXCEPT ![w] = "history"]
        /\ UNCHANGED <<lock, sample, stored>>
  /\ UNCHANGED <<clock, files, faults>>

\* atomic_write: the file is replaced as a whole, or the call fails before.
AtomicWrite(w, replaced, kept, done) ==
  \/ replaced /\ done /\ UNCHANGED faults
  \/ Fault /\ kept /\ Released(w, "failed")

WriteHistory(w) ==
  /\ pc[w] = "history"
  /\ AtomicWrite(w, history' = [history EXCEPT ![sample[w].source] = known[w].history],
                 UNCHANGED history, Goto(w, "events") /\ UNCHANGED lock)
  /\ UNCHANGED <<clock, events, latest>>

WriteEventsLast(w) ==
  /\ pc[w] = "events"
  /\ AtomicWrite(w, events' = known[w].events, UNCHANGED events, Released(w, "stored"))
  /\ UNCHANGED <<clock, history, latest>>

WriteEvents(w) ==
  /\ pc[w] = "events"
  /\ AtomicWrite(w, events' = known[w].events, UNCHANGED events,
                 Goto(w, "latest") /\ UNCHANGED lock)
  /\ UNCHANGED <<clock, history, latest>>

WriteLatest(w) ==
  /\ pc[w] = "latest"
  /\ AtomicWrite(w, latest' = [latest EXCEPT ![sample[w].source] = sample[w]],
                 UNCHANGED latest, Released(w, "stored"))
  /\ UNCHANGED <<clock, history, events>>

\* The timer's limit or a dropped session ends the process; its lock goes.
Kill(w) ==
  /\ pc[w] # "idle" /\ Fault
  /\ Stop(w, "killed")
  /\ lock' = IF lock = w THEN Free ELSE lock
  /\ UNCHANGED <<clock, files>>

Tick == clock < MaxTime /\ clock' = clock + 1 /\ UNCHANGED <<files, lock, process, faults>>

-----------------------------------------------------------------------------
Continue(w) ==
  Acquire(w) \/ Read(w) \/ WriteHistory(w) \/ WriteEvents(w) \/ WriteLatest(w)

\* A probe, or a client over SSH, hands a process any sample.
Submit(w) == \E s \in Samples : Begin(w, s)

Next == Tick \/ \E w \in Writers : Submit(w) \/ Continue(w) \/ Kill(w)

Spec == Init /\ [][Next]_storeVars

\* A process keeps running until it ends or is killed.
FairSpec == Spec /\ \A w \in Writers : WF_storeVars(Continue(w))

-----------------------------------------------------------------------------
EventCodes == Errors \cup StoreCodes
EventRecords == [source: Sources, at: 0 .. MaxTime, code: EventCodes]

\* Every variable has its type, the two bounded files included.
TypeOK ==
  /\ clock \in Nat /\ faults \in Nat
  /\ \A src \in Sources : /\ Len(history[src]) <= HistoryLimit
                          /\ \A i \in DOMAIN history[src] : history[src][i] \in Samples
  /\ DOMAIN history = Sources
  /\ Len(events) <= EventLimit
  /\ \A i \in DOMAIN events : events[i] \in EventRecords
  /\ latest \in [Sources -> Samples \cup {None}]
  /\ lock \in Writers \cup {Free}
  /\ pc \in [Writers -> {"idle", "lock", "read", "history", "events", "latest"}]
  /\ sample \in [Writers -> Samples \cup {None}]
  /\ stored \subseteq Writers

\* Each history is in strict time order, whatever order samples arrive in
\* and however often one is submitted: no sample is stored twice.
HistoryOrdered ==
  \A src \in Sources : \A i, j \in DOMAIN history[src] :
    i < j => history[src][i].at < history[src][j].at

\* No event is recorded twice, although a process may die after writing the
\* events and before the file its sample would be shown from.
NoEventTwice ==
  \A i, j \in DOMAIN events : events[i] = events[j] => i = j

Recorded(s, code, seq) == \E i \in DOMAIN seq : seq[i] = Event(s, code)

\* What the store's documentation says it keeps: between stores, a change of
\* the checks from one kept sample to the next has its event, unless newer
\* events have filled the file. Concurrent stores, refusals and lock timeouts
\* lose none; a process that is cut short may.
UncutChangesRecorded ==
  faults = 0 /\ lock = Free /\ Len(events) < EventLimit =>
    \A src \in Sources : \A i \in DOMAIN history[src] :
      i > 1 /\ history[src][i].checks # history[src][i - 1].checks
      => Recorded(history[src][i], "checks_changed", events)

\* The store is a register of accepted and shown samples: a killed, delayed
\* or overtaken process never shows an old sample over a newer one.
Register == INSTANCE SampleRegister
  WITH accepted <- [src \in Sources |-> Last(history[src])], shown <- latest
ImplementsRegister == Register!Spec

\* Every process that has a sample to store ends, and leaves the lock.
StoresEnd == \A w \in Writers : (pc[w] # "idle" \/ lock = w) ~> (pc[w] = "idle" /\ lock # w)
=============================================================================
