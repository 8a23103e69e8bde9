------------------------- MODULE SampleStore_proofs -------------------------
(* Proofs about SampleStore for every set of writers, sources, checks and     *)
(* error codes, every limit of the two files, and every number of faults; and *)
(* about Dashboard, the store between its client and its backend.             *)
EXTENDS Dashboard, Picking_proofs, SequenceTheorems, TLAPS

-----------------------------------------------------------------------------
(* What Listed lists: the codes asked for, each once.                         *)

Once(seq) == \A i, j \in DOMAIN seq : seq[i] = seq[j] => i = j

LEMMA ListedProperties ==
  ASSUME NEW codes
  PROVE  Listed(codes) \in Seq(Errors \cap codes) /\ Once(Listed(codes))
<1> DEFINE listed == Picked(ErrorCodes, codes)
<1>1. ErrorCodes \in Seq(STRING)
  BY StoreAssumption
<1>2. listed \in Seq(STRING) /\ \E at : PickedAt(ErrorCodes, codes, listed, at)
  BY <1>1, PickedProperties
<1> HIDE DEF listed
<1>3. PICK at : PickedAt(ErrorCodes, codes, listed, at)
  BY <1>2
<1>4. /\ Len(listed) \in Nat /\ DOMAIN listed = 1 .. Len(listed)
      /\ DOMAIN ErrorCodes = 1 .. Len(ErrorCodes)
  BY <1>1, <1>2, LenProperties
<1>5. \A i \in 1 .. Len(listed) :
        at[i] \in DOMAIN ErrorCodes /\ listed[i] = ErrorCodes[at[i]] /\ listed[i] \in codes
  BY <1>3, <1>4 DEF PickedAt, PickedOf
<1>6. listed \in Seq(Errors \cap codes)
  <2>1. \A i \in 1 .. Len(listed) : listed[i] \in Errors \cap codes
    BY <1>5 DEF Errors
  <2> QED
    BY <1>2, <1>4, <2>1
<1>7. ASSUME NEW i \in 1 .. Len(listed), NEW j \in 1 .. Len(listed), listed[i] = listed[j]
      PROVE  i = j
  <2>1. at[i] = at[j]
    BY <1>5, <1>7, StoreAssumption
  <2> QED
    BY <1>3, <1>4, <2>1 DEF PickedAt, PickedOf
<1> QED
  BY <1>4, <1>6, <1>7 DEF Once, Listed, listed

-----------------------------------------------------------------------------
(* What a store keeps of a file, and the events it adds.                      *)

\* `end` is `seq` without its first `cut` elements, few enough for the limit.
CutTo(end, seq, limit, cut) ==
  /\ Len(end) + cut = Len(seq)
  /\ cut > 0 => Len(end) = limit
  /\ \A i \in 1 .. Len(end) : end[i] = seq[i + cut]

LEMMA LastsProperties ==
  ASSUME NEW S, NEW seq \in Seq(S), NEW limit \in Nat
  PROVE  /\ Lasts(seq, limit) \in Seq(S)
         /\ Len(Lasts(seq, limit)) <= limit
         /\ \E cut \in Nat : CutTo(Lasts(seq, limit), seq, limit, cut)
<1>0. Len(seq) \in Nat
  BY LenProperties
<1>1. CASE Len(seq) > limit
  <2> DEFINE cut == Len(seq) - limit
             last == SubSeq(seq, cut + 1, Len(seq))
  <2>0. cut \in Nat /\ cut > 0 /\ cut + 1 \in Int /\ cut + 1 <= Len(seq) + 1
    BY <1>0, <1>1
  <2>1. Lasts(seq, limit) = last
    BY <1>1 DEF Lasts
  <2>2. \A i \in cut + 1 .. Len(seq) : seq[i] \in S
    BY <1>0, <2>0, ElementOfSeq
  <2>3. /\ last \in Seq(S)
        /\ Len(last) = IF cut + 1 <= Len(seq) THEN Len(seq) - (cut + 1) + 1 ELSE 0
        /\ \A i \in 1 .. Len(seq) - (cut + 1) + 1 : last[i] = seq[cut + 1 + i - 1]
    <3> HIDE DEF cut
    <3> QED
      BY <1>0, <2>0, <2>2, SubSeqProperties
  <2>4. Len(last) = limit
    <3> HIDE DEF last
    <3> QED
      BY <1>0, <1>1, <2>3
  <2>5. \A i \in 1 .. limit : last[i] = seq[i + cut]
    <3> HIDE DEF last
    <3> QED
      BY <1>0, <2>0, <2>3
  <2>6. limit + cut = Len(seq)
    BY <1>0
  <2> HIDE DEF last, cut
  <2>7. CutTo(last, seq, limit, cut)
    BY <2>4, <2>5, <2>6 DEF CutTo
  <2> QED
    BY <2>0, <2>1, <2>3, <2>4, <2>7
<1>2. CASE Len(seq) <= limit
  <2>1. Lasts(seq, limit) = seq
    BY <1>0, <1>2 DEF Lasts
  <2>2. Len(seq) + 0 = Len(seq) /\ \A i \in 1 .. Len(seq) : i + 0 = i
    BY <1>0
  <2>3. CutTo(seq, seq, limit, 0)
    BY <2>2 DEF CutTo
  <2> QED
    BY <1>2, <2>1, <2>3
<1> QED
  BY <1>0, <1>1, <1>2

LEMMA OnceConcat ==
  ASSUME NEW S, NEW s \in Seq(S), NEW t \in Seq(S), Once(s), Once(t),
         \A i \in DOMAIN s : \A j \in DOMAIN t : s[i] # t[j]
  PROVE  Once(s \o t)
<1>1. /\ Len(s) \in Nat /\ DOMAIN s = 1 .. Len(s)
      /\ Len(t) \in Nat /\ DOMAIN t = 1 .. Len(t)
  BY LenProperties
<1>2. /\ s \o t \in Seq(S)
      /\ Len(s \o t) = Len(s) + Len(t)
      /\ \A i \in 1 .. Len(s) + Len(t) :
           (s \o t)[i] = IF i <= Len(s) THEN s[i] ELSE t[i - Len(s)]
  BY ConcatProperties
<1>3. DOMAIN (s \o t) = 1 .. Len(s) + Len(t)
  BY <1>2, LenProperties
<1>4. \A i \in 1 .. Len(s) + Len(t) : i > Len(s) => i - Len(s) \in 1 .. Len(t)
  BY <1>1
<1> QED
  BY <1>1, <1>2, <1>3, <1>4 DEF Once

LEMMA EventsForProperties ==
  ASSUME NEW s \in Samples, NEW codes \in Seq(EventCodes), Once(codes)
  PROVE  /\ EventsFor(s, codes) \in Seq(EventRecords)
         /\ Len(EventsFor(s, codes)) = Len(codes)
         /\ Once(EventsFor(s, codes))
         /\ \A i \in 1 .. Len(codes) : EventsFor(s, codes)[i] = Event(s, codes[i])
<1>1. Len(codes) \in Nat /\ DOMAIN codes = 1 .. Len(codes)
  BY LenProperties
<1>2. \A i \in 1 .. Len(codes) : codes[i] \in EventCodes
  BY ElementOfSeq
<1>3. \A i \in 1 .. Len(codes) : Event(s, codes[i]) \in EventRecords
  BY <1>2 DEF Event, EventRecords, Samples
<1>4. EventsFor(s, codes) = [i \in 1 .. Len(codes) |-> Event(s, codes[i])]
  BY <1>1 DEF EventsFor
<1>5. \A i, j \in 1 .. Len(codes) : Event(s, codes[i]) = Event(s, codes[j]) => codes[i] = codes[j]
  BY DEF Event
<1>6. \A i, j \in 1 .. Len(codes) : codes[i] = codes[j] => i = j
  BY <1>1 DEF Once
<1>7. EventsFor(s, codes) \in Seq(EventRecords) /\ Len(EventsFor(s, codes)) = Len(codes)
  BY <1>1, <1>3, <1>4
<1> QED
  BY <1>1, <1>4, <1>5, <1>6, <1>7 DEF Once

LEMMA RecordedLater ==
  ASSUME NEW S, NEW a \in Seq(S), NEW b \in Seq(S), NEW s, NEW code,
         Recorded(s, code, a) \/ Recorded(s, code, b)
  PROVE  Recorded(s, code, a \o b)
<1>1. /\ Len(a) \in Nat /\ DOMAIN a = 1 .. Len(a)
      /\ Len(b) \in Nat /\ DOMAIN b = 1 .. Len(b)
  BY LenProperties
<1>2. /\ a \o b \in Seq(S)
      /\ Len(a \o b) = Len(a) + Len(b)
      /\ \A i \in 1 .. Len(a) + Len(b) :
           (a \o b)[i] = IF i <= Len(a) THEN a[i] ELSE b[i - Len(a)]
  BY ConcatProperties
<1>3. DOMAIN (a \o b) = 1 .. Len(a) + Len(b)
  BY <1>2, LenProperties
<1>4. CASE Recorded(s, code, a)
  BY <1>1, <1>2, <1>3, <1>4 DEF Recorded
<1>5. CASE Recorded(s, code, b)
  <2>1. PICK i \in 1 .. Len(b) : b[i] = Event(s, code)
    BY <1>1, <1>5 DEF Recorded
  <2>2. i + Len(a) \in 1 .. Len(a) + Len(b) /\ ~(i + Len(a) <= Len(a))
        /\ i + Len(a) - Len(a) = i
    BY <1>1
  <2> QED
    BY <1>2, <1>3, <2>1, <2>2 DEF Recorded
<1> QED
  BY <1>4, <1>5

\* The codes of a transition that are not of a new error.
Noted(previous, s) ==
  When(previous = None, "first_sample")
  \o (IF previous = None THEN <<>> ELSE
        When(previous.checks # s.checks, "checks_changed")
        \o When(previous.errors # {} /\ s.errors = {}, "sample_recovered"))

LEMMA WhenProperties ==
  ASSUME NEW condition \in BOOLEAN, NEW code \in StoreCodes
  PROVE  /\ When(condition, code) \in Seq(StoreCodes)
         /\ Once(When(condition, code))
         /\ \A i \in DOMAIN When(condition, code) : When(condition, code)[i] = code
         /\ condition => 1 \in DOMAIN When(condition, code)
<1>1. /\ <<code>> \in Seq(StoreCodes) /\ DOMAIN <<code>> = {1} /\ <<code>>[1] = code
      /\ <<>> \in Seq(StoreCodes) /\ DOMAIN <<>> = {}
  BY EmptySeq, LenProperties
<1> QED
  BY <1>1 DEF When, Once

LEMMA NotedProperties ==
  ASSUME NEW previous \in Samples \cup {None}, NEW s \in Samples
  PROVE  /\ Noted(previous, s) \in Seq(StoreCodes)
         /\ Once(Noted(previous, s))
         /\ previous = None => Noted(previous, s)[1] = "first_sample"
                               /\ 1 \in DOMAIN Noted(previous, s)
         /\ previous # None /\ previous.checks # s.checks
              => Noted(previous, s)[1] = "checks_changed" /\ 1 \in DOMAIN Noted(previous, s)
<1> DEFINE first == When(previous = None, "first_sample")
           changed == When(previous.checks # s.checks, "checks_changed")
           recovered == When(previous.errors # {} /\ s.errors = {}, "sample_recovered")
<1>0. <<>> \in Seq(StoreCodes) /\ DOMAIN <<>> = {}
  BY EmptySeq
<1>1. CASE previous = None
  <2>1. first = <<"first_sample">> /\ Noted(previous, s) = first \o <<>>
    BY <1>1 DEF Noted, When
  <2>2. Noted(previous, s) = <<"first_sample">>
    BY <2>1
  <2>3. <<"first_sample">> \in Seq(StoreCodes) /\ DOMAIN <<"first_sample">> = {1}
        /\ <<"first_sample">>[1] = "first_sample"
    BY DEF StoreCodes
  <2> HIDE DEF first
  <2> QED
    BY <1>1, <2>2, <2>3 DEF Once
<1>2. CASE previous # None
  <2>1. first = <<>> /\ Noted(previous, s) = <<>> \o (changed \o recovered)
    BY <1>2 DEF Noted, When
  <2>2. /\ changed \in Seq(StoreCodes) /\ Once(changed)
        /\ \A i \in DOMAIN changed : changed[i] = "checks_changed"
        /\ previous.checks # s.checks => 1 \in DOMAIN changed
    BY WhenProperties DEF StoreCodes
  <2>3. /\ recovered \in Seq(StoreCodes) /\ Once(recovered)
        /\ \A i \in DOMAIN recovered : recovered[i] = "sample_recovered"
    BY WhenProperties DEF StoreCodes
  <2> HIDE DEF changed, recovered, first
  <2>4. changed \o recovered \in Seq(StoreCodes) /\ Once(changed \o recovered)
    BY <2>2, <2>3, OnceConcat, ConcatProperties
  <2>5. Noted(previous, s) = changed \o recovered
    BY <2>1, <2>4, ConcatEmptySeq
  <2>6. ASSUME previous.checks # s.checks
        PROVE  (changed \o recovered)[1] = "checks_changed"
               /\ 1 \in DOMAIN (changed \o recovered)
    <3>1. /\ Len(changed) \in Nat /\ DOMAIN changed = 1 .. Len(changed)
          /\ Len(recovered) \in Nat
      BY <2>2, <2>3, LenProperties
    <3>2. 1 \in 1 .. Len(changed) /\ changed[1] = "checks_changed"
      BY <2>2, <2>6, <3>1
    <3>3. /\ Len(changed \o recovered) = Len(changed) + Len(recovered)
          /\ (changed \o recovered)[1] = changed[1]
      BY <2>2, <2>3, <3>1, <3>2, ConcatProperties
    <3>4. DOMAIN (changed \o recovered) = 1 .. Len(changed \o recovered)
      BY <2>4, LenProperties
    <3> QED
      BY <3>1, <3>2, <3>3, <3>4
  <2>7. previous # None /\ previous.checks # s.checks
          => Noted(previous, s)[1] = "checks_changed" /\ 1 \in DOMAIN Noted(previous, s)
    BY <2>5, <2>6
  <2> QED
    BY <1>2, <2>4, <2>5, <2>7
<1> QED
  BY <1>1, <1>2

LEMMA TransitionProperties ==
  ASSUME NEW previous \in Samples \cup {None}, NEW s \in Samples
  PROVE  /\ Transition(previous, s) \in Seq(EventRecords)
         /\ Once(Transition(previous, s))
         /\ \A i \in 1 .. Len(Transition(previous, s)) :
              /\ Transition(previous, s)[i].source = s.source
              /\ Transition(previous, s)[i].at = s.at
         /\ previous = None => Recorded(s, "first_sample", Transition(previous, s))
         /\ previous # None /\ previous.checks # s.checks
              => Recorded(s, "checks_changed", Transition(previous, s))
<1> DEFINE noted == Noted(previous, s)
           listed == Listed(NewErrors(previous, s))
           codes == noted \o listed
<1>1. /\ noted \in Seq(StoreCodes) /\ Once(noted)
      /\ previous = None => noted[1] = "first_sample" /\ 1 \in DOMAIN noted
      /\ previous # None /\ previous.checks # s.checks
           => noted[1] = "checks_changed" /\ 1 \in DOMAIN noted
  BY NotedProperties
<1>2. listed \in Seq(Errors) /\ Once(listed)
  <2>1. listed \in Seq(Errors \cap NewErrors(previous, s)) /\ Once(listed)
    BY ListedProperties
  <2> HIDE DEF listed
  <2> QED
    BY <2>1, SeqMonotonic
<1>3. Transition(previous, s) = EventsFor(s, codes)
  BY DEF Transition, Noted
<1> HIDE DEF noted, listed
<1>4. /\ Len(noted) \in Nat /\ DOMAIN noted = 1 .. Len(noted)
      /\ Len(listed) \in Nat /\ DOMAIN listed = 1 .. Len(listed)
  BY <1>1, <1>2, LenProperties
<1>5. \A i \in DOMAIN noted : \A j \in DOMAIN listed : noted[i] # listed[j]
  <2>1. \A i \in 1 .. Len(noted) : noted[i] \in StoreCodes
    BY <1>1, ElementOfSeq
  <2>2. \A i \in 1 .. Len(listed) : listed[i] \in Errors
    BY <1>2, ElementOfSeq
  <2> QED
    BY <1>4, <2>1, <2>2, StoreAssumption
<1>6. noted \in Seq(EventCodes) /\ listed \in Seq(EventCodes)
  BY <1>1, <1>2, SeqMonotonic DEF EventCodes
<1>7. codes \in Seq(EventCodes) /\ Once(codes)
  BY <1>1, <1>2, <1>5, <1>6, OnceConcat, ConcatProperties
<1>8. \A i \in 1 .. Len(noted) : i \in 1 .. Len(codes) /\ codes[i] = noted[i]
  BY <1>4, <1>6, ConcatProperties
<1> HIDE DEF codes
<1>9. /\ EventsFor(s, codes) \in Seq(EventRecords)
      /\ Len(EventsFor(s, codes)) = Len(codes)
      /\ Once(EventsFor(s, codes))
      /\ \A i \in 1 .. Len(codes) : EventsFor(s, codes)[i] = Event(s, codes[i])
  BY <1>7, EventsForProperties
<1>10. DOMAIN EventsFor(s, codes) = 1 .. Len(codes)
  BY <1>9, LenProperties
<1>11. ASSUME 1 \in DOMAIN noted PROVE Recorded(s, noted[1], EventsFor(s, codes))
  BY <1>4, <1>8, <1>9, <1>10, <1>11 DEF Recorded
<1>12. \A i \in 1 .. Len(EventsFor(s, codes)) :
         /\ EventsFor(s, codes)[i].source = s.source
         /\ EventsFor(s, codes)[i].at = s.at
  <2>1. \A code : Event(s, code).source = s.source /\ Event(s, code).at = s.at
    BY DEF Event
  <2> QED
    BY <1>9, <2>1
<1>13. previous = None => Recorded(s, "first_sample", EventsFor(s, codes))
  BY <1>1, <1>11
<1>14. previous # None /\ previous.checks # s.checks
         => Recorded(s, "checks_changed", EventsFor(s, codes))
  BY <1>1, <1>11
<1> QED
  BY <1>3, <1>9, <1>12, <1>13, <1>14, Zenon

-----------------------------------------------------------------------------
(* The inductive invariant.                                                   *)

Phases == {"idle", "lock", "read", "history", "events", "latest"}
Work == [history: Seq(Samples), events: Seq(EventRecords)]

Types ==
  /\ clock \in Nat /\ faults \in Nat
  /\ history \in [Sources -> Seq(Samples)]
  /\ \A src \in Sources : Len(history[src]) <= HistoryLimit
  /\ events \in Seq(EventRecords) /\ Len(events) <= EventLimit
  /\ latest \in [Sources -> Samples \cup {None}]
  /\ lock \in Writers \cup {Free}
  /\ pc \in [Writers -> Phases]
  /\ sample \in [Writers -> Samples \cup {None}]
  /\ known \in [Writers -> Work \cup {None}]
  /\ stored \subseteq Writers

\* One process is between reading the files and its last write, with the lock.
Holding(w) == pc[w] \in {"read", "history", "events", "latest"}
LockHeld == \A w \in Writers : Holding(w) <=> lock = w
HasSample == \A w \in Writers : pc[w] # "idle" => sample[w] \in Samples

\* Every event is of a sample that its source's history reached.
EventsReached ==
  \A i \in 1 .. Len(events) :
    /\ history[events[i].source] # <<>>
    /\ events[i].at <= Last(history[events[i].source]).at

\* No event of the source is as new as the sample.
EventsBefore(s) == \A i \in 1 .. Len(events) : events[i].source = s.source => events[i].at < s.at

\* What a process will write still follows from what the files hold.
ReadyHistory ==
  \A w \in Writers : pc[w] = "history" =>
    /\ ~NotNewer(w)
    /\ known[w].history = Lasts(Append(history[sample[w].source], sample[w]), HistoryLimit)
    /\ known[w].events = Lasts(events \o Transition(Previous(w), sample[w]), EventLimit)

\* The sample before the newest one, or None for a source's first.
Before(src, p) ==
  /\ p \in Samples \cup {None}
  /\ Len(history[src]) > 1 => p = history[src][Len(history[src]) - 1]
  /\ Len(history[src]) = 1 /\ HistoryLimit > 1 => p = None

ReadyEvents ==
  \A w \in Writers : pc[w] = "events" =>
    /\ Previous(w) = sample[w] /\ EventsBefore(sample[w])
    /\ \E p : /\ Before(sample[w].source, p)
              /\ known[w].events = Lasts(events \o Transition(p, sample[w]), EventLimit)

ReadyLatest == \A w \in Writers : pc[w] = "latest" => Previous(w) = sample[w]

\* The i-th sample of a history has its events in a sequence of events.
Explained(h, i, seq) ==
  /\ i > 1 /\ h[i].checks # h[i - 1].checks => Recorded(h[i], "checks_changed", seq)
  /\ i = 1 /\ Len(h) < HistoryLimit => Recorded(h[i], "first_sample", seq)

\* The newest sample of the source has its events still to be written.
Writing(src) == \E w \in Writers : pc[w] = "events" /\ sample[w].source = src

UncutExplained ==
  faults = 0 /\ Len(events) < EventLimit =>
    \A src \in Sources : \A i \in 1 .. Len(history[src]) :
      (i = Len(history[src]) /\ Writing(src)) \/ Explained(history[src], i, events)

IInv ==
  /\ Types /\ LockHeld /\ HasSample
  /\ HistoryOrdered /\ Once(events) /\ EventsReached /\ UncutExplained
  /\ ReadyHistory /\ ReadyEvents /\ ReadyLatest

\* The part that the history and the event file make alone.
FilesInv == HistoryOrdered /\ Once(events) /\ EventsReached

LEMMA InvInitially == Init => IInv
<1> SUFFICES ASSUME Init PROVE IInv
  OBVIOUS
<1>1. <<>> \in Seq(Samples) /\ <<>> \in Seq(EventRecords) /\ Len(<<>>) = 0 /\ DOMAIN <<>> = {}
  BY EmptySeq
<1>2. Types
  BY <1>1, StoreAssumption DEF Init, Types, Phases
<1>3. LockHeld /\ HasSample /\ ReadyHistory /\ ReadyEvents /\ ReadyLatest
  BY StoreAssumption
  DEF Init, LockHeld, HasSample, Holding, ReadyHistory, ReadyEvents, ReadyLatest
<1>4. HistoryOrdered /\ Once(events) /\ EventsReached /\ UncutExplained
  BY <1>1 DEF Init, HistoryOrdered, Once, EventsReached, UncutExplained
<1> QED
  BY <1>2, <1>3, <1>4 DEF IInv

\* What only the two bounded files and the clock say stays while they do.
LEMMA FilesKept ==
  ASSUME FilesInv, UNCHANGED <<history, events>>
  PROVE  FilesInv'
  BY DEF FilesInv, HistoryOrdered, Once, EventsReached, Last

\* A process gives up, is refused, fails, is killed or ends, with the lock.
LEMMA Stopping ==
  ASSUME IInv, NEW w \in Writers, NEW how, Stop(w, how),
         UNCHANGED <<clock, history, events>>,
         latest' \in [Sources -> Samples \cup {None}],
         lock' = IF lock = w THEN Free ELSE lock,
         faults' \in Nat, faults' = 0 => faults = 0 /\ pc[w] # "events"
  PROVE  IInv'
<1>1. Types'
  BY DEF IInv, Types, Stop, Phases
<1>2. /\ pc'[w] = "idle"
      /\ \A v \in Writers : v # w => pc'[v] = pc[v] /\ sample'[v] = sample[v] /\ known'[v] = known[v]
  BY DEF IInv, Types, Stop
<1>3. LockHeld'
  BY <1>2, StoreAssumption DEF IInv, Types, LockHeld, Holding
<1>4. HasSample'
  BY <1>2 DEF IInv, HasSample
<1>5. FilesInv'
  BY FilesKept DEF IInv, FilesInv
<1>6. ReadyHistory'
  BY <1>2 DEF IInv, ReadyHistory, NotNewer, Previous, Last
<1>7. ReadyEvents'
  BY <1>2 DEF IInv, ReadyEvents, EventsBefore, Before, Previous, Last
<1>8. ReadyLatest'
  BY <1>2 DEF IInv, ReadyLatest, Previous, Last
<1>9. UncutExplained'
  <2>1. faults' = 0 => \A src : Writing(src) => Writing(src)'
    BY <1>2 DEF Writing
  <2> QED
    BY <2>1 DEF IInv, UncutExplained, Explained, Recorded
<1> QED
  BY <1>1, <1>3, <1>4, <1>5, <1>6, <1>7, <1>8, <1>9 DEF IInv, FilesInv

\* A process goes where it has nothing ready to write, and no file changes.
LEMMA Going ==
  ASSUME IInv, NEW w \in Writers, pc[w] \in {"idle", "lock"},
         NEW phase \in {"lock", "read"}, NEW s \in Samples,
         pc' = [pc EXCEPT ![w] = phase],
         sample' = [sample EXCEPT ![w] = s],
         known' = known, stored' \subseteq Writers,
         UNCHANGED <<clock, history, events, latest, faults>>,
         lock' \in Writers \cup {Free}, LockHeld'
  PROVE  IInv'
<1>1. Types'
  BY DEF IInv, Types, Phases
<1>2. /\ pc'[w] = phase /\ sample'[w] = s
      /\ \A v \in Writers : v # w => pc'[v] = pc[v] /\ sample'[v] = sample[v]
  BY DEF IInv, Types
<1>3. HasSample'
  BY <1>2 DEF IInv, HasSample
<1>4. FilesInv'
  BY FilesKept DEF IInv, FilesInv
<1>5. ReadyHistory'
  BY <1>2 DEF IInv, ReadyHistory, NotNewer, Previous, Last
<1>6. ReadyEvents'
  BY <1>2 DEF IInv, ReadyEvents, EventsBefore, Before, Previous, Last
<1>7. ReadyLatest'
  BY <1>2 DEF IInv, ReadyLatest, Previous, Last
<1>8. UncutExplained'
  <2>1. \A src : Writing(src) => Writing(src)'
    BY <1>2 DEF Writing
  <2> QED
    BY <2>1 DEF IInv, UncutExplained, Explained, Recorded
<1> QED
  BY <1>1, <1>3, <1>4, <1>5, <1>6, <1>7, <1>8 DEF IInv, FilesInv

\* Nothing changes but the clock.
LEMMA Resting ==
  ASSUME IInv, UNCHANGED <<files, lock, process, faults>>, clock' \in Nat
  PROVE  IInv'
<1>1. UNCHANGED <<history, events, latest, lock, pc, sample, known, stored, faults>>
  BY DEF files, process
<1>2. Types' /\ LockHeld' /\ HasSample'
  BY <1>1 DEF IInv, Types, LockHeld, HasSample, Holding
<1>3. FilesInv'
  BY <1>1, FilesKept DEF IInv, FilesInv
<1>4. ReadyHistory' /\ ReadyEvents' /\ ReadyLatest'
  BY <1>1 DEF IInv, ReadyHistory, ReadyEvents, ReadyLatest, NotNewer, EventsBefore, Before,
              Previous, Last
<1>5. UncutExplained'
  BY <1>1 DEF IInv, UncutExplained, Explained, Recorded, Writing
<1> QED
  BY <1>2, <1>3, <1>4, <1>5 DEF IInv, FilesInv

LEMMA LastProperties ==
  ASSUME NEW S, NEW seq \in Seq(S), seq # <<>>
  PROVE  /\ Len(seq) \in Nat \ {0}
         /\ Last(seq) = seq[Len(seq)] /\ Last(seq) \in S
  BY EmptySeq, ElementOfSeq DEF Last

\* The previous sample, and what its time says of the events.
LEMMA PreviousProperties ==
  ASSUME IInv, NEW w \in Writers, sample[w] \in Samples
  PROVE  /\ Previous(w) \in Samples \cup {None}
         /\ Previous(w) = None <=> history[sample[w].source] = <<>>
         /\ ~NotNewer(w) => EventsBefore(sample[w])
<1> DEFINE h == history[sample[w].source]
<1>1. sample[w].source \in Sources /\ sample[w].at \in Nat
  BY DEF Samples
<1>2. h \in Seq(Samples)
  BY <1>1 DEF IInv, Types
<1>3. Previous(w) = Last(h)
  BY DEF Previous
<1> HIDE DEF h
<1>4. Last(h) \in Samples \cup {None} /\ (Last(h) = None <=> h = <<>>)
  BY <1>2, LastProperties, StoreAssumption DEF Last
<1>5. ASSUME ~NotNewer(w), NEW i \in 1 .. Len(events), events[i].source = sample[w].source
      PROVE  events[i].at < sample[w].at
  <2>1. h # <<>> /\ events[i].at <= Last(h).at
    BY <1>5 DEF IInv, EventsReached, h
  <2>2. Last(h) \in Samples /\ Last(h).at \in Nat
    BY <1>4, <2>1 DEF Samples
  <2>3. events[i].at \in Nat
    <3>1. events[i] \in EventRecords
      BY ElementOfSeq DEF IInv, Types
    <3> QED
      BY <3>1 DEF EventRecords
  <2>4. ~(sample[w].at <= Last(h).at)
    BY <1>3, <1>4, <2>1, <1>5 DEF NotNewer
  <2> QED
    BY <1>1, <2>1, <2>2, <2>3, <2>4
<1> QED
  BY <1>3, <1>4, <1>5 DEF EventsBefore, h

\* The files were read: what will be written has its type and its bound.
LEMMA KnownProperties ==
  ASSUME IInv, NEW w \in Writers, sample[w] \in Samples, NEW p \in Samples \cup {None}
  PROVE  /\ Lasts(Append(history[sample[w].source], sample[w]), HistoryLimit) \in Seq(Samples)
         /\ Lasts(events \o Transition(p, sample[w]), EventLimit) \in Seq(EventRecords)
         /\ Append(history[sample[w].source], sample[w]) \in Seq(Samples)
         /\ Transition(p, sample[w]) \in Seq(EventRecords)
         /\ events \o Transition(p, sample[w]) \in Seq(EventRecords)
<1>1. history[sample[w].source] \in Seq(Samples) /\ events \in Seq(EventRecords)
  BY DEF IInv, Types, Samples
<1>2. Append(history[sample[w].source], sample[w]) \in Seq(Samples)
  BY <1>1, AppendProperties
<1>3. Transition(p, sample[w]) \in Seq(EventRecords)
  BY TransitionProperties
<1>4. events \o Transition(p, sample[w]) \in Seq(EventRecords)
  BY <1>1, <1>3, ConcatProperties
<1>5. HistoryLimit \in Nat /\ EventLimit \in Nat
  BY StoreAssumption
<1> QED
  BY <1>2, <1>3, <1>4, <1>5, LastsProperties

LEMMA Reading ==
  ASSUME IInv, NEW w \in Writers, pc[w] = "read", ~NotNewer(w),
         known' = [known EXCEPT ![w] =
           [history |-> Lasts(Append(history[sample[w].source], sample[w]), HistoryLimit),
            events |-> Lasts(events \o Transition(Previous(w), sample[w]), EventLimit)]],
         pc' = [pc EXCEPT ![w] = "history"],
         UNCHANGED <<clock, history, events, latest, lock, sample, stored, faults>>
  PROVE  IInv'
<1> DEFINE read == [history |-> Lasts(Append(history[sample[w].source], sample[w]), HistoryLimit),
                    events |-> Lasts(events \o Transition(Previous(w), sample[w]), EventLimit)]
<1>1. sample[w] \in Samples
  BY DEF IInv, HasSample
<1>2. Previous(w) \in Samples \cup {None} /\ EventsBefore(sample[w])
  BY <1>1, PreviousProperties
<1>3. read \in Work
  BY <1>1, <1>2, KnownProperties DEF Work
<1>4. known' = [known EXCEPT ![w] = read]
  OBVIOUS
<1>5. /\ read.history = Lasts(Append(history[sample[w].source], sample[w]), HistoryLimit)
      /\ read.events = Lasts(events \o Transition(Previous(w), sample[w]), EventLimit)
  OBVIOUS
<1> HIDE DEF read
<1>6. Types'
  BY <1>3, <1>4 DEF IInv, Types, Phases
<1>7. /\ pc'[w] = "history" /\ known'[w] = read
      /\ \A v \in Writers : v # w => pc'[v] = pc[v] /\ known'[v] = known[v]
  BY <1>4 DEF IInv, Types
<1>8. LockHeld' /\ HasSample'
  BY <1>1, <1>7 DEF IInv, LockHeld, Holding, HasSample
<1>9. FilesInv'
  BY FilesKept DEF IInv, FilesInv
<1>10. ReadyHistory'
  BY <1>5, <1>7 DEF IInv, ReadyHistory, NotNewer, Previous, Last
<1>11. ReadyEvents' /\ ReadyLatest'
  BY <1>7 DEF IInv, ReadyEvents, ReadyLatest, EventsBefore, Before, Previous, Last
<1>12. UncutExplained'
  <2>1. \A src : Writing(src) => Writing(src)'
    BY <1>7 DEF Writing
  <2> QED
    BY <2>1 DEF IInv, UncutExplained, Explained, Recorded
<1> QED
  BY <1>6, <1>8, <1>9, <1>10, <1>11, <1>12 DEF IInv, FilesInv

\* `n` is `h` without its first `cut` samples and with one more at the end.
Extended(n, h, cut) ==
  /\ Len(n) + cut = Len(h) + 1
  /\ cut > 0 => Len(n) = HistoryLimit
  /\ \A i \in 1 .. Len(n) - 1 : i + cut \in 1 .. Len(h) /\ n[i] = h[i + cut]

Ends(n, s) ==
  /\ n \in Seq(Samples) /\ Len(n) <= HistoryLimit
  /\ n # <<>> /\ Last(n) = s /\ n[Len(n)] = s

\* The history a process writes: the old one's end, then its sample.
LEMMA WrittenHistory ==
  ASSUME IInv, NEW w \in Writers, pc[w] = "history"
  PROVE  /\ Ends(known[w].history, sample[w])
         /\ \E cut \in Nat : Extended(known[w].history, history[sample[w].source], cut)
<1> DEFINE h == history[sample[w].source]
           n == known[w].history
<1>1. sample[w] \in Samples
  BY DEF IInv, HasSample
<1>2. h \in Seq(Samples) /\ HistoryLimit \in Nat \ {0}
  BY <1>1, StoreAssumption DEF IInv, Types, Samples
<1>3. n = Lasts(Append(h, sample[w]), HistoryLimit)
  BY DEF IInv, ReadyHistory
<1> HIDE DEF h, n
<1> DEFINE a == Append(h, sample[w])
<1>4. /\ a \in Seq(Samples) /\ Len(a) = Len(h) + 1
      /\ \A i \in 1 .. Len(h) : a[i] = h[i]
      /\ a[Len(h) + 1] = sample[w]
  BY <1>1, <1>2, AppendProperties
<1>5. Len(h) \in Nat
  BY <1>2, LenProperties
<1> HIDE DEF a
<1>6. /\ n \in Seq(Samples) /\ Len(n) <= HistoryLimit
      /\ \E cut \in Nat : CutTo(n, a, HistoryLimit, cut)
  BY <1>2, <1>3, <1>4, LastsProperties DEF a
<1>7. PICK cut \in Nat : CutTo(n, a, HistoryLimit, cut)
  BY <1>6
<1>8. Len(n) \in Nat
  BY <1>6, LenProperties
<1>9. Len(n) + cut = Len(h) + 1 /\ (cut > 0 => Len(n) = HistoryLimit)
  BY <1>4, <1>7 DEF CutTo
<1>10. Len(n) # 0
  BY <1>2, <1>5, <1>8, <1>9
<1>11. n # <<>>
  BY <1>6, <1>10, EmptySeq
<1>12. n[Len(n)] = sample[w]
  <2>1. Len(n) \in 1 .. Len(n)
    BY <1>8, <1>10
  <2> QED
    BY <1>4, <1>7, <1>9, <2>1 DEF CutTo
<1>13. \A i \in 1 .. Len(n) - 1 : i + cut \in 1 .. Len(h) /\ n[i] = h[i + cut]
  <2>1. SUFFICES ASSUME NEW i \in 1 .. Len(n) - 1
                 PROVE  i + cut \in 1 .. Len(h) /\ n[i] = h[i + cut]
    OBVIOUS
  <2>2. i \in 1 .. Len(n) /\ i + cut \in 1 .. Len(h)
    BY <1>5, <1>8, <1>9
  <2> QED
    BY <1>4, <1>7, <2>2 DEF CutTo
<1>14. Ends(n, sample[w]) /\ Extended(n, h, cut)
  BY <1>6, <1>9, <1>11, <1>12, <1>13 DEF Last, Ends, Extended
<1> QED
  BY <1>14 DEF h, n

\* What was explained in a history is, where its extension keeps it.
LEMMA ExplainedExtended ==
  ASSUME NEW h \in Seq(Samples), NEW n \in Seq(Samples), NEW cut \in Nat,
         Extended(n, h, cut), Len(n) <= HistoryLimit,
         NEW i \in 1 .. Len(n) - 1, NEW seq, Explained(h, i + cut, seq)
  PROVE  Explained(n, i, seq)
<1>1. Len(h) \in Nat /\ Len(n) \in Nat
  BY LenProperties
<1>2. i + cut \in 1 .. Len(h) /\ n[i] = h[i + cut]
  BY DEF Extended
<1>3. ASSUME i > 1 PROVE n[i - 1] = h[i + cut - 1] /\ i + cut > 1
  <2>1. i - 1 \in 1 .. Len(n) - 1 /\ i - 1 + cut = i + cut - 1 /\ i + cut > 1
    BY <1>1, <1>3
  <2> QED
    BY <2>1 DEF Extended
<1>4. ASSUME i = 1, Len(n) < HistoryLimit PROVE i + cut = 1 /\ Len(h) < HistoryLimit
  <2>1. HistoryLimit \in Nat
    BY StoreAssumption
  <2>2. cut = 0 /\ Len(n) + cut = Len(h) + 1
    BY <1>1, <1>4, <2>1 DEF Extended
  <2> QED
    BY <1>1, <1>4, <2>1, <2>2
<1> QED
  BY <1>2, <1>3, <1>4 DEF Explained

\* Where an index of a list can be.
LEMMA BelowLast ==
  ASSUME NEW m \in Nat \ {0}, NEW i \in 1 .. m
  PROVE  /\ i < m \/ i = m
         /\ i # m => i \in 1 .. m - 1
         /\ i < m => i \in 1 .. m - 1
  OBVIOUS

InOrder(seq) == \A i, j \in 1 .. Len(seq) : i < j => seq[i].at < seq[j].at

\* A history stays in order when a later sample is put at its end.
LEMMA OrderExtended ==
  ASSUME NEW n, NEW h \in Seq(Samples), NEW s, s.at \in Nat, NEW cut \in Nat,
         Ends(n, s), Extended(n, h, cut), InOrder(h), h # <<>> => h[Len(h)].at < s.at
  PROVE  InOrder(n)
<1>1. Len(h) \in Nat /\ Len(n) \in Nat \ {0} /\ n[Len(n)] = s
  BY LenProperties, EmptySeq DEF Ends
<1>2. \A k \in 1 .. Len(n) - 1 : k + cut \in 1 .. Len(h) /\ n[k] = h[k + cut]
  BY DEF Extended
<1>3. ASSUME NEW i \in 1 .. Len(n), NEW j \in 1 .. Len(n), i < j PROVE n[i].at < n[j].at
  <2>1. i \in 1 .. Len(n) - 1 /\ i + cut \in 1 .. Len(h) /\ n[i] = h[i + cut]
    <3>1. i \in 1 .. Len(n) - 1
      BY <1>1, <1>3
    <3> QED
      BY <1>2, <3>1
  <2>2. CASE j < Len(n)
    <3>1. j \in 1 .. Len(n) - 1
      BY <1>1, <2>2, BelowLast
    <3>2. j + cut \in 1 .. Len(h) /\ n[j] = h[j + cut] /\ i + cut < j + cut
      BY <1>2, <1>3, <3>1
    <3> QED
      BY <2>1, <3>2 DEF InOrder
  <2>3. CASE j = Len(n)
    <3>1. Len(h) \in 1 .. Len(h) /\ h # <<>>
      BY <1>1, <2>1, EmptySeq
    <3>2. h[i + cut] \in Samples /\ h[Len(h)] \in Samples
      BY <2>1, <3>1, ElementOfSeq
    <3>3. h[i + cut].at \in Nat /\ h[Len(h)].at \in Nat
      BY <3>2 DEF Samples
    <3>4. i + cut < Len(h) => h[i + cut].at < h[Len(h)].at
      BY <2>1, <3>1 DEF InOrder
    <3>5. h[i + cut].at <= h[Len(h)].at
      <4>1. i + cut = Len(h) \/ i + cut < Len(h)
        BY <1>1, <2>1
      <4> QED
        BY <3>3, <3>4, <4>1
    <3> QED
      BY <1>1, <2>1, <2>3, <3>1, <3>3, <3>5
  <2> QED
    BY <1>1, <2>2, <2>3, BelowLast
<1> QED
  BY <1>3 DEF InOrder

LEMMA WritingHistory ==
  ASSUME IInv, NEW w \in Writers, pc[w] = "history",
         history' = [history EXCEPT ![sample[w].source] = known[w].history],
         pc' = [pc EXCEPT ![w] = "events"],
         UNCHANGED <<clock, events, latest, lock, sample, known, stored, faults>>
  PROVE  IInv'
<1> DEFINE src == sample[w].source
           h == history[src]
           n == known[w].history
<1>1. sample[w] \in Samples /\ src \in Sources /\ sample[w].at \in Nat
  BY DEF IInv, HasSample, Samples
<1>2. h \in Seq(Samples) /\ Len(h) \in Nat /\ DOMAIN h = 1 .. Len(h)
  BY <1>1, LenProperties DEF IInv, Types
<1>3. Ends(n, sample[w]) /\ \E cut \in Nat : Extended(n, h, cut)
  BY WrittenHistory
<1>4. PICK cut \in Nat : Extended(n, h, cut)
  BY <1>3
<1>5. Len(n) \in Nat \ {0} /\ DOMAIN n = 1 .. Len(n)
  BY <1>3, LenProperties, EmptySeq DEF Ends
<1>50. Len(n) \in Nat \ {0}
  BY <1>5
<1>6. /\ history' = [history EXCEPT ![src] = n]
      /\ history'[src] = n /\ \A other \in Sources : other # src => history'[other] = history[other]
      /\ DOMAIN history = Sources
  BY <1>1 DEF IInv, Types
<1>7. ~NotNewer(w) /\ known[w].events = Lasts(events \o Transition(Previous(w), sample[w]), EventLimit)
  BY DEF IInv, ReadyHistory
<1>8. /\ Previous(w) \in Samples \cup {None}
      /\ Previous(w) = None <=> h = <<>>
      /\ EventsBefore(sample[w]) /\ Previous(w) = Last(h)
  BY <1>1, <1>7, PreviousProperties DEF Previous
<1>9. \A v \in Writers : v # w => pc[v] \notin {"history", "events", "latest"} /\ pc'[v] = pc[v]
  BY DEF IInv, Types, LockHeld, Holding
<1>10. pc'[w] = "events"
  BY DEF IInv, Types
<1> HIDE DEF h, n, src
<1> USE DEF Ends, Extended
<1>11. Types'
  BY <1>1, <1>3, <1>6 DEF IInv, Types, Phases
<1>12. LockHeld' /\ HasSample'
  BY <1>1, <1>9, <1>10 DEF IInv, LockHeld, Holding, HasSample
<1>13. ASSUME h # <<>> PROVE /\ Last(h) = h[Len(h)] /\ Len(h) \in Nat \ {0} /\ Last(h) \in Samples
                             /\ Last(h).at < sample[w].at
  <2>1. Last(h) = h[Len(h)] /\ Len(h) \in Nat \ {0} /\ Last(h) \in Samples
    BY <1>2, <1>13, LastProperties
  <2>2. Last(h).at \in Nat
    BY <2>1 DEF Samples
  <2> QED
    BY <1>1, <1>7, <1>8, <1>13, <2>1, <2>2 DEF NotNewer
<1>14. HistoryOrdered'
  <2>1. InOrder(h)
    BY <1>1, <1>2 DEF IInv, HistoryOrdered, InOrder, h
  <2>2. h # <<>> => h[Len(h)].at < sample[w].at
    BY <1>13
  <2>3. InOrder(n)
    BY <1>1, <1>2, <1>3, <1>4, <2>1, <2>2, OrderExtended
  <2>4. \A a, b \in DOMAIN n : a < b => n[a].at < n[b].at
    BY <1>5, <2>3 DEF InOrder
  <2> QED
    BY <1>6, <2>4 DEF IInv, HistoryOrdered
<1>15. Once(events)'
  BY DEF IInv, Once
<1>16. EventsReached'
  <2>1. ASSUME NEW i \in 1 .. Len(events)
        PROVE  /\ history'[events[i].source] # <<>>
               /\ events[i].at <= Last(history'[events[i].source]).at
    <3>1. events[i] \in EventRecords
      BY ElementOfSeq DEF IInv, Types
    <3>2. events[i].source \in Sources /\ events[i].at \in Nat
      BY <3>1 DEF EventRecords
    <3>3. CASE events[i].source = src
      <4>1. events[i].at < sample[w].at
        BY <1>8, <3>3 DEF EventsBefore, src
      <4>2. history'[events[i].source] = n /\ n # <<>> /\ Last(n) = sample[w]
        BY <1>3, <1>6, <3>3
      <4> QED
        BY <1>1, <3>2, <4>1, <4>2
    <3>4. CASE events[i].source # src
      BY <1>6, <3>2, <3>4 DEF IInv, EventsReached
    <3> QED
      BY <3>3, <3>4
  <2> QED
    BY <2>1 DEF EventsReached, Last
<1>17. ReadyHistory' /\ ReadyLatest'
  BY <1>9, <1>10 DEF ReadyHistory, ReadyLatest
<1>18. ReadyEvents'
  <2>1. ASSUME Len(n) > 1 PROVE Previous(w) = n[Len(n) - 1]
    <3>1. Len(n) - 1 \in 1 .. Len(n) - 1 /\ Len(n) - 1 + cut = Len(h)
      BY <1>2, <1>4, <1>5, <2>1
    <3>2. n[Len(n) - 1] = h[Len(h)] /\ Len(h) # 0
      BY <1>2, <1>4, <3>1
    <3>3. h # <<>>
      BY <3>2, EmptySeq
    <3> QED
      BY <1>8, <1>13, <3>2, <3>3
  <2>2. ASSUME Len(n) = 1, HistoryLimit > 1 PROVE Previous(w) = None
    <3>1. cut = 0 /\ Len(h) = 0
      BY <1>2, <1>4, <2>2
    <3> QED
      BY <1>2, <1>8, <3>1, EmptySeq
  <2>3. /\ Len(history'[src]) > 1 => Previous(w) = history'[src][Len(history'[src]) - 1]
        /\ Len(history'[src]) = 1 /\ HistoryLimit > 1 => Previous(w) = None
    BY <1>6, <2>1, <2>2
  <2>4. \E p : /\ Before(src, p)'
               /\ known[w].events = Lasts(events \o Transition(p, sample[w]), EventLimit)
    BY <1>7, <1>8, <2>3 DEF Before, src
  <2>5. Last(history'[src]) = sample[w]
    BY <1>3, <1>6
  <2>6. SUFFICES ASSUME NEW v \in Writers, pc'[v] = "events"
                 PROVE  /\ Last(history'[sample[v].source]) = sample[v]
                        /\ EventsBefore(sample[v])
                        /\ \E p : /\ Before(sample[v].source, p)'
                                  /\ known[v].events
                                       = Lasts(events \o Transition(p, sample[v]), EventLimit)
    BY DEF ReadyEvents, Previous, EventsBefore, Last
  <2>7. v = w
    BY <1>9, <2>6
  <2> QED
    BY <1>8, <2>4, <2>5, <2>7 DEF src
<1>19. UncutExplained'
  <2>1. SUFFICES ASSUME faults = 0, Len(events) < EventLimit,
                        NEW other \in Sources, NEW i \in 1 .. Len(history'[other])
                 PROVE  (i = Len(history'[other]) /\ Writing(other)')
                        \/ Explained(history'[other], i, events)
    BY DEF UncutExplained, Explained, Recorded
  <2>2. \A o \in Sources : \A k \in 1 .. Len(history[o]) : Explained(history[o], k, events)
    BY <1>9, <2>1 DEF IInv, UncutExplained, Writing
  <2>3. CASE other # src
    BY <1>6, <2>2, <2>3
  <2>4. CASE other = src /\ i = Len(n)
    BY <1>6, <1>10, <2>4 DEF Writing, src
  <2>5. CASE other = src /\ i # Len(n)
    <3>0. i \in 1 .. Len(n) - 1
      <4>1. i \in 1 .. Len(n) /\ i # Len(n)
        BY <1>6, <2>5
      <4> QED
        BY <1>50, <4>1, BelowLast
    <3>1. i \in 1 .. Len(n) - 1 /\ i + cut \in 1 .. Len(h) /\ n[i] = h[i + cut]
      BY <1>4, <3>0
    <3>2. Explained(h, i + cut, events)
      BY <1>1, <2>2, <3>1 DEF h
    <3>3. n \in Seq(Samples) /\ Len(n) <= HistoryLimit
      BY <1>3
    <3>4. Explained(n, i, events)
      BY <1>2, <1>4, <3>0, <3>2, <3>3, ExplainedExtended
    <3> QED
      BY <1>6, <2>5, <3>4
  <2> QED
    BY <1>6, <2>3, <2>4, <2>5
<1> QED
  BY <1>11, <1>12, <1>14, <1>15, <1>16, <1>17, <1>18, <1>19 DEF IInv

LEMMA OnceCut ==
  ASSUME NEW S, NEW seq \in Seq(S), NEW end \in Seq(S), NEW limit, NEW cut \in Nat,
         CutTo(end, seq, limit, cut), Once(seq)
  PROVE  Once(end)
<1>1. /\ Len(seq) \in Nat /\ DOMAIN seq = 1 .. Len(seq)
      /\ Len(end) \in Nat /\ DOMAIN end = 1 .. Len(end)
  BY LenProperties
<1>2. \A i \in 1 .. Len(end) : i + cut \in 1 .. Len(seq) /\ end[i] = seq[i + cut]
  BY <1>1 DEF CutTo
<1>3. ASSUME NEW i \in 1 .. Len(end), NEW j \in 1 .. Len(end), end[i] = end[j]
      PROVE  i = j
  <2>1. i + cut = j + cut
    BY <1>1, <1>2, <1>3 DEF Once
  <2> QED
    BY <2>1
<1> QED
  BY <1>1, <1>3 DEF Once

LEMMA NothingCut ==
  ASSUME NEW S, NEW seq \in Seq(S), NEW end \in Seq(S), NEW limit \in Nat, NEW cut \in Nat,
         CutTo(end, seq, limit, cut), Len(end) < limit
  PROVE  end = seq
<1>1. Len(seq) \in Nat /\ Len(end) \in Nat
  BY LenProperties
<1>2. cut = 0
  <2>1. cut > 0 => Len(end) = limit
    BY DEF CutTo
  <2> QED
    BY <1>1, <2>1
<1>3. Len(end) = Len(seq) /\ \A i \in 1 .. Len(end) : end[i] = seq[i]
  <2>1. Len(end) + cut = Len(seq)
    BY DEF CutTo
  <2>2. \A i \in 1 .. Len(end) : i + 0 = i
    BY <1>1
  <2> QED
    BY <1>1, <1>2, <2>1, <2>2 DEF CutTo
<1> QED
  BY <1>3, SeqEqual

LEMMA WritingEvents ==
  ASSUME IInv, NEW w \in Writers, pc[w] = "events",
         events' = known[w].events,
         pc' = [pc EXCEPT ![w] = "latest"],
         UNCHANGED <<clock, history, latest, lock, sample, known, stored, faults>>
  PROVE  IInv'
<1> DEFINE s == sample[w]
           h == history[s.source]
<1>1. s \in Samples /\ s.source \in Sources /\ s.at \in Nat
  BY DEF IInv, HasSample, Samples
<1>2. h \in Seq(Samples) /\ Last(h) = s /\ EventsBefore(s)
  BY <1>1 DEF IInv, Types, ReadyEvents, Previous
<1>3. PICK p : Before(s.source, p) /\ known[w].events = Lasts(events \o Transition(p, s), EventLimit)
  BY DEF IInv, ReadyEvents
<1> DEFINE t == Transition(p, s)
           a == events \o t
           e == Lasts(a, EventLimit)
<1>4. p \in Samples \cup {None}
  BY <1>3 DEF Before
<1>5. /\ t \in Seq(EventRecords) /\ Once(t)
      /\ \A i \in 1 .. Len(t) : t[i].source = s.source /\ t[i].at = s.at
      /\ p = None => Recorded(s, "first_sample", t)
      /\ p # None /\ p.checks # s.checks => Recorded(s, "checks_changed", t)
  BY <1>1, <1>4, TransitionProperties
<1> HIDE DEF t
<1>6. events \in Seq(EventRecords) /\ Once(events)
  BY DEF IInv, Types
<1>7. /\ Len(events) \in Nat /\ DOMAIN events = 1 .. Len(events)
      /\ Len(t) \in Nat /\ DOMAIN t = 1 .. Len(t)
  BY <1>5, <1>6, LenProperties
<1>8. /\ a \in Seq(EventRecords) /\ Len(a) = Len(events) + Len(t)
      /\ \A i \in 1 .. Len(events) + Len(t) :
           a[i] = IF i <= Len(events) THEN events[i] ELSE t[i - Len(events)]
  BY <1>5, <1>6, ConcatProperties
<1>9. Once(a)
  <2>1. \A i \in DOMAIN events : \A j \in DOMAIN t : events[i] # t[j]
    <3>1. SUFFICES ASSUME NEW i \in 1 .. Len(events), NEW j \in 1 .. Len(t), events[i] = t[j]
                   PROVE  FALSE
      BY <1>7
    <3>2. events[i].source = s.source /\ events[i].at = s.at
      BY <1>5, <3>1
    <3>3. events[i].at < s.at
      BY <1>2, <3>2 DEF EventsBefore
    <3> QED
      BY <1>1, <3>2, <3>3
  <2> QED
    BY <1>5, <1>6, <2>1, OnceConcat
<1> HIDE DEF a
<1>10. EventLimit \in Nat
  BY StoreAssumption
<1>11. /\ e \in Seq(EventRecords) /\ Len(e) <= EventLimit
       /\ \E cut \in Nat : CutTo(e, a, EventLimit, cut)
  BY <1>8, <1>10, LastsProperties
<1>12. PICK cut \in Nat : CutTo(e, a, EventLimit, cut)
  BY <1>11
<1>13. events' = e
  BY <1>3 DEF a, t
<1> HIDE DEF e, s, h
<1>14. Len(e) \in Nat /\ DOMAIN e = 1 .. Len(e)
  BY <1>11, LenProperties
<1>15. Once(e)
  BY <1>8, <1>9, <1>11, <1>12, OnceCut
<1>16. \A v \in Writers : v # w => pc[v] \notin {"history", "events", "latest"} /\ pc'[v] = pc[v]
  BY DEF IInv, Types, LockHeld, Holding
<1>17. pc'[w] = "latest"
  BY DEF IInv, Types
<1>18. Types'
  BY <1>11, <1>13 DEF IInv, Types, Phases
<1>19. LockHeld' /\ HasSample'
  BY <1>16, <1>17 DEF IInv, LockHeld, Holding, HasSample
<1>20. HistoryOrdered'
  BY DEF IInv, HistoryOrdered
<1>21. EventsReached'
  <2>1. ASSUME NEW i \in 1 .. Len(e)
        PROVE  history[e[i].source] # <<>> /\ e[i].at <= Last(history[e[i].source]).at
    <3>1. i + cut \in 1 .. Len(a) /\ e[i] = a[i + cut]
      BY <1>7, <1>8, <1>12, <1>14 DEF CutTo
    <3>2. CASE i + cut <= Len(events)
      <4>1. i + cut \in 1 .. Len(events) /\ e[i] = events[i + cut]
        BY <1>7, <1>8, <3>1, <3>2
      <4> QED
        BY <4>1 DEF IInv, EventsReached
    <3>3. CASE ~(i + cut <= Len(events))
      <4>1. i + cut - Len(events) \in 1 .. Len(t) /\ e[i] = t[i + cut - Len(events)]
        BY <1>7, <1>8, <3>1, <3>3
      <4>2. e[i].source = s.source /\ e[i].at = s.at
        BY <1>5, <4>1
      <4>3. h # <<>>
        BY <1>1, <1>2, StoreAssumption DEF Last
      <4> QED
        BY <1>1, <1>2, <4>2, <4>3 DEF h
    <3> QED
      BY <3>2, <3>3
  <2> QED
    BY <1>13, <2>1 DEF EventsReached, Last
<1>22. ReadyHistory' /\ ReadyEvents'
  BY <1>16, <1>17 DEF ReadyHistory, ReadyEvents
<1>23. ReadyLatest'
  BY <1>2, <1>16, <1>17 DEF ReadyLatest, Previous, Last, h, s
<1>24. UncutExplained'
  <2>1. SUFFICES ASSUME faults = 0, Len(e) < EventLimit,
                        NEW other \in Sources, NEW i \in 1 .. Len(history[other])
                 PROVE  Explained(history[other], i, e)
    BY <1>13 DEF UncutExplained, Explained, Recorded
  <2>2. e = a
    BY <1>8, <1>10, <1>11, <1>12, <2>1, NothingCut
  <2>3. Len(e) = Len(a)
    BY <2>2
  <2>4. \A r, code : Recorded(r, code, events) \/ Recorded(r, code, t) => Recorded(r, code, e)
    BY <1>5, <1>6, <2>2, RecordedLater DEF a
  <2>5. Len(events) < EventLimit
    BY <1>7, <1>8, <1>10, <2>1, <2>3
  <2>6. CASE ~(i = Len(history[other]) /\ other = s.source)
    <3>1. ~Writing(other) \/ other = s.source
      BY <1>16 DEF Writing, s
    <3>2. Explained(history[other], i, events)
      BY <2>1, <2>5, <2>6, <3>1 DEF IInv, UncutExplained
    <3> QED
      BY <2>4, <3>2 DEF Explained
  <2>7. CASE i = Len(history[other]) /\ other = s.source
    <3>1. h = history[other] /\ i = Len(h) /\ h[i] = s
      <4>1. h # <<>>
        BY <1>1, <1>2, StoreAssumption DEF Last
      <4> QED
        BY <1>2, <2>7, <4>1 DEF Last, h
    <3>2. ASSUME i > 1, h[i].checks # h[i - 1].checks
          PROVE  Recorded(h[i], "checks_changed", e)
      <4>1. p = h[i - 1] /\ i - 1 \in 1 .. Len(h)
        BY <1>2, <1>3, <3>1, <3>2, LenProperties DEF Before, h
      <4>2. p \in Samples
        BY <1>2, <4>1, ElementOfSeq
      <4> QED
        BY <1>5, <2>4, <3>1, <3>2, <4>1, <4>2, StoreAssumption
    <3>3. ASSUME i = 1, Len(h) < HistoryLimit
          PROVE  Recorded(h[i], "first_sample", e)
      <4>1. p = None
        BY <1>3, <3>1, <3>3, StoreAssumption DEF Before, h
      <4> QED
        BY <1>5, <2>4, <3>1, <4>1
    <3> QED
      BY <3>1, <3>2, <3>3 DEF Explained
  <2> QED
    BY <2>6, <2>7
<1> QED
  BY <1>13, <1>15, <1>18, <1>19, <1>20, <1>21, <1>22, <1>23, <1>24 DEF IInv, Once

-----------------------------------------------------------------------------
(* One lemma per action of a process.                                         *)

LEMMA Begins ==
  ASSUME IInv, NEW w \in Writers, NEW s \in Samples, Begin(w, s)
  PROVE  IInv'
<1>1. UNCHANGED <<clock, history, events, latest, faults>>
  BY DEF Begin, files
<1>2. pc' = [pc EXCEPT ![w] = "lock"] /\ pc[w] = "idle"
  BY DEF Begin
<1>3. LockHeld' /\ lock' \in Writers \cup {Free}
  BY <1>2 DEF IInv, Types, LockHeld, Holding, Begin
<1>4. /\ sample' = [sample EXCEPT ![w] = s] /\ known' = known
      /\ stored' \subseteq Writers
  BY DEF IInv, Types, Begin
<1> QED
  BY <1>1, <1>2, <1>3, <1>4, Going

LEMMA Acquires ==
  ASSUME IInv, NEW w \in Writers, Acquire(w)
  PROVE  IInv'
<1>1. UNCHANGED <<clock, history, events, latest, faults>> /\ pc[w] = "lock"
  BY DEF Acquire, files
<1>2. CASE lock = Free /\ lock' = w /\ Goto(w, "read")
  <2>1. pc' = [pc EXCEPT ![w] = "read"] /\ UNCHANGED <<sample, known, stored>>
    BY <1>2 DEF Goto
  <2>2. LockHeld' /\ lock' \in Writers \cup {Free}
    BY <1>2, <2>1, StoreAssumption DEF IInv, Types, LockHeld, Holding
  <2>3. sample[w] \in Samples /\ sample' = [sample EXCEPT ![w] = sample[w]]
    BY <1>1, <2>1 DEF IInv, Types, HasSample
  <2> DEFINE s == sample[w]
  <2>4. s \in Samples /\ sample' = [sample EXCEPT ![w] = s]
    BY <2>3
  <2> HIDE DEF s
  <2>5. stored' \subseteq Writers
    BY <2>1 DEF IInv, Types
  <2> QED
    BY <1>1, <2>1, <2>2, <2>4, <2>5, Going
<1>3. CASE lock # Free /\ Stop(w, "busy") /\ UNCHANGED lock
  <2>1. lock # w
    BY <1>1 DEF IInv, LockHeld, Holding
  <2>2. latest' \in [Sources -> Samples \cup {None}] /\ faults' \in Nat
    BY <1>1 DEF IInv, Types
  <2> QED
    BY <1>1, <1>3, <2>1, <2>2, Stopping
<1> QED
  BY <1>2, <1>3 DEF Acquire

\* Any end of the process that has the lock; a write that fails is a fault.
LEMMA Releases ==
  ASSUME IInv, NEW w \in Writers, NEW how, Holding(w), Released(w, how),
         UNCHANGED <<clock, history, events>>,
         latest' \in [Sources -> Samples \cup {None}],
         Fault \/ (UNCHANGED faults /\ pc[w] # "events")
  PROVE  IInv'
<1>1. lock = w
  BY DEF IInv, LockHeld
<1>2. Stop(w, how) /\ lock' = IF lock = w THEN Free ELSE lock
  BY <1>1 DEF Released
<1>3. faults' \in Nat /\ (faults' = 0 => faults = 0 /\ pc[w] # "events")
  BY DEF IInv, Types, Fault
<1> QED
  BY <1>2, <1>3, Stopping

LEMMA Reads ==
  ASSUME IInv, NEW w \in Writers, Read(w)
  PROVE  IInv'
<1>1. pc[w] = "read" /\ UNCHANGED <<clock, history, events, latest, faults>>
  BY DEF Read, files
<1>2. CASE NotNewer(w) /\ Released(w, "not_newer")
  <2>1. Holding(w) /\ latest' \in [Sources -> Samples \cup {None}]
    BY <1>1 DEF Holding, IInv, Types
  <2> QED
    BY <1>1, <1>2, <2>1, Releases
<1>3. CASE ~(NotNewer(w) /\ Released(w, "not_newer"))
  BY <1>1, <1>3, Reading DEF Read
<1> QED
  BY <1>2, <1>3

LEMMA WritesHistory ==
  ASSUME IInv, NEW w \in Writers, WriteHistory(w)
  PROVE  IInv'
<1>1. pc[w] = "history" /\ UNCHANGED <<clock, events, latest>>
  BY DEF WriteHistory
<1>2. CASE /\ history' = [history EXCEPT ![sample[w].source] = known[w].history]
           /\ Goto(w, "events") /\ UNCHANGED <<lock, faults>>
  BY <1>1, <1>2, WritingHistory DEF Goto
<1>3. CASE Fault /\ UNCHANGED history /\ Released(w, "failed")
  <2>1. Holding(w) /\ latest' \in [Sources -> Samples \cup {None}]
    BY <1>1 DEF Holding, IInv, Types
  <2> QED
    BY <1>1, <1>3, <2>1, Releases
<1> QED
  BY <1>2, <1>3 DEF WriteHistory, AtomicWrite

LEMMA WritesEvents ==
  ASSUME IInv, NEW w \in Writers, WriteEvents(w)
  PROVE  IInv'
<1>1. pc[w] = "events" /\ UNCHANGED <<clock, history, latest>>
  BY DEF WriteEvents
<1>2. CASE events' = known[w].events /\ Goto(w, "latest") /\ UNCHANGED <<lock, faults>>
  BY <1>1, <1>2, WritingEvents DEF Goto
<1>3. CASE Fault /\ UNCHANGED events /\ Released(w, "failed")
  <2>1. Holding(w) /\ latest' \in [Sources -> Samples \cup {None}]
    BY <1>1 DEF Holding, IInv, Types
  <2> QED
    BY <1>1, <1>3, <2>1, Releases
<1> QED
  BY <1>2, <1>3 DEF WriteEvents, AtomicWrite

LEMMA WritesLatest ==
  ASSUME IInv, NEW w \in Writers, WriteLatest(w)
  PROVE  IInv'
<1>1. /\ pc[w] = "latest" /\ Holding(w)
      /\ UNCHANGED <<clock, history, events>>
      /\ latest' = [latest EXCEPT ![sample[w].source] = sample[w]] \/ latest' = latest
  BY DEF WriteLatest, AtomicWrite, Holding
<1>2. sample[w] \in Samples
  BY <1>1 DEF IInv, HasSample
<1>3. latest' \in [Sources -> Samples \cup {None}]
  BY <1>1, <1>2 DEF IInv, Types
<1>4. (Released(w, "stored") /\ UNCHANGED faults) \/ (Fault /\ Released(w, "failed"))
  BY DEF WriteLatest, AtomicWrite
<1> QED
  BY <1>1, <1>3, <1>4, Releases

LEMMA Kills ==
  ASSUME IInv, NEW w \in Writers, Kill(w)
  PROVE  IInv'
<1>1. UNCHANGED <<clock, history, events, latest>> /\ Fault /\ Stop(w, "killed")
  BY DEF Kill, files
<1>2. /\ latest' \in [Sources -> Samples \cup {None}]
      /\ faults' \in Nat /\ (faults' = 0 => faults = 0 /\ pc[w] # "events")
  BY <1>1 DEF IInv, Types, Fault
<1>3. lock' = IF lock = w THEN Free ELSE lock
  BY DEF Kill
<1> QED
  BY <1>1, <1>2, <1>3, Stopping

LEMMA Continues ==
  ASSUME IInv, NEW w \in Writers, Continue(w)
  PROVE  IInv'
  BY Acquires, Reads, WritesHistory, WritesEvents, WritesLatest DEF Continue

LEMMA Ticks ==
  ASSUME IInv, Tick
  PROVE  IInv'
<1>1. clock' \in Nat
  BY DEF IInv, Types, Tick
<1> QED
  BY <1>1, Resting DEF Tick

LEMMA InvStep == IInv /\ [Next]_storeVars => IInv'
<1> SUFFICES ASSUME IInv, [Next]_storeVars PROVE IInv'
  OBVIOUS
<1>1. CASE Tick
  BY <1>1, Ticks
<1>2. ASSUME NEW w \in Writers, Submit(w) PROVE IInv'
  BY <1>2, Begins DEF Submit
<1>3. ASSUME NEW w \in Writers, Continue(w) PROVE IInv'
  BY <1>3, Continues
<1>4. ASSUME NEW w \in Writers, Kill(w) PROVE IInv'
  BY <1>4, Kills
<1>5. CASE UNCHANGED storeVars
  <2>1. UNCHANGED <<files, lock, process, faults>> /\ clock' \in Nat
    BY <1>5 DEF storeVars, files, process, IInv, Types
  <2> QED
    BY <2>1, Resting
<1> QED
  BY <1>1, <1>2, <1>3, <1>4, <1>5 DEF Next

LEMMA StoreInvariant == Spec => []IInv
  BY InvInitially, InvStep, PTL DEF Spec

-----------------------------------------------------------------------------
\* Every variable keeps its type, and the two bounded files their bounds,
\* whatever store_sample does and wherever it fails.
THEOREM TypeCorrect == Spec => []TypeOK
<1>1. IInv => TypeOK
  <2> SUFFICES ASSUME IInv PROVE TypeOK
    OBVIOUS
  <2>1. \A src \in Sources : /\ Len(history[src]) <= HistoryLimit
                             /\ \A i \in DOMAIN history[src] : history[src][i] \in Samples
    <3>1. SUFFICES ASSUME NEW src \in Sources
                   PROVE  /\ Len(history[src]) <= HistoryLimit
                          /\ \A i \in DOMAIN history[src] : history[src][i] \in Samples
      OBVIOUS
    <3>2. history[src] \in Seq(Samples) /\ Len(history[src]) <= HistoryLimit
      BY <3>1 DEF IInv, Types
    <3> QED
      BY <3>2, LenProperties, ElementOfSeq
  <2>2. \A i \in DOMAIN events : events[i] \in EventRecords
    BY LenProperties, ElementOfSeq DEF IInv, Types
  <2>3. DOMAIN history = Sources
    BY DEF IInv, Types
  <2> QED
    BY <2>1, <2>2, <2>3 DEF IInv, Types, TypeOK, Phases
<1> QED
  BY <1>1, StoreInvariant, PTL

\* Each source's history is in strict time order, so no sample is kept twice,
\* for any number of processes that store, fail and are killed.
THEOREM HistoryInOrder == Spec => []HistoryOrdered
<1>1. IInv => HistoryOrdered
  BY DEF IInv
<1> QED
  BY <1>1, StoreInvariant, PTL

\* No event is written twice to the shared file, although a killed process
\* leaves the history a step ahead of the events.
THEOREM EventsOnce == Spec => []NoEventTwice
<1>1. IInv => NoEventTwice
  BY DEF IInv, Once, NoEventTwice
<1> QED
  BY <1>1, StoreInvariant, PTL

\* As long as no store was cut short, a change of the checks between two kept
\* samples has its event, unless the event file is full.
THEOREM ChangesRecorded == Spec => []UncutChangesRecorded
<1>1. IInv => UncutChangesRecorded
  <2> SUFFICES ASSUME IInv, faults = 0, lock = Free, Len(events) < EventLimit,
                      NEW src \in Sources, NEW i \in DOMAIN history[src],
                      i > 1, history[src][i].checks # history[src][i - 1].checks
               PROVE  Recorded(history[src][i], "checks_changed", events)
    BY DEF UncutChangesRecorded
  <2>1. i \in 1 .. Len(history[src])
    BY LenProperties DEF IInv, Types
  <2>2. ~Writing(src)
    BY StoreAssumption DEF IInv, LockHeld, Holding, Writing
  <2>3. Explained(history[src], i, events)
    BY <2>1, <2>2 DEF IInv, UncutExplained
  <2> QED
    BY <2>3 DEF Explained
<1> QED
  BY <1>1, StoreInvariant, PTL

-----------------------------------------------------------------------------
(* The refinement: a step of the store is one of the register or none.        *)

Accepted == [src \in Sources |-> Last(history[src])]

LEMMA AcceptedSame ==
  ASSUME UNCHANGED history
  PROVE  Accepted' = Accepted
  BY DEF Accepted, Last

LEMMA RegisterInitially == Init => Register!Init
  BY DEF Init, Register!Init, Last

LEMMA RegisterAccepts ==
  ASSUME IInv, NEW w \in Writers, WriteHistory(w), ~UNCHANGED history
  PROVE  \E s \in Samples : Register!Accept(s)
<1> DEFINE s == sample[w]
           n == known[w].history
<1>1. pc[w] = "history" /\ history' = [history EXCEPT ![s.source] = n] /\ UNCHANGED latest
  BY DEF WriteHistory, AtomicWrite
<1>2. s \in Samples /\ s.source \in Sources
  BY <1>1 DEF IInv, HasSample, Samples
<1>3. Last(n) = s
  BY <1>1, WrittenHistory DEF Ends
<1>4. Previous(w) = Accepted[s.source] /\ Previous(w) \in Samples \cup {None} /\ ~NotNewer(w)
  BY <1>1, <1>2, PreviousProperties DEF Accepted, Previous, IInv, ReadyHistory
<1>5. Register!Newer(s, Accepted[s.source])
  <2>1. s.at \in Nat /\ (Previous(w) # None => Previous(w).at \in Nat)
    BY <1>2, <1>4 DEF Samples
  <2> QED
    BY <1>4, <2>1 DEF NotNewer, Register!Newer
<1>6. Accepted' = [Accepted EXCEPT ![s.source] = s]
  <2>1. DOMAIN history = Sources
    BY DEF IInv, Types
  <2>2. \A src \in Sources : history'[src] = IF src = s.source THEN n ELSE history[src]
    BY <1>1, <1>2, <2>1
  <2>3. \A src \in Sources : Last(history'[src]) = IF src = s.source THEN s ELSE Last(history[src])
    BY <1>3, <2>2
  <2>4. Accepted' = [src \in Sources |-> Last(history'[src])]
    BY DEF Accepted, Last
  <2> HIDE DEF s
  <2> QED
    BY <2>3, <2>4 DEF Accepted
<1> QED
  BY <1>1, <1>2, <1>5, <1>6 DEF Register!Accept, Accepted

LEMMA RegisterPublishes ==
  ASSUME IInv, NEW w \in Writers, WriteLatest(w), ~UNCHANGED latest
  PROVE  \E src \in Sources : Register!Publish(src)
<1> DEFINE s == sample[w]
<1>1. pc[w] = "latest" /\ latest' = [latest EXCEPT ![s.source] = s] /\ UNCHANGED history
  BY DEF WriteLatest, AtomicWrite
<1>2. s \in Samples /\ s.source \in Sources
  BY <1>1 DEF IInv, HasSample, Samples
<1>3. Accepted[s.source] = s
  BY <1>1, <1>2 DEF IInv, ReadyLatest, Previous, Accepted
<1>4. s # None
  BY <1>2, StoreAssumption
<1>5. Accepted' = Accepted
  BY <1>1, AcceptedSame
<1> HIDE DEF s
<1>6. Register!Publish(s.source)
  BY <1>1, <1>3, <1>4, <1>5 DEF Register!Publish, Accepted
<1> QED
  BY <1>2, <1>6

LEMMA RegisterStep ==
  IInv /\ [Next]_storeVars => [Register!Next]_<<Accepted, latest>>
<1> SUFFICES ASSUME IInv, [Next]_storeVars,
                    ~UNCHANGED <<history, latest>>
             PROVE  Register!Next
  BY AcceptedSame
<1>1. PICK w \in Writers : \/ WriteHistory(w) /\ UNCHANGED latest
                           \/ WriteLatest(w) /\ UNCHANGED history
  BY DEF Next, Submit, Continue, Begin, Acquire, Read, WriteHistory, WriteEvents, WriteLatest,
         Kill, Tick, files, storeVars
<1>2. CASE WriteHistory(w) /\ UNCHANGED latest
  BY <1>2, RegisterAccepts DEF Register!Next
<1>3. CASE WriteLatest(w) /\ UNCHANGED history
  BY <1>3, RegisterPublishes DEF Register!Next
<1> QED
  BY <1>1, <1>2, <1>3

\* The store implements the register: what it accepted and what it shows only
\* change as the register's do, whatever else fails or is killed between.
THEOREM ImplementsTheRegister == Spec => ImplementsRegister
<1>1. Init => Register!Init
  BY RegisterInitially
<1>2. IInv /\ [Next]_storeVars => [Register!Next]_<<[src \in Sources |-> Last(history[src])], latest>>
  BY RegisterStep DEF Accepted
<1> QED
  BY <1>1, <1>2, StoreInvariant, PTL DEF Spec, ImplementsRegister, Register!Spec

-----------------------------------------------------------------------------
(* Dashboard: the store between the client and the backend.                   *)

UploadStates == {"none", "sending", "upload_failed", "uploaded"}

ClientTypes ==
  /\ upload.at \in Nat /\ upload.state \in UploadStates
  /\ session \subseteq Writers
  /\ inflight \subseteq [sample: Samples, waited: BOOLEAN]

\* The client has one sample on its way: in a session, or with a process.
OneUpload ==
  /\ upload.state # "sending" => session = {} /\ \A m \in inflight : ~m.waited
  /\ \A v, w \in session : v = w
  /\ \A m, n \in inflight : m.waited /\ n.waited => m = n
  /\ session # {} => \A m \in inflight : ~m.waited

WaitedSample == \A m \in inflight :
  m.waited => m.sample.source = Client /\ m.sample.at = upload.at

RunningNotStored == \A w \in Writers : pc[w] # "idle" => w \notin stored

\* A sample as new as `at` is shown.
ShownSince(at) == latest[Client] # None /\ latest[Client].at >= at

SessionStores == \A w \in session :
  /\ pc[w] # "idle" => sample[w].source = Client /\ sample[w].at = upload.at
  /\ pc[w] = "idle" /\ w \in stored => ShownSince(upload.at)

ClientInv ==
  /\ ClientTypes /\ OneUpload /\ WaitedSample /\ RunningNotStored /\ SessionStores
  /\ UploadedIsShown

\* The source's history reached the sample, when there is one.
Reached(src, s) == s # None => history[src] # <<>> /\ s.at <= Last(history[src]).at

ViewTypes ==
  /\ reading \in 0 .. Len(ReadOrder) \cup {None}
  /\ DOMAIN view = {"samples", "events"}
  /\ view = [samples |-> view.samples, events |-> view.events]
  /\ view.samples \in [Sources -> Samples \cup {None}]
  /\ view.events \in Seq(EventRecords)

ShownReached == \A src \in Sources : Reached(src, latest[src]) /\ Reached(src, view.samples[src])

\* What a process stores is not shown before its events are written.
NotShownYet ==
  \A w \in Writers : pc[w] = "events" =>
    latest[sample[w].source] = None \/ latest[sample[w].source].at < sample[w].at

\* The sample, wherever it is in its history, has its events in `seq`.
ExplainedBy(seq, src, s) ==
  faults = 0 /\ Len(seq) < EventLimit =>
    \A i \in 1 .. Len(history[src]) : history[src][i] = s => Explained(history[src], i, seq)

\* The samples that a snapshot has read are explained by the events there are;
\* between snapshots, those shown by the events shown.
ViewExplained ==
  /\ reading # None =>
       \A k \in 1 .. reading : ExplainedBy(events, ReadOrder[k], view.samples[ReadOrder[k]])
  /\ reading = None => \A src \in Sources : ExplainedBy(view.events, src, view.samples[src])

ViewInv == ViewTypes /\ ShownReached /\ NotShownYet /\ ViewExplained

DInv == IInv /\ ClientInv /\ ViewInv


-----------------------------------------------------------------------------
(* What one step of the dashboard is to the store.                            *)

LEMMA ReadOrderProperties ==
  /\ Len(ReadOrder) = 2 /\ ReadOrder[1] = Client /\ ReadOrder[2] = Server
  /\ Client \in Sources /\ Server \in Sources
  BY DashboardAssumption DEF ReadOrder

LEMMA DashboardInvInitially == DashboardInit => DInv
<1> SUFFICES ASSUME DashboardInit PROVE DInv
  OBVIOUS
<1>1. IInv
  BY InvInitially DEF DashboardInit
<1>2. ClientInv
  BY StoreAssumption
  DEF DashboardInit, Init, ClientInv, ClientTypes, UploadStates, OneUpload, WaitedSample,
      RunningNotStored, SessionStores, UploadedIsShown
<1>3. ViewInv
  <2>1. <<>> \in Seq(EventRecords) /\ Len(<<>>) = 0
    BY EmptySeq
  <2>2. ViewTypes
    BY <2>1 DEF DashboardInit, ViewTypes
  <2>3. ShownReached /\ NotShownYet
    BY StoreAssumption DEF DashboardInit, Init, ShownReached, Reached, NotShownYet
  <2>4. ViewExplained
    BY <2>1 DEF DashboardInit, Init, ViewExplained, ExplainedBy
  <2> QED
    BY <2>2, <2>3, <2>4 DEF ViewInv
<1> QED
  BY <1>1, <1>2, <1>3 DEF DInv

\* A step of a process, by its own code: it goes on with its sample, or it
\* ends, and only the end of the last write makes it one that stored.
GoesOn(w) ==
  /\ pc'[w] # "idle" /\ sample'[w] = sample[w] /\ stored' = stored /\ latest' = latest
EndsEmpty(w) == pc'[w] = "idle" /\ stored' = stored /\ latest' = latest
EndsShown(w) ==
  /\ pc[w] = "latest" /\ pc'[w] = "idle" /\ stored' = stored \cup {w}
  /\ latest' = [latest EXCEPT ![sample[w].source] = sample[w]]
Others(w) == \A v \in Writers : v # w => pc'[v] = pc[v] /\ sample'[v] = sample[v]

ProcessStep(w) ==
  /\ pc[w] # "idle" /\ Others(w)
  /\ GoesOn(w) \/ EndsEmpty(w) \/ EndsShown(w)

LEMMA StopsEmpty ==
  ASSUME IInv, NEW w \in Writers, NEW how, how # "stored", Stop(w, how), UNCHANGED latest
  PROVE  Others(w) /\ EndsEmpty(w)
  BY DEF IInv, Types, Stop, Others, EndsEmpty

LEMMA GoesOnward ==
  ASSUME IInv, NEW w \in Writers, NEW next \in Phases, next # "idle",
         pc' = [pc EXCEPT ![w] = next], UNCHANGED <<sample, stored, latest>>
  PROVE  Others(w) /\ GoesOn(w)
  BY DEF IInv, Types, Others, GoesOn

LEMMA ContinueSteps ==
  ASSUME IInv, NEW w \in Writers, Continue(w) \/ Kill(w)
  PROVE  ProcessStep(w)
<1>1. CASE Acquire(w)
  BY <1>1, StopsEmpty, GoesOnward DEF Acquire, Goto, files, ProcessStep, Phases
<1>2. CASE Read(w)
  BY <1>2, StopsEmpty, GoesOnward DEF Read, Released, files, ProcessStep, Phases
<1>3. CASE WriteHistory(w)
  BY <1>3, StopsEmpty, GoesOnward DEF WriteHistory, AtomicWrite, Released, Goto, ProcessStep, Phases
<1>4. CASE WriteEvents(w)
  BY <1>4, StopsEmpty, GoesOnward DEF WriteEvents, AtomicWrite, Released, Goto, ProcessStep, Phases
<1>5. CASE WriteLatest(w)
  <2>1. CASE Released(w, "stored") /\ latest' = [latest EXCEPT ![sample[w].source] = sample[w]]
    BY <1>5, <2>1 DEF WriteLatest, Released, Stop, IInv, Types, ProcessStep, Others, EndsShown
  <2>2. CASE Released(w, "failed") /\ UNCHANGED latest
    BY <1>5, <2>2, StopsEmpty DEF WriteLatest, Released, ProcessStep
  <2> QED
    BY <1>5, <2>1, <2>2 DEF WriteLatest, AtomicWrite
<1>6. CASE Kill(w)
  BY <1>6, StopsEmpty DEF Kill, files, ProcessStep
<1> QED
  BY <1>1, <1>2, <1>3, <1>4, <1>5, <1>6 DEF Continue

LEMMA BeginSteps ==
  ASSUME IInv, NEW w \in Writers, NEW s \in Samples, Begin(w, s)
  PROVE  /\ pc[w] = "idle" /\ pc'[w] = "lock" /\ sample'[w] = s /\ Others(w)
         /\ stored' = stored \ {w} /\ UNCHANGED <<history, events, latest, faults>>
  BY DEF IInv, Types, Begin, Others, files

\* A shown sample is only ever replaced by one that is newer.
LEMMA ShownStays ==
  ASSUME IInv, ShownReached, NEW w \in Writers, ProcessStep(w), NEW at \in Nat, ShownSince(at)
  PROVE  ShownSince(at)'
<1>1. CASE latest' = latest
  BY <1>1 DEF ShownSince
<1>2. CASE EndsShown(w) /\ sample[w].source = Client
  <2>1. sample[w] \in Samples /\ sample[w] # None
    BY <1>2, StoreAssumption DEF EndsShown, IInv, HasSample
  <2>2. latest[Client] \in Samples /\ Client \in Sources
    BY ReadOrderProperties DEF IInv, Types, ShownSince
  <2>3. latest[Client].at \in Nat /\ sample[w].at \in Nat
    BY <2>1, <2>2 DEF Samples
  <2>4. latest[Client].at <= Last(history[Client]).at /\ Last(history[Client]) = sample[w]
    BY <1>2, <2>2 DEF EndsShown, IInv, ReadyLatest, Previous, ShownReached, Reached, ShownSince
  <2>5. latest'[Client] = sample[w]
    BY <1>2, <2>2 DEF EndsShown, IInv, Types
  <2> QED
    BY <2>1, <2>3, <2>4, <2>5 DEF ShownSince
<1>3. CASE EndsShown(w) /\ sample[w].source # Client
  BY <1>3 DEF EndsShown, ShownSince
<1> QED
  BY <1>1, <1>2, <1>3 DEF ProcessStep, GoesOn, EndsEmpty

-----------------------------------------------------------------------------
(* The client's side.                                                         *)

\* A process goes on or ends while the client does nothing.
LEMMA ClientWaits ==
  ASSUME IInv, ClientInv, ShownReached, NEW w \in Writers, ProcessStep(w), UNCHANGED client
  PROVE  ClientInv'
<1>1. UNCHANGED <<upload, inflight, session, uploads>>
  BY DEF client
<1>2. upload.at \in Nat /\ session \subseteq Writers
  BY DEF ClientInv, ClientTypes
<1>3. ShownSince(upload.at) => ShownSince(upload.at)'
  BY <1>1, <1>2, ShownStays
<1>4. ClientTypes' /\ OneUpload' /\ WaitedSample'
  BY <1>1 DEF ClientInv, ClientTypes, OneUpload, WaitedSample
<1>5. RunningNotStored'
  BY DEF ClientInv, RunningNotStored, ProcessStep, Others, GoesOn, EndsEmpty, EndsShown
<1>6. UploadedIsShown'
  BY <1>1, <1>3 DEF ClientInv, UploadedIsShown, ShownSince
<1>7. SessionStores'
  <2>1. SUFFICES ASSUME NEW v \in session
                 PROVE  /\ pc'[v] # "idle" => sample'[v].source = Client /\ sample'[v].at = upload.at
                        /\ pc'[v] = "idle" /\ v \in stored' => ShownSince(upload.at)'
    BY <1>1 DEF SessionStores
  <2>2. v \in Writers
    BY <1>2
  <2>3. CASE v # w
    <3>1. pc'[v] = pc[v] /\ sample'[v] = sample[v] /\ (v \in stored' => v \in stored)
      BY <2>2, <2>3 DEF ProcessStep, Others, GoesOn, EndsEmpty, EndsShown
    <3> QED
      BY <1>3, <3>1 DEF ClientInv, SessionStores
  <2>4. CASE v = w /\ (GoesOn(w) \/ EndsEmpty(w))
    BY <2>2, <2>4 DEF ClientInv, SessionStores, RunningNotStored, ProcessStep, GoesOn, EndsEmpty
  <2>5. CASE v = w /\ EndsShown(w)
    <3>1. sample[w] \in Samples /\ sample[w] # None /\ Client \in Sources
      BY <2>5, StoreAssumption, ReadOrderProperties DEF EndsShown, IInv, HasSample
    <3>2. sample[w].source = Client /\ sample[w].at = upload.at
      BY <2>5 DEF ClientInv, SessionStores, EndsShown
    <3>3. latest'[Client] = sample[w] /\ pc'[w] = "idle"
      BY <2>5, <3>1, <3>2 DEF EndsShown, IInv, Types
    <3> QED
      BY <1>1, <1>2, <2>5, <3>1, <3>2, <3>3 DEF ShownSince
  <2> QED
    BY <2>3, <2>4, <2>5 DEF ProcessStep
<1> QED
  BY <1>4, <1>5, <1>6, <1>7 DEF ClientInv

\* The client's own steps, with the store at rest.
LEMMA ClientActs ==
  ASSUME IInv, ClientInv, Collect \/ GiveUp \/ LoseSession \/ \E w \in Writers : Answer(w)
  PROVE  ClientInv'
<1>1. UNCHANGED <<pc, sample, stored, latest>>
  BY DEF Collect, GiveUp, LoseSession, Answer, storeVars
<1>2. RunningNotStored'
  BY <1>1 DEF ClientInv, RunningNotStored
<1> USE DEF ClientInv, ClientTypes, UploadStates, OneUpload, WaitedSample, SessionStores,
            UploadedIsShown, ShownSince
<1>3. CASE Collect
  <2>1. PICK s \in Samples :
          /\ s.source = Client
          /\ upload' = [at |-> s.at, state |-> "sending"]
          /\ inflight' = inflight \cup {[sample |-> s, waited |-> TRUE]}
    BY <1>3 DEF Collect
  <2>2. session = {} /\ session' = {} /\ \A m \in inflight : ~m.waited
    BY <1>3 DEF Collect
  <2>3. s.at \in Nat
    BY DEF Samples
  <2>4. \A m \in inflight' : m \in inflight \/ (m.sample = s /\ m.waited = TRUE
                                                /\ m = [sample |-> s, waited |-> TRUE])
    BY <2>1
  <2>5. ClientTypes' /\ OneUpload' /\ WaitedSample'
    BY <2>1, <2>2, <2>3, <2>4
  <2>6. SessionStores' /\ UploadedIsShown'
    BY <2>1, <2>2
  <2> QED
    BY <1>2, <2>5, <2>6
<1>4. CASE GiveUp
  <2>1. /\ upload'.state = "upload_failed" /\ upload'.at = upload.at /\ session' = {}
        /\ inflight' = {[m EXCEPT !.waited = FALSE] : m \in inflight}
    BY <1>4 DEF GiveUp
  <2>2. \A m \in inflight' : /\ m \in [sample: Samples, waited: BOOLEAN]
                             /\ m.waited = FALSE
    <3>1. SUFFICES ASSUME NEW n \in inflight
                   PROVE  /\ [n EXCEPT !.waited = FALSE] \in [sample: Samples, waited: BOOLEAN]
                          /\ [n EXCEPT !.waited = FALSE].waited = FALSE
      BY <2>1
    <3>2. n \in [sample: Samples, waited: BOOLEAN]
      OBVIOUS
    <3> QED
      BY <3>2
  <2> QED
    BY <1>2, <2>1, <2>2
<1>5. CASE LoseSession
  <2>1. inflight' \subseteq inflight /\ UNCHANGED <<upload, session>>
    BY <1>5 DEF LoseSession
  <2> QED
    BY <1>1, <1>2, <2>1
<1>6. ASSUME NEW w \in Writers, Answer(w) PROVE ClientInv'
  <2>1. /\ upload'.state = IF w \in stored THEN "uploaded" ELSE "upload_failed"
        /\ upload'.at = upload.at
        /\ w \in session /\ pc[w] = "idle" /\ session' = {} /\ inflight' = inflight
    BY <1>6 DEF Answer
  <2>2. \A m \in inflight : ~m.waited
    BY <2>1
  <2> QED
    BY <1>1, <1>2, <2>1, <2>2
<1> QED
  BY <1>3, <1>4, <1>5, <1>6

LEMMA ClientReceives ==
  ASSUME IInv, ClientInv, NEW w \in Writers, Receive(w) \/ Probe(w)
  PROVE  ClientInv'
<1> USE DEF ClientInv, ClientTypes, UploadStates, OneUpload, WaitedSample, SessionStores,
            UploadedIsShown, ShownSince
<1>1. PICK s \in Samples : Begin(w, s)
  BY DEF Receive, Probe
<1>2. /\ pc[w] = "idle" /\ pc'[w] = "lock" /\ sample'[w] = s /\ Others(w)
      /\ stored' = stored \ {w} /\ UNCHANGED latest
  BY <1>1, BeginSteps
<1>3. RunningNotStored'
  BY <1>2 DEF RunningNotStored, Others
<1>4. w \notin session /\ UNCHANGED upload
  BY DEF Receive, Probe, client
<1>5. CASE UNCHANGED session /\ inflight' \subseteq inflight
  BY <1>2, <1>3, <1>4, <1>5 DEF Others
<1>6. CASE Receive(w) /\ ~(UNCHANGED session /\ inflight' \subseteq inflight)
  <2>1. PICK m \in inflight :
          /\ Begin(w, m.sample) /\ m.waited
          /\ inflight' = inflight \ {m} /\ session' = session \cup {w}
    BY <1>6 DEF Receive
  <2>2. session' = {w} /\ upload.state = "sending" /\ \A n \in inflight' : ~n.waited
    BY <2>1
  <2>3. sample'[w] = m.sample /\ m.sample.source = Client /\ m.sample.at = upload.at
    BY <2>1, BeginSteps
  <2> QED
    BY <1>2, <1>3, <1>4, <2>1, <2>2, <2>3
<1>7. Probe(w) => UNCHANGED session /\ inflight' \subseteq inflight
  BY DEF Probe, client
<1> QED
  BY <1>5, <1>6, <1>7

-----------------------------------------------------------------------------
(* The backend's side: what a snapshot read stays explained.                  *)

LEMMA LatestTypes ==
  ASSUME IInv, ViewTypes, NEW src \in Sources
  PROVE  /\ history[src] \in Seq(Samples) /\ Len(history[src]) \in Nat
         /\ latest[src] \in Samples \cup {None} /\ view.samples[src] \in Samples \cup {None}
         /\ history[src] # <<>> => Last(history[src]) \in Samples
                                   /\ Last(history[src]) = history[src][Len(history[src])]
  BY LenProperties, LastProperties DEF IInv, Types, ViewTypes

\* A process hands its sample to the history: all that is shown is older.
LEMMA WrittenIsNewer ==
  ASSUME IInv, ViewTypes, NEW w \in Writers, pc[w] = "history",
         NEW s \in Samples \cup {None}, Reached(sample[w].source, s)
  PROVE  /\ s # None => s.at < sample[w].at
         /\ Reached(sample[w].source, s) /\ s # sample[w]
<1> DEFINE src == sample[w].source
<1>1. sample[w] \in Samples /\ src \in Sources /\ sample[w].at \in Nat /\ sample[w] # None
  BY StoreAssumption DEF IInv, HasSample, Samples
<1>2. ~NotNewer(w) /\ (Previous(w) = None <=> history[src] = <<>>) /\ Previous(w) = Last(history[src])
  BY <1>1, PreviousProperties DEF IInv, ReadyHistory, Previous
<1>3. ASSUME s # None PROVE s.at < sample[w].at
  <2>1. history[src] # <<>> /\ s.at <= Last(history[src]).at
    BY <1>3 DEF Reached
  <2>2. s.at \in Nat /\ Last(history[src]) \in Samples /\ Last(history[src]).at \in Nat
    <3>1. s \in Samples /\ Last(history[src]) \in Samples
      BY <1>1, <1>3, <2>1, LatestTypes
    <3> QED
      BY <3>1 DEF Samples
  <2>3. ~(sample[w].at <= Last(history[src]).at)
    BY <1>2, <2>1 DEF NotNewer
  <2> QED
    BY <1>1, <2>1, <2>2, <2>3
<1> QED
  BY <1>1, <1>3

\* The history of a source before and after a step that is no fault.
HistoryWritten(w) ==
  /\ pc[w] = "history" /\ pc'[w] = "events" /\ UNCHANGED <<events, latest, sample, faults>>
  /\ history' = [history EXCEPT ![sample[w].source] = known[w].history]

EventsWritten(w) ==
  /\ pc[w] = "events" /\ pc'[w] = "latest" /\ UNCHANGED <<history, latest, sample, faults>>
  /\ events' = known[w].events

FilesSame == UNCHANGED <<history, events>> /\ (UNCHANGED faults \/ Fault)

LEMMA ContinueFiles ==
  ASSUME IInv, NEW w \in Writers, Continue(w) \/ Kill(w)
  PROVE  /\ ProcessStep(w)
         /\ \/ HistoryWritten(w) \/ EventsWritten(w)
            \/ FilesSame /\ (pc'[w] = "events" => pc[w] = "events")
<1>0. ProcessStep(w)
  BY ContinueSteps
<1>1. CASE Acquire(w) \/ Read(w) \/ Kill(w)
  BY <1>0, <1>1 DEF Acquire, Read, Kill, Goto, Stop, Released, files, FilesSame, IInv, Types
<1>2. CASE WriteHistory(w)
  BY <1>0, <1>2
  DEF WriteHistory, AtomicWrite, Goto, Stop, Released, FilesSame, HistoryWritten, IInv, Types
<1>3. CASE WriteEvents(w)
  BY <1>0, <1>3
  DEF WriteEvents, AtomicWrite, Goto, Stop, Released, FilesSame, EventsWritten, IInv, Types
<1>4. CASE WriteLatest(w)
  BY <1>0, <1>4 DEF WriteLatest, AtomicWrite, Stop, Released, FilesSame, IInv, Types
<1> QED
  BY <1>0, <1>1, <1>2, <1>3, <1>4 DEF Continue

\* Nothing a process does takes back what a sample was reached by.
LEMMA ReachedStays ==
  ASSUME IInv, ViewTypes, NEW w \in Writers, HistoryWritten(w),
         NEW src \in Sources, NEW s \in Samples \cup {None}, Reached(src, s)
  PROVE  Reached(src, s)'
<1>1. sample[w] \in Samples /\ sample[w].source \in Sources /\ sample[w].at \in Nat
  BY DEF HistoryWritten, IInv, HasSample, Samples
<1>2. DOMAIN history = Sources
  BY DEF IInv, Types
<1>3. known[w].history # <<>> /\ Last(known[w].history) = sample[w]
  BY WrittenHistory DEF HistoryWritten, Ends
<1>4. CASE src = sample[w].source
  <2>1. history'[src] = known[w].history
    BY <1>1, <1>2, <1>4 DEF HistoryWritten
  <2>2. s # None => s.at < sample[w].at
    BY <1>4, WrittenIsNewer DEF HistoryWritten
  <2>3. s # None => s.at \in Nat
    BY DEF Samples
  <2>4. s # None => history'[src] # <<>> /\ s.at <= Last(history'[src]).at
    BY <1>1, <1>3, <2>1, <2>2, <2>3
  <2> QED
    BY <2>4 DEF Reached, Last
<1>5. CASE src # sample[w].source
  <2>1. history'[src] = history[src]
    BY <1>1, <1>2, <1>5 DEF HistoryWritten
  <2> QED
    BY <2>1 DEF Reached, Last
<1> QED
  BY <1>4, <1>5

LEMMA ShownReachedStep ==
  ASSUME IInv, ViewTypes, ShownReached, NEW w \in Writers, Continue(w) \/ Kill(w), UNCHANGED view
  PROVE  ShownReached'
<1>1. SUFFICES ASSUME NEW src \in Sources
               PROVE  Reached(src, latest[src])' /\ Reached(src, view.samples[src])'
  BY DEF ShownReached
<1>2. /\ latest[src] \in Samples \cup {None} /\ view.samples[src] \in Samples \cup {None}
      /\ Reached(src, latest[src]) /\ Reached(src, view.samples[src])
  BY LatestTypes DEF ShownReached
<1>3. CASE HistoryWritten(w)
  <2>1. latest' = latest /\ view' = view
    BY <1>3 DEF HistoryWritten
  <2>2. \A s \in Samples \cup {None} :
          Reached(src, s) => (s # None => history'[src] # <<>> /\ s.at <= Last(history'[src]).at)
    BY <1>3, ReachedStays DEF Reached, Last
  <2> QED
    BY <1>2, <2>1, <2>2 DEF Reached, Last
<1>4. CASE UNCHANGED history
  <2>1. CASE latest'[src] = latest[src]
    BY <1>2, <1>4, <2>1 DEF Reached, Last
  <2>2. CASE latest'[src] # latest[src]
    <3>1. EndsShown(w)
      BY <2>2, ContinueSteps DEF ProcessStep, GoesOn, EndsEmpty
    <3>2. sample[w] \in Samples /\ sample[w].at \in Nat /\ sample[w] # None
      BY <3>1, StoreAssumption DEF EndsShown, IInv, HasSample, Samples
    <3>3. src = sample[w].source /\ latest'[src] = sample[w]
      BY <2>2, <3>1, <3>2 DEF EndsShown, IInv, Types, Samples
    <3>4. Last(history[src]) = sample[w]
      BY <3>1, <3>3 DEF EndsShown, IInv, ReadyLatest, Previous
    <3>5. history[src] # <<>>
      BY <3>2, <3>4 DEF Last
    <3>6. latest'[src] # None => history'[src] # <<>> /\ latest'[src].at <= Last(history'[src]).at
      BY <1>4, <3>2, <3>3, <3>4, <3>5
    <3> QED
      BY <1>2, <1>4, <3>6 DEF Reached, Last
  <2> QED
    BY <2>1, <2>2
<1> QED
  BY <1>3, <1>4, ContinueFiles DEF EventsWritten, FilesSame

LEMMA NotShownYetStep ==
  ASSUME IInv, ViewTypes, ShownReached, NotShownYet, NEW w \in Writers, Continue(w) \/ Kill(w)
  PROVE  NotShownYet'
<1>1. SUFFICES ASSUME NEW v \in Writers, pc'[v] = "events"
               PROVE  \/ latest'[sample'[v].source] = None
                      \/ latest'[sample'[v].source].at < sample'[v].at
  BY DEF NotShownYet
<1>2. ProcessStep(w)
  BY ContinueSteps
<1>3. CASE HistoryWritten(w) /\ v = w
  <2>1. sample[w] \in Samples /\ sample[w].source \in Sources
    BY <1>3 DEF HistoryWritten, IInv, HasSample, Samples
  <2>2. /\ latest[sample[w].source] \in Samples \cup {None}
        /\ Reached(sample[w].source, latest[sample[w].source])
    BY <2>1, LatestTypes DEF ShownReached
  <2>3. latest[sample[w].source] # None => latest[sample[w].source].at < sample[w].at
    BY <1>3, <2>2, WrittenIsNewer DEF HistoryWritten
  <2> QED
    BY <1>3, <2>3 DEF HistoryWritten
<1>4. CASE ~(HistoryWritten(w) /\ v = w)
  <2>1. pc[v] = "events" /\ sample'[v] = sample[v]
    <3>1. CASE v # w
      BY <1>1, <1>2, <3>1 DEF ProcessStep, Others
    <3>2. CASE v = w
      <4>1. sample'[w] = sample[w]
        BY <1>1, <1>2, <3>2 DEF ProcessStep, GoesOn, EndsEmpty, EndsShown
      <4>2. pc[w] = "events"
        BY <1>1, <1>4, <3>2, ContinueFiles DEF EventsWritten
      <4> QED
        BY <3>2, <4>1, <4>2
    <3> QED
      BY <3>1, <3>2
  <2>2. ~EndsShown(w)
    <3>1. lock = v /\ (pc[w] = "latest" => lock = w)
      BY <2>1 DEF IInv, LockHeld, Holding
    <3> QED
      BY <2>1, <3>1 DEF EndsShown
  <2>3. latest' = latest
    BY <1>2, <2>2 DEF ProcessStep, GoesOn, EndsEmpty
  <2> QED
    BY <2>1, <2>3 DEF NotShownYet
<1> QED
  BY <1>3, <1>4

\* Until the event file is full, its events stay where they are recorded.
LEMMA EventsStay ==
  ASSUME IInv, NEW w \in Writers, EventsWritten(w), Len(events') < EventLimit
  PROVE  /\ Len(events) < EventLimit
         /\ \A r, code : Recorded(r, code, events) => Recorded(r, code, events')
<1> DEFINE s == sample[w]
<1>1. s \in Samples /\ events \in Seq(EventRecords) /\ EventLimit \in Nat
  BY StoreAssumption DEF EventsWritten, IInv, HasSample, Types
<1>2. PICK p : Before(s.source, p) /\ known[w].events = Lasts(events \o Transition(p, s), EventLimit)
  BY DEF EventsWritten, IInv, ReadyEvents
<1> DEFINE t == Transition(p, s)
           a == events \o t
<1>3. t \in Seq(EventRecords)
  BY <1>1, <1>2, TransitionProperties DEF Before
<1>4. events' = Lasts(a, EventLimit)
  BY <1>2 DEF EventsWritten
<1> HIDE DEF t, s
<1>5. a \in Seq(EventRecords) /\ Len(a) = Len(events) + Len(t)
  BY <1>1, <1>3, ConcatProperties
<1>6. /\ events' \in Seq(EventRecords)
      /\ \E cut \in Nat : CutTo(events', a, EventLimit, cut)
  <2> HIDE DEF a
  <2> QED
    BY <1>1, <1>4, <1>5, LastsProperties
<1>7. events' = a
  <2> HIDE DEF a
  <2>1. PICK cut \in Nat : CutTo(events', a, EventLimit, cut)
    BY <1>6
  <2> QED
    BY <1>1, <1>5, <1>6, <2>1, NothingCut
<1>8. Len(events) \in Nat /\ Len(t) \in Nat
  BY <1>1, <1>3, LenProperties
<1>9. Len(events) < EventLimit
  BY <1>1, <1>5, <1>7, <1>8
<1>10. \A r, code : Recorded(r, code, events) => Recorded(r, code, a)
  BY <1>1, <1>3, RecordedLater
<1> QED
  BY <1>7, <1>9, <1>10

\* As ExplainedBy, with the events of `seq` and the history after the step.
ExplainedAfter(seq, src, s) ==
  faults' = 0 /\ Len(seq) < EventLimit =>
    \A i \in 1 .. Len(history'[src]) :
      history'[src][i] = s => Explained(history'[src], i, seq)

LEMMA ExplainedStays ==
  ASSUME IInv, ViewTypes, NEW w \in Writers, Continue(w) \/ Kill(w),
         NEW src \in Sources, NEW s \in Samples \cup {None}, Reached(src, s)
  PROVE  /\ \A seq : ExplainedBy(seq, src, s) => ExplainedAfter(seq, src, s)
         /\ ExplainedBy(events, src, s) => ExplainedAfter(events', src, s)
<1>1. CASE FilesSame
  <2>1. faults' = 0 => faults = 0
    BY <1>1 DEF FilesSame, Fault, IInv, Types
  <2> QED
    BY <1>1, <2>1 DEF FilesSame, ExplainedBy, ExplainedAfter
<1>2. CASE HistoryWritten(w)
  <2>1. SUFFICES ASSUME NEW seq, ExplainedBy(seq, src, s), faults' = 0, Len(seq) < EventLimit,
                        NEW i \in 1 .. Len(history'[src]), history'[src][i] = s
                 PROVE  Explained(history'[src], i, seq)
    BY <1>2 DEF ExplainedAfter, HistoryWritten
  <2>2. faults = 0
    BY <1>2, <2>1 DEF HistoryWritten
  <2>3. sample[w] \in Samples /\ sample[w].source \in Sources /\ DOMAIN history = Sources
    BY <1>2 DEF HistoryWritten, IInv, HasSample, Samples, Types
  <2>4. CASE src # sample[w].source
    <3>1. history'[src] = history[src]
      BY <1>2, <2>3, <2>4 DEF HistoryWritten
    <3> QED
      BY <2>1, <2>2, <3>1 DEF ExplainedBy
  <2>5. CASE src = sample[w].source
    <3> DEFINE h == history[src]
               n == known[w].history
    <3>1. history'[src] = n
      BY <1>2, <2>3, <2>5 DEF HistoryWritten
    <3>2. h \in Seq(Samples)
      BY LatestTypes
    <3>3. Ends(n, sample[w]) /\ \E cut \in Nat : Extended(n, h, cut)
      BY <1>2, <2>5, WrittenHistory DEF HistoryWritten
    <3>4. s # sample[w]
      BY <1>2, <2>5, WrittenIsNewer DEF HistoryWritten
    <3>5. \A k \in 1 .. Len(h) : h[k] = s => Explained(h, k, seq)
      BY <2>1, <2>2 DEF ExplainedBy
    <3> HIDE DEF h, n
    <3>6. PICK cut \in Nat : Extended(n, h, cut)
      BY <3>3
    <3>7. n \in Seq(Samples) /\ Len(n) <= HistoryLimit /\ n[Len(n)] = sample[w] /\ Len(n) \in Nat
      BY <3>3, LenProperties DEF Ends
    <3>8. i \in 1 .. Len(n) - 1
      <4>1. i \in 1 .. Len(n) /\ i # Len(n)
        BY <2>1, <3>1, <3>4, <3>7
      <4> QED
        BY <3>7, <4>1
    <3>9. i + cut \in 1 .. Len(h) /\ h[i + cut] = s
      BY <2>1, <3>1, <3>6, <3>8 DEF Extended
    <3>10. Explained(h, i + cut, seq)
      BY <3>5, <3>9
    <3>11. Explained(n, i, seq)
      BY <3>2, <3>6, <3>7, <3>8, <3>10, ExplainedExtended
    <3> QED
      BY <3>1, <3>11
  <2> QED
    BY <2>4, <2>5
<1>3. CASE EventsWritten(w)
  <2>1. history' = history /\ faults' = faults
    BY <1>3 DEF EventsWritten
  <2>2. \A seq : ExplainedBy(seq, src, s) => ExplainedAfter(seq, src, s)
    BY <2>1 DEF ExplainedBy, ExplainedAfter
  <2>3. ASSUME ExplainedBy(events, src, s), faults' = 0, Len(events') < EventLimit,
               NEW i \in 1 .. Len(history'[src]), history'[src][i] = s
        PROVE  Explained(history'[src], i, events')
    <3>1. Explained(history[src], i, events)
      BY <1>3, <2>1, <2>3, EventsStay DEF ExplainedBy
    <3> QED
      BY <1>3, <2>1, <2>3, <3>1, EventsStay DEF Explained
  <2> QED
    BY <2>2, <2>3 DEF ExplainedAfter
<1> QED
  BY <1>1, <1>2, <1>3, ContinueFiles

LEMMA ViewOfProcess ==
  ASSUME IInv, ViewInv, NEW w \in Writers, Continue(w) \/ Kill(w), UNCHANGED backend
  PROVE  ViewInv'
<1>1. UNCHANGED <<reading, view>>
  BY DEF backend
<1>2. ViewTypes'
  BY <1>1 DEF ViewInv, ViewTypes
<1>3. ShownReached' /\ NotShownYet'
  BY <1>1, ShownReachedStep, NotShownYetStep DEF ViewInv
<1>4. \A src \in Sources :
        /\ ExplainedBy(view.events, src, view.samples[src])
             => ExplainedAfter(view.events, src, view.samples[src])
        /\ ExplainedBy(events, src, view.samples[src])
             => ExplainedAfter(events', src, view.samples[src])
  BY ExplainedStays, LatestTypes DEF ViewInv, ShownReached
<1>5. \A seq, src, s : ExplainedAfter(seq, src, s)
        => (faults' = 0 /\ Len(seq) < EventLimit =>
              \A i \in 1 .. Len(history'[src]) :
                history'[src][i] = s => Explained(history'[src], i, seq))
  BY DEF ExplainedAfter
<1>6. ViewExplained'
  <2>1. ASSUME reading # None, NEW k \in 1 .. reading
        PROVE  ExplainedAfter(events', ReadOrder[k], view.samples[ReadOrder[k]])
    <3>1. ReadOrder[k] \in Sources
      <4>1. reading \in 0 .. 2
        BY <2>1, ReadOrderProperties DEF ViewInv, ViewTypes
      <4>2. k = 1 \/ k = 2
        BY <4>1
      <4> QED
        BY <4>2, ReadOrderProperties
    <3> QED
      BY <1>4, <2>1, <3>1 DEF ViewInv, ViewExplained
  <2>2. ASSUME reading = None, NEW src \in Sources
        PROVE  ExplainedAfter(view.events, src, view.samples[src])
    BY <1>4, <2>2 DEF ViewInv, ViewExplained
  <2> QED
    BY <1>1, <2>1, <2>2 DEF ViewExplained, ExplainedBy, ExplainedAfter, Explained, Recorded
<1> QED
  BY <1>2, <1>3, <1>6 DEF ViewInv

\* The store and the view rest.
LEMMA ViewRests ==
  ASSUME ViewInv, UNCHANGED <<files, faults, backend>>,
         \A w \in Writers : pc'[w] = "events" => pc[w] = "events" /\ sample'[w] = sample[w]
  PROVE  ViewInv'
<1>1. UNCHANGED <<history, events, latest, faults, reading, view>>
  BY DEF files, backend
<1>2. ViewTypes' /\ ShownReached' /\ NotShownYet'
  BY <1>1 DEF ViewInv, ViewTypes, ShownReached, Reached, NotShownYet, Last
<1>3. ViewExplained'
  BY <1>1 DEF ViewInv, ViewExplained, ExplainedBy, Explained, Recorded
<1> QED
  BY <1>2, <1>3 DEF ViewInv

\* What is shown while a snapshot reads has its events written already.
LEMMA LatestExplained ==
  ASSUME IInv, NotShownYet, NEW src \in Sources
  PROVE  ExplainedBy(events, src, latest[src])
<1>1. SUFFICES ASSUME faults = 0, Len(events) < EventLimit,
                      NEW i \in 1 .. Len(history[src]), history[src][i] = latest[src]
               PROVE  Explained(history[src], i, events)
  BY DEF ExplainedBy
<1>2. ASSUME i = Len(history[src]), Writing(src) PROVE FALSE
  <2>1. PICK w \in Writers : pc[w] = "events" /\ sample[w].source = src
    BY <1>2 DEF Writing
  <2>2. sample[w] \in Samples /\ sample[w].at \in Nat /\ sample[w] # None
    BY <2>1, StoreAssumption DEF IInv, HasSample, Samples
  <2>3. Last(history[src]) = sample[w]
    BY <2>1 DEF IInv, ReadyEvents, Previous
  <2>4. latest[src] = sample[w]
    BY <1>1, <1>2, <2>2, <2>3 DEF Last
  <2> QED
    BY <2>1, <2>2, <2>4 DEF NotShownYet
<1> QED
  BY <1>1, <1>2 DEF IInv, UncutExplained

LEMMA Snapshots ==
  ASSUME IInv, ViewInv, StartSnapshot \/ ReadNext
  PROVE  ViewInv'
<1>1. UNCHANGED <<history, events, latest, pc, sample, faults>>
  BY DEF StartSnapshot, ReadNext, storeVars
<1>2. NotShownYet'
  BY <1>1 DEF ViewInv, NotShownYet
<1>3. CASE StartSnapshot
  <2>1. reading' = 0 /\ view' = view
    BY <1>3 DEF StartSnapshot
  <2>2. 0 # None
    BY DashboardAssumption
  <2>3. ViewTypes' /\ ViewExplained'
    BY <2>1, <2>2, ReadOrderProperties DEF ViewInv, ViewTypes, ViewExplained
  <2>4. ShownReached'
    BY <1>1, <2>1 DEF ViewInv, ShownReached, Reached, Last
  <2> QED
    BY <1>2, <2>3, <2>4 DEF ViewInv
<1>4. ASSUME reading # None, reading < Len(ReadOrder),
             view' = [view EXCEPT !.samples[ReadOrder[reading + 1]] =
                                    latest[ReadOrder[reading + 1]]],
             reading' = reading + 1
      PROVE  ViewInv'
  <2> DEFINE src == ReadOrder[reading + 1]
  <2>1. reading \in {0, 1} /\ reading' \in {1, 2}
    BY <1>4, ReadOrderProperties DEF ViewInv, ViewTypes
  <2>2. src \in Sources /\ (\A k \in 1 .. reading : ReadOrder[k] # src)
    BY <2>1, ReadOrderProperties, DashboardAssumption
  <2>3. reading' # None /\ reading' \in 0 .. 2
    BY <2>1, DashboardAssumption
  <2>4. latest[src] \in Samples \cup {None}
    BY <2>2, LatestTypes DEF ViewInv
  <2>5. view' = [samples |-> [view.samples EXCEPT ![src] = latest[src]], events |-> view.events]
    BY <1>4 DEF ViewInv, ViewTypes
  <2> HIDE DEF src
  <2>6. /\ view'.samples[src] = latest[src] /\ view'.events = view.events
        /\ \A other \in Sources : other # src => view'.samples[other] = view.samples[other]
        /\ view'.samples \in [Sources -> Samples \cup {None}]
    BY <2>2, <2>4, <2>5 DEF ViewInv, ViewTypes
  <2>7. ViewTypes'
    BY <2>3, <2>5, <2>6, ReadOrderProperties DEF ViewInv, ViewTypes
  <2>8. ShownReached'
    BY <1>1, <2>2, <2>6 DEF ViewInv, ShownReached, Reached, Last
  <2>9. \A k \in 1 .. reading' : ExplainedBy(events, ReadOrder[k], view'.samples[ReadOrder[k]])
    <3>1. SUFFICES ASSUME NEW k \in 1 .. reading'
                   PROVE  ExplainedBy(events, ReadOrder[k], view'.samples[ReadOrder[k]])
      OBVIOUS
    <3>2. CASE k = reading + 1
      BY <2>2, <2>6, <3>2, LatestExplained DEF ViewInv, src
    <3>3. CASE k \in 1 .. reading
      <4>1. ReadOrder[k] \in Sources /\ ReadOrder[k] # src
        BY <2>1, <2>2, <3>3, ReadOrderProperties
      <4> QED
        BY <1>4, <2>6, <3>3, <4>1 DEF ViewInv, ViewExplained
    <3> QED
      BY <1>4, <2>1, <3>2, <3>3
  <2>10. ViewExplained'
    BY <1>1, <2>3, <2>9 DEF ViewExplained, ExplainedBy, Explained, Recorded
  <2> QED
    BY <1>2, <2>7, <2>8, <2>10 DEF ViewInv
<1>5. ASSUME reading = Len(ReadOrder), reading # None, reading' = None,
             view' = [view EXCEPT !.events = events]
      PROVE  ViewInv'
  <2>1. reading = 2
    BY <1>5, ReadOrderProperties
  <2>2. view' = [samples |-> view.samples, events |-> events]
    BY <1>5 DEF ViewInv, ViewTypes
  <2>3. ViewTypes'
    BY <1>5, <2>2 DEF ViewInv, ViewTypes, IInv, Types
  <2>4. ShownReached'
    BY <1>1, <2>2 DEF ViewInv, ShownReached, Reached, Last
  <2>5. \A src \in Sources : ExplainedBy(events, src, view.samples[src])
    <3>1. \A k \in 1 .. 2 : ExplainedBy(events, ReadOrder[k], view.samples[ReadOrder[k]])
      BY <1>5, <2>1 DEF ViewInv, ViewExplained
    <3>2. 1 \in 1 .. 2 /\ 2 \in 1 .. 2
      OBVIOUS
    <3> QED
      BY <3>1, <3>2, ReadOrderProperties, DashboardAssumption
  <2>6. ViewExplained'
    BY <1>1, <1>5, <2>2, <2>5 DEF ViewExplained, ExplainedBy, Explained, Recorded
  <2> QED
    BY <1>2, <2>3, <2>4, <2>6 DEF ViewInv
<1> QED
  BY <1>3, <1>4, <1>5 DEF ReadNext

-----------------------------------------------------------------------------
\* Every step of the dashboard is a step of the store, or leaves it alone.
LEMMA DashboardStoreStep ==
  ASSUME ClientInv, [DashboardNext]_vars
  PROVE  [Next]_storeVars
<1>1. ASSUME NEW w \in Writers, Receive(w) \/ Probe(w) PROVE Submit(w)
  BY <1>1 DEF Receive, Probe, Submit, ClientInv, ClientTypes
<1> QED
  BY <1>1 DEF DashboardNext, Next, Collect, GiveUp, LoseSession, StartSnapshot, ReadNext, Answer,
              vars

LEMMA DashboardInvStep == DInv /\ [DashboardNext]_vars => DInv'
<1> SUFFICES ASSUME DInv, [DashboardNext]_vars PROVE DInv'
  OBVIOUS
<1> USE DEF DInv
<1>1. IInv'
  BY DashboardStoreStep, InvStep
<1>2. ShownReached
  BY DEF ViewInv
<1>3. ASSUME NEW w \in Writers, Continue(w) \/ Kill(w), UNCHANGED <<client, backend>>
      PROVE  ClientInv' /\ ViewInv'
  BY <1>2, <1>3, ContinueSteps, ClientWaits, ViewOfProcess
<1>4. ASSUME NEW w \in Writers, Receive(w) \/ Probe(w) PROVE ClientInv' /\ ViewInv'
  <2>1. PICK s \in Samples : Begin(w, s)
    BY <1>4 DEF Receive, Probe, ClientInv, ClientTypes
  <2>2. UNCHANGED <<files, faults, backend>>
    BY <1>4, <2>1 DEF Receive, Probe, Begin
  <2>3. \A v \in Writers : pc'[v] = "events" => pc[v] = "events" /\ sample'[v] = sample[v]
    BY <2>1, BeginSteps DEF Others
  <2> QED
    BY <1>4, <2>2, <2>3, ClientReceives, ViewRests
<1>5. CASE Collect \/ GiveUp \/ LoseSession \/ \E w \in Writers : Answer(w)
  <2>1. UNCHANGED <<files, faults, backend, pc, sample>>
    BY <1>5 DEF Collect, GiveUp, LoseSession, Answer, storeVars, files
  <2>2. ViewInv'
    BY <2>1, ViewRests
  <2>3. ClientInv'
    BY <1>5, ClientActs
  <2> QED
    BY <1>1, <2>2, <2>3
<1>6. ASSUME UNCHANGED <<upload, inflight, session, pc, sample, stored, latest>> PROVE ClientInv'
  BY <1>6
  DEF ClientInv, ClientTypes, OneUpload, WaitedSample, RunningNotStored, SessionStores, ShownSince,
      UploadedIsShown
<1>7. CASE StartSnapshot \/ ReadNext
  <2>1. UNCHANGED <<upload, inflight, session, pc, sample, stored, latest>>
    BY <1>7 DEF StartSnapshot, ReadNext, storeVars, client
  <2>2. ViewInv'
    BY <1>7, Snapshots
  <2> QED
    BY <1>1, <1>6, <2>1, <2>2
<1>8. CASE (Tick /\ UNCHANGED <<client, backend>>) \/ UNCHANGED vars
  <2>1. UNCHANGED <<files, faults, backend, client, process>>
    BY <1>8 DEF Tick, vars, storeVars, files, process
  <2>2. UNCHANGED <<upload, inflight, session, pc, sample, stored, latest>>
    BY <2>1 DEF client, process, files
  <2>3. ViewInv'
    BY <2>1, <2>2, ViewRests
  <2> QED
    BY <1>1, <1>6, <2>2, <2>3
<1> QED
  BY <1>1, <1>3, <1>4, <1>5, <1>7, <1>8 DEF DashboardNext

LEMMA DashboardInvariant == DashboardSpec => []DInv
  BY DashboardInvInitially, DashboardInvStep, PTL DEF DashboardSpec

\* The store between the client and the backend is the store: all that is
\* proved of it holds while uploads are given up and snapshots read.
THEOREM DashboardIsStore == DashboardSpec => Spec
<1>1. DashboardInit => Init
  BY DEF DashboardInit
<1>2. DInv /\ [DashboardNext]_vars => [Next]_storeVars
  BY DashboardStoreStep DEF DInv
<1> QED
  BY <1>1, <1>2, DashboardInvariant, PTL DEF DashboardSpec, Spec

\* When the client's receipt says uploaded, its sample or a newer one is shown,
\* however many sessions were given up, lost, overtaken or killed.
THEOREM UploadsAreShown == DashboardSpec => []UploadedIsShown
<1>1. DInv => UploadedIsShown
  BY DEF DInv, ClientInv
<1> QED
  BY <1>1, DashboardInvariant, PTL

\* A snapshot that takes no lock explains what it shows, for any number of
\* writers that store while it reads.
THEOREM SnapshotsExplain == DashboardSpec => []ShownIsExplained
<1>1. DInv => ShownIsExplained
  <2>1. SUFFICES ASSUME DInv, faults = 0, reading = None, Len(view.events) < EventLimit,
                        NEW src \in Sources, NEW i \in DOMAIN history[src],
                        history[src][i] = view.samples[src]
                 PROVE  Explained(history[src], i, view.events)
    BY DEF ShownIsExplained, Explained
  <2>2. i \in 1 .. Len(history[src])
    BY LenProperties DEF DInv, IInv, Types
  <2> QED
    BY <2>1, <2>2 DEF DInv, ViewInv, ViewExplained, ExplainedBy
<1> QED
  BY <1>1, DashboardInvariant, PTL
=============================================================================
