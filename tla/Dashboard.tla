------------------------------ MODULE Dashboard ------------------------------
(***************************************************************************)
(* The store between its two ends: the client, which collects a sample,    *)
(* sends it through an SSH session it gives up after a timeout and keeps    *)
(* the answer (scripts/demo-telemetry.py); the host's timer; and the app's *)
(* backend, which reads one file after the other without the lock          *)
(* (infrastructure/observability/app/backend/server.py).                   *)
(***************************************************************************)
EXTENDS SampleStore

CONSTANTS
  Client, Server, \* the two sources
  MaxUploads,     \* bound on the client's collections
  MaxReads        \* bound on the backend's snapshots

ReadOrder == <<Client, Server>>

ASSUME DashboardAssumption ==
  /\ Sources = {Client, Server} /\ Client # Server
  /\ MaxUploads \in Nat /\ MaxReads \in Nat /\ None \notin Nat

VARIABLES
  upload,   \* the client's last sample and what upload-status.json says of it
  inflight, \* what SSH sessions carry, and whether the client still waits
  session,  \* the collector processes whose session the client waits on
  reading,  \* how many files a snapshot has read; None between snapshots
  view,     \* the samples and the events the current or last snapshot read
  uploads, reads

client == <<upload, inflight, session, uploads>>
backend == <<reading, view, reads>>
vars == <<storeVars, client, backend>>

DashboardInit ==
  /\ Init
  /\ upload = [at |-> 0, state |-> "none"]
  /\ inflight = {} /\ session = {}
  /\ reading = None
  /\ view = [samples |-> [src \in Sources |-> None], events |-> <<>>]
  /\ uploads = 0 /\ reads = 0

-----------------------------------------------------------------------------
\* collect_once, up to the sending; the client's clock says what it likes.
Collect ==
  /\ upload.state # "sending" /\ uploads < MaxUploads
  /\ uploads' = uploads + 1
  /\ \E s \in Samples :
       /\ s.source = Client
       /\ upload' = [at |-> s.at, state |-> "sending"]
       /\ inflight' = inflight \cup {[sample |-> s, waited |-> TRUE]}
  /\ UNCHANGED <<storeVars, session, backend>>

\* The SSH command runs into its timeout; what it carried goes on alone.
GiveUp ==
  /\ upload.state = "sending"
  /\ upload' = [upload EXCEPT !.state = "upload_failed"]
  /\ inflight' = {[m EXCEPT !.waited = FALSE] : m \in inflight}
  /\ session' = {}
  /\ UNCHANGED <<storeVars, uploads, backend>>

\* receive-client starts, or the session never reaches the host.
Receive(w) ==
  /\ w \notin session
  /\ \E m \in inflight :
       /\ Begin(w, m.sample)
       /\ inflight' = inflight \ {m}
       /\ session' = IF m.waited THEN session \cup {w} ELSE session
  /\ UNCHANGED <<upload, uploads, backend>>

LoseSession ==
  /\ \E m \in inflight : inflight' = inflight \ {m}
  /\ UNCHANGED <<storeVars, upload, session, uploads, backend>>

\* The process ends and its session with it; the client writes the receipt.
Answer(w) ==
  /\ w \in session /\ pc[w] = "idle"
  /\ upload' = [upload EXCEPT !.state =
       IF w \in stored THEN "uploaded" ELSE "upload_failed"]
  /\ session' = session \ {w}
  /\ UNCHANGED <<storeVars, inflight, uploads, backend>>

\* The timer's own sample.
Probe(w) ==
  /\ w \notin session
  /\ \E s \in Samples : s.source = Server /\ s.at = clock /\ Begin(w, s)
  /\ UNCHANGED <<client, backend>>

-----------------------------------------------------------------------------
\* snapshot(): <source>.json in turn, then the events.
StartSnapshot ==
  /\ reading = None /\ reads < MaxReads
  /\ reading' = 0 /\ reads' = reads + 1
  /\ UNCHANGED <<storeVars, client, view>>

\* As if the events were read first.
EventsFirst ==
  /\ reading # None
  /\ \/ /\ reading > 0 /\ reading <= Len(ReadOrder)
        /\ view' = [view EXCEPT !.samples[ReadOrder[reading]] = latest[ReadOrder[reading]]]
        /\ reading' = IF reading = Len(ReadOrder) THEN None ELSE reading + 1
     \/ /\ reading = 0
        /\ view' = [view EXCEPT !.events = events]
        /\ reading' = 1
  /\ UNCHANGED <<storeVars, client, reads>>

ReadNext ==
  /\ reading # None
  /\ \/ /\ reading < Len(ReadOrder)
        /\ view' = [view EXCEPT !.samples[ReadOrder[reading + 1]] =
                                  latest[ReadOrder[reading + 1]]]
        /\ reading' = reading + 1
     \/ /\ reading = Len(ReadOrder)
        /\ view' = [view EXCEPT !.events = events]
        /\ reading' = None
  /\ UNCHANGED <<storeVars, client, reads>>

-----------------------------------------------------------------------------
DashboardNext ==
  \/ Collect \/ GiveUp \/ LoseSession \/ StartSnapshot \/ ReadNext
  \/ \E w \in Writers : Receive(w) \/ Answer(w) \/ Probe(w)
  \/ (Tick \/ \E w \in Writers : Continue(w) \/ Kill(w)) /\ UNCHANGED <<client, backend>>

DashboardSpec == DashboardInit /\ [][DashboardNext]_vars

-----------------------------------------------------------------------------
\* When the client's receipt says uploaded, a reader finds that sample or a
\* newer one, whatever sessions were given up, overtaken or killed before.
UploadedIsShown ==
  upload.state = "uploaded" => latest[Client] # None /\ latest[Client].at >= upload.at

\* A snapshot explains what it shows, though it takes no lock: as long as no
\* store was cut short, a shown sample that is its source's first, or changed
\* the checks, has its event in the same answer, unless newer events filled it.
ShownIsExplained ==
  faults = 0 /\ reading = None /\ Len(view.events) < EventLimit =>
    \A src \in Sources : \A i \in DOMAIN history[src] :
      history[src][i] = view.samples[src] =>
        /\ i > 1 /\ history[src][i].checks # history[src][i - 1].checks
           => Recorded(view.samples[src], "checks_changed", view.events)
        /\ i = 1 /\ Len(history[src]) < HistoryLimit
           => Recorded(view.samples[src], "first_sample", view.events)
=============================================================================
