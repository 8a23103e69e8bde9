--------------------------- MODULE SampleRegister ---------------------------
(***************************************************************************)
(* What the collector's store promises its reader: per source, the newest  *)
(* sample it accepted and the one it shows.  A sample is accepted once and *)
(* only if it is newer; what is shown is the newest accepted at the time.  *)
(***************************************************************************)
EXTENDS Naturals

CONSTANTS Sources, Samples, None

VARIABLES accepted, shown

Init ==
  /\ accepted = [src \in Sources |-> None]
  /\ shown = [src \in Sources |-> None]

Newer(s, old) == old = None \/ old.at < s.at

Accept(s) ==
  /\ Newer(s, accepted[s.source])
  /\ accepted' = [accepted EXCEPT ![s.source] = s]
  /\ UNCHANGED shown

Publish(src) ==
  /\ accepted[src] # None
  /\ shown' = [shown EXCEPT ![src] = accepted[src]]
  /\ UNCHANGED accepted

Next == (\E s \in Samples : Accept(s)) \/ (\E src \in Sources : Publish(src))

Spec == Init /\ [][Next]_<<accepted, shown>>
=============================================================================
