--------------------------- MODULE MCProfileStore ---------------------------
(* Instances of ProfileStore for TLC.                                        *)
EXTENDS ProfileStore
CONSTANTS app, surface

Plain(bind) == [ok |-> TRUE, bind |-> bind, parent |-> 0]
Child == [ok |-> TRUE, bind |-> app, parent |-> 1]
Damaged(bind) == [ok |-> FALSE, bind |-> bind, parent |-> 0]

SurfaceAndChild == <<Plain(surface), Child>>
AllTexts == {Plain(app), Plain(surface), Child, Damaged(NoBind), Damaged(app)}
AppCall == {[binds |-> <<app, surface>>, contained |-> FALSE]}
TwoCalls == AppCall \cup {[binds |-> <<surface>>, contained |-> TRUE]}
=============================================================================
