--------------------------- MODULE MCCeilingLadder ---------------------------
(* A model-checking instance of CeilingLadder: four documents, which differ in *)
(* every control, so that among the pairs each kind of composition occurs.    *)
EXTENDS CeilingLadder

CONSTANTS x, y, primary, canary

List(mode, items) == [plain |-> TRUE, leaves |-> {[mode |-> mode, items |-> items]}]

\* The posture of one member, whose uses are items too.
Only(member, rules) == [i \in Items |-> IF i = member THEN rules ELSE None]

Fleet ==
  [rules |-> [s \in Scopes |-> List("deny", {x})],
   spawn |-> [enabled |-> TRUE, inner |-> List("allow", {x, y})],
   sandbox |-> 0,
   channels |-> [members |-> List("allow", {x, y}), posture |-> Only(x, List("deny", {y}))],
   boot |-> [require_sandbox |-> FALSE, allow_terminal |-> TRUE, fail_closed |-> TRUE],
   remote |-> None, min_version |-> 1, source |-> None, verified |-> TRUE]

Tight ==
  [rules |-> [s \in Scopes |-> List("allow", {x})],
   spawn |-> [enabled |-> FALSE, inner |-> List("deny", {y})],
   sandbox |-> 1,
   channels |-> [members |-> List("deny", {x}), posture |-> Only(y, List("allow", {x}))],
   boot |-> [require_sandbox |-> TRUE, allow_terminal |-> FALSE, fail_closed |-> FALSE],
   remote |-> primary, min_version |-> 2, source |-> primary, verified |-> FALSE]

Loose ==
  [rules |-> [s \in Scopes |-> List("deny", {y})],
   spawn |-> None, sandbox |-> None, channels |-> None,
   boot |-> [require_sandbox |-> FALSE, allow_terminal |-> TRUE, fail_closed |-> FALSE],
   remote |-> canary, min_version |-> Unparsed, source |-> canary, verified |-> TRUE]

\* Above the rank of the profile, so the gates refuse it.
Strict == [Loose EXCEPT !.sandbox = 2, !.source = None, !.min_version = None]

FourDocuments == {Fleet, Tight, Loose, Strict}
=============================================================================
