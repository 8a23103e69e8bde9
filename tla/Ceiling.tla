------------------------------- MODULE Ceiling -------------------------------
(***************************************************************************)
(* The security ceiling as a value (platform/governance.py): the four      *)
(* kinds of control and how two of one kind are composed, a policy         *)
(* document, and the fold of a central document and the one beneath it.    *)
(*                                                                         *)
(* A pattern is the set of items it matches, so a list of patterns is a    *)
(* set of items and the matchers disappear; every scope has one matcher.   *)
(***************************************************************************)
EXTENDS Integers

CONSTANTS
  Scopes,     \* scopes governed by a ruleset: tools, mcp, network.egress, ...
  Items,      \* what rulesets are asked about
  MaxRank,    \* the strictest value of the ordinal scale
  MaxVersion, \* bound on versions
  Sources,    \* where a central document may be fetched from
  Remotes,    \* where an update may come from
  Documents,  \* the policy documents in the world
  None,       \* not governed, not set
  Unparsed,   \* a version string that is not a version
  Absent,     \* no document in a tier
  Unusable    \* a document that cannot be read, parsed or established

-----------------------------------------------------------------------------
\* ScopedRuleset is a plain ruleset, one leaf; _AndRuleset the AND of leaves.
Leaf == [mode : {"allow", "deny"}, items : SUBSET Items]
Ruleset == [plain : BOOLEAN, leaves : SUBSET Leaf]
PlainRuleset == {r \in Ruleset : r.plain /\ \E l \in Leaf : r.leaves = {l}}

LeafPermits(l, x) == IF l.mode = "allow" THEN x \in l.items ELSE x \notin l.items

\* A control a document does not have permits everything.
Permits(r, x) == r = None \/ \A l \in r.leaves : LeafPermits(l, x)

\* Two plain deny lists flatten to their union; anything else is kept as an AND.
DenyList(r) == r.plain /\ \A l \in r.leaves : l.mode = "deny"

ComposeRules(a, b) ==
  IF DenyList(a) /\ DenyList(b)
  THEN [plain |-> TRUE,
        leaves |-> {[mode |-> "deny", items |-> UNION {l.items : l \in a.leaves \cup b.leaves}]}]
  ELSE [plain |-> FALSE, leaves |-> a.leaves \cup b.leaves]

\* A control in one document only carries through; in both, it is composed.
Carried(a, b, composed) == IF a = None THEN b ELSE IF b = None THEN a ELSE composed

Gate == [enabled : BOOLEAN, inner : Ruleset \cup {None}]

ComposeGates(a, b) ==
  [enabled |-> a.enabled /\ b.enabled,
   inner |-> Carried(a.inner, b.inner, ComposeRules(a.inner, b.inner))]

GateEnabled(g) == g = None \/ g.enabled

GatePermits(g, x) == g = None \/ (g.enabled /\ Permits(g.inner, x))

\* strictest-of: a higher rank is stricter.
ComposeRanks(a, b) == IF a >= b THEN a ELSE b

RankAllows(r, n) == r = None \/ n >= r

\* Members are intersected, unless the base is no plain ruleset.  What each member
\* may be used for, its posture, stays the base's: the narrower one's is dropped.
Map == [members : Ruleset, posture : [Items -> Ruleset \cup {None}]]

ComposeMaps(a, b) ==
  [a EXCEPT !.members = IF a.members.plain THEN ComposeRules(a.members, b.members) ELSE a.members]

MapPermits(m, x) == m = None \/ Permits(m.members, x)

PosturePermits(m, member, x) == m = None \/ Permits(m.posture[member], x)

-----------------------------------------------------------------------------
Versions == 1..MaxVersion

Document ==
  [rules : [Scopes -> Ruleset \cup {None}],
   spawn : Gate \cup {None},
   sandbox : 0..MaxRank \cup {None},
   channels : Map \cup {None},
   boot : [require_sandbox : BOOLEAN, allow_terminal : BOOLEAN, fail_closed : BOOLEAN],
   remote : Remotes \cup {None},
   min_version : Versions \cup {Unparsed, None},
   source : Sources \cup {None},
   verified : BOOLEAN]

\* What parse_policy makes of a file: every ruleset of a document is plain, and
\* only a member that is admitted has a posture.
Parsed(d) ==
  /\ d \in Document
  /\ \A s \in Scopes : d.rules[s] # None => d.rules[s] \in PlainRuleset
  /\ (d.spawn # None /\ d.spawn.inner # None) => d.spawn.inner \in PlainRuleset
  /\ d.channels # None =>
       /\ d.channels.members \in PlainRuleset
       /\ \A member \in Items : d.channels.posture[member] # None =>
            /\ d.channels.posture[member] \in PlainRuleset
            /\ Permits(d.channels.members, member)

ASSUME CeilingAssumption ==
  /\ MaxRank \in Nat /\ MaxVersion \in Nat
  /\ \A d \in Documents : Parsed(d)
  /\ None \notin Sources \cup Remotes \cup Ruleset \cup Gate \cup Map \cup Nat
  /\ Unparsed \notin Nat \cup {None}
  /\ Absent # Unusable /\ Absent \notin Document /\ Unusable \notin Document

MeetsMinVersion(floor, v) == floor \in {None, Unparsed} \/ v >= floor

\* _intersect_update_pins: a floor that cannot be parsed yields to the other.
ComposeFloors(a, b) ==
  IF a = None \/ (a = Unparsed /\ b # None) THEN b
  ELSE IF b \in {None, Unparsed} THEN a
  ELSE ComposeRanks(a, b)

\* _intersect_ceilings and the distribution pins of compose_tier_ladder.
Fold(a, b) ==
  [a EXCEPT
     !.rules = [s \in Scopes |-> Carried(a.rules[s], b.rules[s], ComposeRules(a.rules[s], b.rules[s]))],
     !.spawn = Carried(a.spawn, b.spawn, ComposeGates(a.spawn, b.spawn)),
     !.sandbox = Carried(a.sandbox, b.sandbox, ComposeRanks(a.sandbox, b.sandbox)),
     !.channels = Carried(a.channels, b.channels, ComposeMaps(a.channels, b.channels)),
     !.boot = [require_sandbox |-> a.boot.require_sandbox \/ b.boot.require_sandbox,
               allow_terminal |-> a.boot.allow_terminal /\ b.boot.allow_terminal,
               fail_closed |-> a.boot.fail_closed \/ b.boot.fail_closed],
     !.remote = IF a.remote = None THEN b.remote ELSE a.remote,
     !.min_version = ComposeFloors(a.min_version, b.min_version),
     !.source = IF a.source = None THEN b.source ELSE a.source]

\* compose_tier_ladder, over the central document and the subordinate.
Ladder(central, subordinate) ==
  IF central = Absent THEN subordinate
  ELSE IF subordinate = Absent THEN central
  ELSE Fold(central, subordinate)
=============================================================================
