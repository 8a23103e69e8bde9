------------------------ MODULE CeilingLadder_proofs ------------------------
(***************************************************************************)
(* What is proved of the ceiling: the fold of two documents is exact, and  *)
(* so is the ceiling in force, for any documents, files and order of       *)
(* starts, edits and refreshes.                                            *)
(***************************************************************************)
EXTENDS CeilingLadder, TLAPS

-----------------------------------------------------------------------------
(* The fold, control by control. *)

LEMMA NoneIsApart ==
  /\ \A r \in Ruleset : r # None
  /\ \A g \in Gate : g # None
  /\ \A m \in Map : m # None
  /\ \A n \in Nat : n # None
BY CeilingAssumption

\* A composed ruleset permits what both permit, flattened or not.
LEMMA RulesExact ==
  ASSUME NEW a \in Ruleset, NEW b \in Ruleset
  PROVE  /\ ComposeRules(a, b) \in Ruleset
         /\ \A x : Permits(ComposeRules(a, b), x) <=> Permits(a, x) /\ Permits(b, x)
<1>1. CASE DenyList(a) /\ DenyList(b)
  <2> DEFINE ls == a.leaves \cup b.leaves
             all == UNION {l.items : l \in ls}
             deny == [mode |-> "deny", items |-> all]
  <2>1. ls \subseteq Leaf /\ all \subseteq Items
    BY DEF Ruleset, Leaf
  <2>2. deny \in Leaf
    BY <2>1 DEF Leaf
  <2>3. ComposeRules(a, b) = [plain |-> TRUE, leaves |-> {deny}]
    BY <1>1 DEF ComposeRules
  <2>4. ComposeRules(a, b) \in Ruleset
    BY <2>2, <2>3 DEF Ruleset
  <2>5. ASSUME NEW x
        PROVE  Permits(ComposeRules(a, b), x) <=> Permits(a, x) /\ Permits(b, x)
    <3>1. \A l \in ls : LeafPermits(l, x) <=> x \notin l.items
      BY <1>1 DEF DenyList, LeafPermits
    <3>5. ComposeRules(a, b).leaves = {deny} /\ ComposeRules(a, b) # None
      <4>1. ComposeRules(a, b).leaves = {deny}
        BY <2>3
      <4>2. ComposeRules(a, b) # None
        BY <2>4, NoneIsApart
      <4> QED
        BY <4>1, <4>2
    <3> HIDE DEF deny
    <3>2. Permits(ComposeRules(a, b), x) <=> LeafPermits(deny, x)
      <4> DEFINE c == ComposeRules(a, b)
      <4> HIDE DEF c
      <4>1. c.leaves = {deny} /\ c # None
        BY <3>5 DEF c
      <4>2. Permits(c, x) <=> LeafPermits(deny, x)
        BY <4>1, Zenon DEF Permits
      <4> QED
        BY <4>2 DEF c
    <3> USE DEF deny
    <3> HIDE DEF all
    <3>4. LeafPermits(deny, x) <=> x \notin all
      BY DEF LeafPermits
    <3> USE DEF all
    <3>3. x \notin all <=> \A l \in ls : x \notin l.items
      OBVIOUS
    <3> QED
      BY <3>1, <3>2, <3>3, <3>4, NoneIsApart DEF Permits
  <2> QED
    BY <2>4, <2>5
<1>2. CASE ~(DenyList(a) /\ DenyList(b))
  <2>1. ComposeRules(a, b) = [plain |-> FALSE, leaves |-> a.leaves \cup b.leaves]
    BY <1>2 DEF ComposeRules
  <2>2. ComposeRules(a, b) \in Ruleset
    BY <2>1 DEF Ruleset
  <2>3. /\ ComposeRules(a, b).leaves = a.leaves \cup b.leaves
        /\ ComposeRules(a, b) # None /\ a # None /\ b # None
    <3>1. ComposeRules(a, b).leaves = a.leaves \cup b.leaves
      BY <2>1
    <3>2. ComposeRules(a, b) # None /\ a # None /\ b # None
      BY <2>2, NoneIsApart
    <3> QED
      BY <3>1, <3>2
  <2> DEFINE c == ComposeRules(a, b)
  <2> HIDE DEF c
  <2>4. c.leaves = a.leaves \cup b.leaves /\ c # None
    BY <2>3 DEF c
  <2>5. \A x : Permits(c, x) <=> Permits(a, x) /\ Permits(b, x)
    BY <2>3, <2>4, Zenon DEF Permits
  <2> QED
    BY <2>2, <2>5 DEF c
<1> QED
  BY <1>1, <1>2

\* The same of a control that one of the two may lack.
LEMMA CarriedRulesExact ==
  ASSUME NEW a \in Ruleset \cup {None}, NEW b \in Ruleset \cup {None}
  PROVE  LET c == Carried(a, b, ComposeRules(a, b))
         IN /\ c \in Ruleset \cup {None}
            /\ \A x : Permits(c, x) <=> Permits(a, x) /\ Permits(b, x)
<1>1. CASE a = None \/ b = None
  BY <1>1 DEF Carried, Permits
<1>2. CASE a # None /\ b # None
  <2>1. a \in Ruleset /\ b \in Ruleset
    BY <1>2
  <2> QED
    BY <2>1, <1>2, RulesExact DEF Carried
<1> QED
  BY <1>1, <1>2

LEMMA GatesExact ==
  ASSUME NEW a \in Gate \cup {None}, NEW b \in Gate \cup {None}
  PROVE  LET c == Carried(a, b, ComposeGates(a, b))
         IN /\ c \in Gate \cup {None}
            /\ GateEnabled(c) <=> GateEnabled(a) /\ GateEnabled(b)
            /\ \A x : GatePermits(c, x) <=> GatePermits(a, x) /\ GatePermits(b, x)
<1>1. CASE a = None \/ b = None
  BY <1>1 DEF Carried, GatePermits, GateEnabled
<1>2. CASE a # None /\ b # None
  <2> DEFINE inner == Carried(a.inner, b.inner, ComposeRules(a.inner, b.inner))
             c == [enabled |-> a.enabled /\ b.enabled, inner |-> inner]
  <2>1. /\ a.inner \in Ruleset \cup {None} /\ b.inner \in Ruleset \cup {None}
        /\ a.enabled \in BOOLEAN /\ b.enabled \in BOOLEAN
    BY <1>2 DEF Gate
  <2>2. /\ inner \in Ruleset \cup {None}
        /\ \A x : Permits(inner, x) <=> Permits(a.inner, x) /\ Permits(b.inner, x)
    BY <2>1, CarriedRulesExact
  <2>3. Carried(a, b, ComposeGates(a, b)) = c
    BY <1>2 DEF Carried, ComposeGates
  <2>4. c \in Gate /\ c # None
    BY <2>1, <2>2, NoneIsApart DEF Gate
  <2>5. c.enabled <=> a.enabled /\ b.enabled
    OBVIOUS
  <2> HIDE DEF inner
  <2>6. c.inner = inner
    OBVIOUS
  <2> HIDE DEF c
  <2>7. GateEnabled(c) <=> GateEnabled(a) /\ GateEnabled(b)
    BY <1>2, <2>4, <2>5 DEF GateEnabled
  <2>8. \A x : GatePermits(c, x) <=> GatePermits(a, x) /\ GatePermits(b, x)
    BY <1>2, <2>2, <2>4, <2>5, <2>6 DEF GatePermits
  <2> QED
    BY <2>3, <2>4, <2>7, <2>8
<1> QED
  BY <1>1, <1>2

LEMMA RanksExact ==
  ASSUME NEW a \in 0..MaxRank \cup {None}, NEW b \in 0..MaxRank \cup {None}
  PROVE  LET c == Carried(a, b, ComposeRanks(a, b))
         IN /\ c \in 0..MaxRank \cup {None}
            /\ \A n \in 0..MaxRank : RankAllows(c, n) <=> RankAllows(a, n) /\ RankAllows(b, n)
<1>1. CASE a = None \/ b = None
  BY <1>1 DEF Carried, RankAllows
<1>2. CASE a # None /\ b # None
  BY <1>2, CeilingAssumption, NoneIsApart DEF Carried, RankAllows, ComposeRanks
<1> QED
  BY <1>1, <1>2

\* Members are intersected when the authority's are plain, as parsing makes them.
LEMMA MapsExact ==
  ASSUME NEW a \in Map \cup {None}, NEW b \in Map \cup {None},
         a # None => a.members \in PlainRuleset
  PROVE  LET c == Carried(a, b, ComposeMaps(a, b))
         IN /\ c \in Map \cup {None}
            /\ \A x : MapPermits(c, x) <=> MapPermits(a, x) /\ MapPermits(b, x)
            /\ \A member, x : PosturePermits(c, member, x)
                             <=> PosturePermits(IF a # None THEN a ELSE b, member, x)
<1>1. CASE a = None \/ b = None
  BY <1>1 DEF Carried, MapPermits, PosturePermits
<1>2. CASE a # None /\ b # None
  <2> DEFINE members == ComposeRules(a.members, b.members)
  <2>1. a.members \in Ruleset /\ b.members \in Ruleset /\ a.members.plain
    BY <1>2 DEF Map, PlainRuleset
  <2>2. /\ members \in Ruleset
        /\ \A x : Permits(members, x) <=> Permits(a.members, x) /\ Permits(b.members, x)
    BY <2>1, RulesExact
  <2> HIDE DEF members
  <2>3. Carried(a, b, ComposeMaps(a, b)) = [a EXCEPT !.members = members]
    BY <1>2, <2>1 DEF Carried, ComposeMaps, members
  <2>4. /\ [a EXCEPT !.members = members] \in Map
        /\ [a EXCEPT !.members = members].members = members
        /\ [a EXCEPT !.members = members].posture = a.posture
    BY <1>2, <2>2 DEF Map
  <2> QED
    BY <1>2, <2>2, <2>3, <2>4, NoneIsApart DEF MapPermits, PosturePermits
<1> QED
  BY <1>1, <1>2

LEMMA FloorsExact ==
  ASSUME NEW a \in Versions \cup {Unparsed, None}, NEW b \in Versions \cup {Unparsed, None}
  PROVE  /\ ComposeFloors(a, b) \in Versions \cup {Unparsed, None}
         /\ \A v \in Versions : MeetsMinVersion(ComposeFloors(a, b), v)
                              <=> MeetsMinVersion(a, v) /\ MeetsMinVersion(b, v)
<1>1. CASE a = None \/ b = None
  BY <1>1, CeilingAssumption DEF ComposeFloors, MeetsMinVersion
<1>2. CASE a # None /\ b # None
  <2>1. CASE a = Unparsed \/ b = Unparsed
    BY <1>2, <2>1, CeilingAssumption DEF ComposeFloors, MeetsMinVersion
  <2>2. CASE a # Unparsed /\ b # Unparsed
    <3>1. a \in Nat /\ b \in Nat
      BY <1>2, <2>2, CeilingAssumption DEF Versions
    <3>2. ComposeFloors(a, b) = IF a >= b THEN a ELSE b
      BY <1>2, <2>2 DEF ComposeFloors, ComposeRanks
    <3> QED
      BY <1>2, <2>2, <3>1, <3>2, CeilingAssumption DEF MeetsMinVersion, Versions
  <2> QED
    BY <2>1, <2>2
<1> QED
  BY <1>1, <1>2

-----------------------------------------------------------------------------
(* The fold of two documents, and the ladder. *)

LEMMA DocumentFields ==
  ASSUME NEW d \in Documents
  PROVE  /\ d \in Document /\ d # Absent /\ d # Unusable
         /\ \A s \in Scopes : d.rules[s] \in Ruleset \cup {None}
         /\ d.spawn \in Gate \cup {None}
         /\ d.sandbox \in 0..MaxRank \cup {None}
         /\ d.channels \in Map \cup {None}
         /\ d.channels # None => d.channels.members \in PlainRuleset
         /\ d.boot \in [require_sandbox : BOOLEAN, allow_terminal : BOOLEAN, fail_closed : BOOLEAN]
         /\ d.remote \in Remotes \cup {None}
         /\ d.min_version \in Versions \cup {Unparsed, None}
         /\ d.source \in Sources \cup {None}
         /\ d.verified \in BOOLEAN
<1>1. Parsed(d) /\ Absent \notin Document /\ Unusable \notin Document
  BY CeilingAssumption
<1>2. d \in Document /\ (d.channels # None => d.channels.members \in PlainRuleset)
  BY <1>1 DEF Parsed
<1> QED
  BY <1>1, <1>2 DEF Document

\* What Fold puts in each field.
LEMMA FoldFields ==
  ASSUME NEW a \in Documents, NEW b \in Documents
  PROVE  LET c == Fold(a, b)
         IN /\ c \in Document
            /\ \A s \in Scopes :
                 c.rules[s] = Carried(a.rules[s], b.rules[s], ComposeRules(a.rules[s], b.rules[s]))
            /\ c.spawn = Carried(a.spawn, b.spawn, ComposeGates(a.spawn, b.spawn))
            /\ c.sandbox = Carried(a.sandbox, b.sandbox, ComposeRanks(a.sandbox, b.sandbox))
            /\ c.channels = Carried(a.channels, b.channels, ComposeMaps(a.channels, b.channels))
            /\ c.boot.require_sandbox = (a.boot.require_sandbox \/ b.boot.require_sandbox)
            /\ c.boot.allow_terminal = (a.boot.allow_terminal /\ b.boot.allow_terminal)
            /\ c.boot.fail_closed = (a.boot.fail_closed \/ b.boot.fail_closed)
            /\ c.remote = IF a.remote = None THEN b.remote ELSE a.remote
            /\ c.min_version = ComposeFloors(a.min_version, b.min_version)
            /\ c.source = IF a.source = None THEN b.source ELSE a.source
            /\ c.verified = a.verified
<1> DEFINE rules == [s \in Scopes |-> Carried(a.rules[s], b.rules[s], ComposeRules(a.rules[s], b.rules[s]))]
           spawn == Carried(a.spawn, b.spawn, ComposeGates(a.spawn, b.spawn))
           sandbox == Carried(a.sandbox, b.sandbox, ComposeRanks(a.sandbox, b.sandbox))
           channels == Carried(a.channels, b.channels, ComposeMaps(a.channels, b.channels))
           boot == [require_sandbox |-> a.boot.require_sandbox \/ b.boot.require_sandbox,
                    allow_terminal |-> a.boot.allow_terminal /\ b.boot.allow_terminal,
                    fail_closed |-> a.boot.fail_closed \/ b.boot.fail_closed]
           remote == IF a.remote = None THEN b.remote ELSE a.remote
           floor == ComposeFloors(a.min_version, b.min_version)
           source == IF a.source = None THEN b.source ELSE a.source
<1>1. rules \in [Scopes -> Ruleset \cup {None}]
  <2>1. ASSUME NEW s \in Scopes
        PROVE  Carried(a.rules[s], b.rules[s], ComposeRules(a.rules[s], b.rules[s])) \in Ruleset \cup {None}
    BY DocumentFields, CarriedRulesExact
  <2> QED
    BY <2>1
<1>2. spawn \in Gate \cup {None}
  BY DocumentFields, GatesExact
<1>3. sandbox \in 0..MaxRank \cup {None}
  BY DocumentFields, RanksExact
<1>4. channels \in Map \cup {None}
  BY DocumentFields, MapsExact
<1>5. floor \in Versions \cup {Unparsed, None}
  BY DocumentFields, FloorsExact
<1>6. remote \in Remotes \cup {None} /\ source \in Sources \cup {None} /\ a.verified \in BOOLEAN
  BY DocumentFields
<1>7. boot \in [require_sandbox : BOOLEAN, allow_terminal : BOOLEAN, fail_closed : BOOLEAN]
  OBVIOUS
<1>8. a \in Document
  BY DocumentFields
<1>9. Fold(a, b) = [a EXCEPT !.rules = rules, !.spawn = spawn, !.sandbox = sandbox,
                             !.channels = channels, !.boot = boot, !.remote = remote,
                             !.min_version = floor, !.source = source]
  BY DEF Fold
<1>10. \A s \in Scopes :
         rules[s] = Carried(a.rules[s], b.rules[s], ComposeRules(a.rules[s], b.rules[s]))
  OBVIOUS
<1>11. /\ boot.require_sandbox = (a.boot.require_sandbox \/ b.boot.require_sandbox)
       /\ boot.allow_terminal = (a.boot.allow_terminal /\ b.boot.allow_terminal)
       /\ boot.fail_closed = (a.boot.fail_closed \/ b.boot.fail_closed)
  OBVIOUS
<1> HIDE DEF rules, spawn, sandbox, channels, boot, remote, floor, source
<1> DEFINE c == [a EXCEPT !.rules = rules, !.spawn = spawn, !.sandbox = sandbox,
                          !.channels = channels, !.boot = boot, !.remote = remote,
                          !.min_version = floor, !.source = source]
<1>12. /\ c.rules = rules /\ c.spawn = spawn /\ c.sandbox = sandbox /\ c.channels = channels
       /\ c.boot = boot /\ c.remote = remote /\ c.min_version = floor /\ c.source = source
       /\ c.verified = a.verified
  BY <1>8 DEF Document
<1>13. c \in Document
  <2> DEFINE fields == {"rules", "spawn", "sandbox", "channels", "boot", "remote",
                        "min_version", "source", "verified"}
  <2>1. c = [x \in fields |-> c[x]]
    <3>1. a = [x \in fields |-> a[x]]
      BY <1>8 DEF Document
    <3> QED
      BY <3>1
  <2> QED
    BY <1>1, <1>2, <1>3, <1>4, <1>5, <1>6, <1>7, <1>12, <2>1 DEF Document
<1> HIDE DEF c
<1>14. Fold(a, b) = c
  BY <1>9 DEF c
<1> QED
  BY <1>10, <1>11, <1>12, <1>13, <1>14 DEF rules, spawn, sandbox, channels, remote, floor, source

\* A ceiling of one document is that document.
LEMMA AloneIsExact ==
  ASSUME NEW a \in Documents
  PROVE  Exact(a, a, Absent)
<1>1. {a, Absent} \ {Absent} = {a}
  BY DocumentFields
<1> QED
  BY <1>1, Zenon DEF Exact

\* The fold of two documents permits exactly what both permit.
LEMMA FoldIsExact ==
  ASSUME NEW a \in Documents, NEW b \in Documents
  PROVE  Exact(Fold(a, b), a, b)
<1> DEFINE c == Fold(a, b)
           tiers == {a, b} \ {Absent}
<1>1. b # Absent /\ tiers = {a, b}
  BY DocumentFields
<1>2. ASSUME NEW s \in Scopes, NEW x \in Items
      PROVE  Permits(c.rules[s], x) <=> Permits(a.rules[s], x) /\ Permits(b.rules[s], x)
  <2>1. a.rules[s] \in Ruleset \cup {None} /\ b.rules[s] \in Ruleset \cup {None}
    BY DocumentFields
  <2>2. c.rules[s] = Carried(a.rules[s], b.rules[s], ComposeRules(a.rules[s], b.rules[s]))
    BY FoldFields
  <2> HIDE DEF c
  <2> QED
    BY <2>1, <2>2, CarriedRulesExact
<1>3. /\ GateEnabled(c.spawn) <=> GateEnabled(a.spawn) /\ GateEnabled(b.spawn)
      /\ \A x \in Items : GatePermits(c.spawn, x) <=> GatePermits(a.spawn, x) /\ GatePermits(b.spawn, x)
  BY FoldFields, DocumentFields, GatesExact
<1>4. \A x \in Items : MapPermits(c.channels, x) <=> MapPermits(a.channels, x) /\ MapPermits(b.channels, x)
  BY FoldFields, DocumentFields, MapsExact
<1>9. \A member \in Items, x \in Items :
        PosturePermits(c.channels, member, x)
        <=> PosturePermits(IF a.channels # None THEN a.channels ELSE b.channels, member, x)
  BY FoldFields, DocumentFields, MapsExact
<1>5. \A n \in 0..MaxRank : RankAllows(c.sandbox, n) <=> RankAllows(a.sandbox, n) /\ RankAllows(b.sandbox, n)
  <2>1. a.sandbox \in 0..MaxRank \cup {None} /\ b.sandbox \in 0..MaxRank \cup {None}
    BY DocumentFields
  <2>2. c.sandbox = Carried(a.sandbox, b.sandbox, ComposeRanks(a.sandbox, b.sandbox))
    BY FoldFields
  <2>3. \A n \in 0..MaxRank : RankAllows(Carried(a.sandbox, b.sandbox, ComposeRanks(a.sandbox, b.sandbox)), n)
                              <=> RankAllows(a.sandbox, n) /\ RankAllows(b.sandbox, n)
    <3> DEFINE r == a.sandbox
               q == b.sandbox
    <3>1. r \in 0..MaxRank \cup {None} /\ q \in 0..MaxRank \cup {None}
      BY <2>1
    <3> HIDE DEF r, q
    <3>2. \A n \in 0..MaxRank : RankAllows(Carried(r, q, ComposeRanks(r, q)), n)
                                <=> RankAllows(r, n) /\ RankAllows(q, n)
      BY <3>1, RanksExact
    <3> QED
      BY <3>2 DEF r, q
  <2> QED
    BY <2>2, <2>3
<1>6. \A v \in Versions : MeetsMinVersion(c.min_version, v)
                       <=> MeetsMinVersion(a.min_version, v) /\ MeetsMinVersion(b.min_version, v)
  BY FoldFields, DocumentFields, FloorsExact
<1>7. /\ c.boot.require_sandbox = (a.boot.require_sandbox \/ b.boot.require_sandbox)
      /\ c.boot.allow_terminal = (a.boot.allow_terminal /\ b.boot.allow_terminal)
      /\ c.boot.fail_closed = (a.boot.fail_closed \/ b.boot.fail_closed)
      /\ c.remote = IF a.remote # None THEN a.remote ELSE b.remote
      /\ c.source = IF a.source # None THEN a.source ELSE b.source
      /\ c.verified = a.verified
  BY FoldFields
<1> HIDE DEF c
<1>8. Exact(c, a, b)
  BY <1>1, <1>2, <1>3, <1>4, <1>5, <1>6, <1>7, <1>9 DEF Exact
<1> QED
  BY <1>8 DEF c

-----------------------------------------------------------------------------
(* The process. *)

\* A fold of the ladder is exact for the documents that went into it.
Holds(c, b) ==
  IF b.authority = Absent THEN c = Absent
  ELSE c # Absent /\ Exact(c, b.authority, b.beneath)

LEMMA LadderIsExact ==
  ASSUME NEW central \in Documents \cup {Absent}, NEW beneath \in Documents \cup {Absent}
  PROVE  /\ Ladder(central, beneath) \in Document \cup {Absent}
         /\ Holds(Ladder(central, beneath),
                  IF central = Absent THEN [authority |-> beneath, beneath |-> Absent]
                  ELSE [authority |-> central, beneath |-> beneath])
<1> USE DEF Ladder, Holds
<1>1. CASE central = Absent
  <2>1. CASE beneath = Absent
    BY <1>1, <2>1
  <2>2. CASE beneath \in Documents
    BY <1>1, <2>2, DocumentFields, AloneIsExact
  <2> QED
    BY <2>1, <2>2
<1>2. CASE central \in Documents /\ beneath = Absent
  BY <1>2, DocumentFields, AloneIsExact
<1>3. CASE central \in Documents /\ beneath \in Documents
  <2>1. central # Absent /\ beneath # Absent /\ Absent \notin Document
    BY <1>3, DocumentFields, CeilingAssumption
  <2>2. Ladder(central, beneath) = Fold(central, beneath)
    BY <2>1
  <2>3. Fold(central, beneath) \in Document
    BY <1>3, FoldFields
  <2> QED
    BY <1>3, <2>1, <2>2, <2>3, FoldIsExact
<1> QED
  BY <1>1, <1>2, <1>3

\* The subordinate that is used is the first usable local document.
LEMMA SubordinateIsLocal ==
  ASSUME env \in Tier, home \in Tier, bundled \in Documents \cup {Absent},
         NEW beneathAuthority \in BOOLEAN,
         env # Unusable, Subordinate(bundled, beneathAuthority) # Unusable
  PROVE  Subordinate(bundled, beneathAuthority) = Local /\ Local \in Documents \cup {Absent}
<1>1. Absent \notin Documents /\ Unusable \notin Documents /\ Absent # Unusable
  BY DocumentFields, CeilingAssumption
<1> QED
  BY <1>1 DEF Subordinate, Local, Tier

\* A load that succeeds yields what its basis says.
LEMMA LoadHolds ==
  ASSUME env \in Tier, home \in Tier, served \in Tier, bundled \in Documents \cup {Absent},
         Load(bundled) # Unusable
  PROVE  /\ Load(bundled) \in Document \cup {Absent}
         /\ Holds(Load(bundled), Basis(Central(bundled)))
         /\ Basis(Central(bundled)) \in [authority : Documents \cup {Absent},
                                         beneath : Documents \cup {Absent}]
<1> DEFINE central == Central(bundled)
           beneath == Subordinate(bundled, central # Absent)
<1>1. env # Unusable /\ central # Unusable /\ beneath # Unusable /\ Load(bundled) = Ladder(central, beneath)
  BY DEF Load
<1>2. central \in Documents \cup {Absent}
  BY <1>1 DEF Central, Tier
<1>3. beneath = Local /\ Local \in Documents \cup {Absent}
  BY <1>1, SubordinateIsLocal
<1> HIDE DEF central, beneath
<1>4. Absent \notin Documents
  BY DocumentFields
<1>5. Basis(central) = IF central = Absent THEN [authority |-> beneath, beneath |-> Absent]
                       ELSE [authority |-> central, beneath |-> beneath]
  BY <1>3 DEF Basis
<1>6. Ladder(central, beneath) \in Document \cup {Absent} /\ Holds(Ladder(central, beneath), Basis(central))
  BY <1>2, <1>3, <1>5, LadderIsExact
<1>7. Basis(central) \in [authority : Documents \cup {Absent}, beneath : Documents \cup {Absent}]
  BY <1>2, <1>3 DEF Basis
<1> QED
  BY <1>1, <1>6, <1>7 DEF central

\* The load before the edition's yields a document, or none.
LEMMA LoadTyped ==
  ASSUME env \in Tier, home \in Tier, served \in Tier, Load(Absent) # Unusable
  PROVE  Load(Absent) \in Document \cup {Absent}
<1> DEFINE central == Central(Absent)
           beneath == Subordinate(Absent, central # Absent)
<1>1. env # Unusable /\ central # Unusable /\ beneath # Unusable /\ Load(Absent) = Ladder(central, beneath)
  BY DEF Load
<1>2. central \in Documents \cup {Absent}
  BY <1>1 DEF Central, Tier
<1>3. beneath \in Documents \cup {Absent}
  BY <1>1 DEF Subordinate, Tier
<1> HIDE DEF central, beneath
<1>4. Ladder(central, beneath) \in Document \cup {Absent}
  BY <1>2, <1>3, LadderIsExact
<1> QED
  BY <1>1, <1>4

\* So does a refresh that composes under a served document, when the process
\* remembers the edition's document as it is.
LEMMA RefreshHolds ==
  ASSUME env \in Tier, home \in Tier, bundled \in Documents \cup {Absent},
         served \in Documents, Subordinate(bundled, TRUE) # Unusable
  PROVE  LET c == Ladder(served, Subordinate(bundled, TRUE))
         IN /\ c \in Document \cup {Absent}
            /\ Holds(c, Basis(served))
            /\ Basis(served) \in [authority : Documents \cup {Absent},
                                  beneath : Documents \cup {Absent}]
<1> DEFINE beneath == Subordinate(bundled, TRUE)
<1>1. env # Unusable
  BY CeilingAssumption DEF Subordinate
<1>2. beneath = Local /\ Local \in Documents \cup {Absent}
  BY <1>1, SubordinateIsLocal
<1> HIDE DEF beneath
<1>3. Basis(served) = [authority |-> served, beneath |-> beneath] /\ served # Absent
  BY <1>2, DocumentFields DEF Basis
<1>4. Ladder(served, beneath) \in Document \cup {Absent} /\ Holds(Ladder(served, beneath), Basis(served))
  BY <1>2, <1>3, LadderIsExact
<1>5. Basis(served) \in [authority : Documents \cup {Absent}, beneath : Documents \cup {Absent}]
  <2>1. beneath \in Documents \cup {Absent} /\ served \in Documents
    BY <1>2
  <2> QED
    BY <1>3, <2>1
<1> QED
  BY <1>4, <1>5 DEF beneath

-----------------------------------------------------------------------------
\* The inductive invariant: what the process remembers of its edition, and what
\* the last fold is.
Inv ==
  /\ TypeOK
  /\ pc \in {"off", "core"} => memory = Absent
  /\ pc \in {"loaded", "up"} => memory = bundled
  /\ pc = "loaded" => Holds(record, basis)
  /\ pc = "up" => Holds(installed, basis)
  /\ pc = "up" /\ ~reloaded => record = installed
  /\ pc # "up" => ~reloaded

LEMMA Starts == Init => Inv
<1> SUFFICES ASSUME Init PROVE Inv
  OBVIOUS
<1>1. /\ env \in Tier /\ home \in Tier /\ served \in Tier
      /\ bundled \in Documents \cup {Absent}
      /\ url \in BOOLEAN /\ mandate \in BOOLEAN
      /\ edition \in BOOLEAN /\ (bundled # Absent => edition)
  BY DEF Init
<1>2. pc = "off" /\ memory = Absent /\ record = Absent /\ installed = Absent /\ reloaded = FALSE
  BY DEF Init
<1>3. basis \in [authority : Documents \cup {Absent}, beneath : Documents \cup {Absent}]
  BY DEF Init, NoBasis
<1>4. edits \in 0..MaxEdits
  BY LadderAssumption DEF Init
<1>5. TypeOK
  BY <1>1, <1>2, <1>3, <1>4 DEF TypeOK
<1> QED
  BY <1>2, <1>5 DEF Inv

LEMMA Steps == ASSUME Inv, [Next]_vars PROVE Inv'
<1> USE DEF Inv
<1>1. CASE CoreLoad
  <2>1. CASE Load(Absent) = Unusable
    BY <1>1, <2>1 DEF CoreLoad, TypeOK, files, setting
  <2>2. CASE Load(Absent) # Unusable /\ edition
    <3>1. Load(Absent) \in Document \cup {Absent}
      BY <2>2, LoadTyped DEF TypeOK
    <3> QED
      BY <1>1, <2>2, <3>1 DEF CoreLoad, TypeOK, files, setting
  <2>3. CASE Load(Absent) # Unusable /\ ~edition
    <3> DEFINE c == Load(Absent)
               b == Basis(Central(Absent))
    <3>1. bundled = Absent
      BY <2>3 DEF TypeOK
    <3>2. /\ c \in Document \cup {Absent} /\ Holds(c, b)
          /\ b \in [authority : Documents \cup {Absent}, beneath : Documents \cup {Absent}]
      BY <2>3, <3>1, LoadHolds DEF TypeOK
    <3>3. /\ pc = "off" /\ pc' = "loaded" /\ record' = c /\ basis' = b
          /\ UNCHANGED <<files, setting, memory, installed, reloaded, edits>>
      BY <1>1, <2>3 DEF CoreLoad
    <3> HIDE DEF c, b
    <3>4. Holds(record', basis')
      BY <3>2, <3>3
    <3>5. TypeOK'
      BY <3>2, <3>3 DEF TypeOK, files, setting
    <3> QED
      BY <3>1, <3>3, <3>4, <3>5 DEF files
  <2> QED
    BY <2>1, <2>2, <2>3
<1>2. CASE EditionLoad
  <2>1. CASE Load(bundled) = Unusable
    BY <1>2, <2>1 DEF EditionLoad, TypeOK, files, setting
  <2>2. CASE Load(bundled) # Unusable
    <3> DEFINE c == Load(bundled)
               b == Basis(Central(bundled))
    <3>1. /\ c \in Document \cup {Absent} /\ Holds(c, b)
          /\ b \in [authority : Documents \cup {Absent}, beneath : Documents \cup {Absent}]
      BY <2>2, LoadHolds DEF TypeOK
    <3>2. /\ record' = c /\ basis' = b /\ memory' = bundled /\ pc = "core" /\ pc' = "loaded"
          /\ UNCHANGED <<files, setting, installed, reloaded, edits>>
      BY <1>2, <2>2 DEF EditionLoad
    <3> HIDE DEF c, b
    <3>3. Holds(record', basis')
      BY <3>1, <3>2
    <3>4. TypeOK'
      BY <3>1, <3>2 DEF TypeOK, files, setting
    <3> QED
      BY <3>2, <3>3, <3>4 DEF files
  <2> QED
    BY <2>1, <2>2
<1>3. CASE Boot
  BY <1>3 DEF Boot, TypeOK, files, setting, Holds
<1>8. CASE LoadAgain
  <2>1. PICK document \in {Absent, bundled} :
          /\ memory' = IF document = Absent THEN memory ELSE document
          /\ IF Load(document) = Unusable THEN UNCHANGED <<record, reloaded>>
             ELSE record' = Load(document) /\ reloaded' = TRUE
    BY <1>8 DEF LoadAgain
  <2>2. pc = "up" /\ UNCHANGED <<files, setting, pc, installed, basis, edits>>
    BY <1>8 DEF LoadAgain
  <2>3. memory' = bundled
    BY <2>1, <2>2
  <2>4. CASE Load(document) = Unusable
    BY <2>1, <2>2, <2>3, <2>4 DEF TypeOK, files, setting, Holds
  <2>5. CASE Load(document) # Unusable
    <3>1. Load(document) \in Document \cup {Absent}
      BY <2>5, LoadTyped, LoadHolds DEF TypeOK
    <3>2. record' = Load(document) /\ reloaded'
      BY <2>1, <2>5
    <3>3. Holds(installed', basis')
      BY <2>2
    <3>4. TypeOK'
      BY <2>2, <2>3, <3>1, <3>2, <2>1, <2>5 DEF TypeOK, files, setting
    <3> QED
      BY <2>2, <2>3, <3>2, <3>3, <3>4 DEF files
  <2> QED
    BY <2>4, <2>5
<1>4. CASE Refresh
  <2> DEFINE c == Ladder(served, Subordinate(memory, TRUE))
  <2>1. memory = bundled /\ served \in Documents /\ Subordinate(bundled, TRUE) # Unusable
    BY <1>4 DEF Refresh
  <2>2. /\ c \in Document \cup {Absent} /\ Holds(c, Basis(served))
        /\ Basis(served) \in [authority : Documents \cup {Absent}, beneath : Documents \cup {Absent}]
    BY <2>1, RefreshHolds DEF TypeOK
  <2>3. UNCHANGED <<files, setting, pc, memory, edits>>
    BY <1>4 DEF Refresh
  <2>4. CASE UNCHANGED <<installed, record, basis, reloaded>>
    BY <2>3, <2>4 DEF TypeOK, files, setting, Holds
  <2>5. CASE installed' = c /\ record' = c /\ basis' = Basis(served) /\ reloaded' = FALSE
    <3> HIDE DEF c
    <3>1. Holds(installed', basis') /\ pc' = "up"
      BY <1>4, <2>2, <2>5 DEF Refresh
    <3>2. TypeOK'
      BY <2>2, <2>3, <2>5 DEF TypeOK, files, setting
    <3> QED
      BY <2>3, <2>5, <3>1, <3>2 DEF files
  <2> QED
    BY <1>4, <2>4, <2>5 DEF Refresh
<1>5. CASE Exit
  BY <1>5 DEF Exit, TypeOK, files, setting, NoBasis
<1>6. CASE Edit
  <2>1. UNCHANGED <<bundled, setting, process>>
    BY <1>6 DEF Edit
  <2>2. env' \in Tier /\ home' \in Tier /\ served' \in Tier /\ edits' \in 0..MaxEdits
    BY <1>6, LadderAssumption DEF Edit, TypeOK
  <2> QED
    BY <2>1, <2>2 DEF TypeOK, process, setting, Holds
<1>7. CASE UNCHANGED vars
  BY <1>7 DEF vars, files, setting, process, TypeOK, Holds
<1> QED
  BY <1>1, <1>2, <1>3, <1>4, <1>5, <1>6, <1>7, <1>8 DEF Next

LEMMA AlwaysInv == Spec => []Inv
BY Starts, Steps, PTL DEF Spec

\* Every variable keeps its type; in particular a fold of documents is a document.
THEOREM LadderTypes == Spec => []TypeOK
<1>1. Inv => TypeOK
  BY DEF Inv
<1> QED
  BY <1>1, AlwaysInv, PTL

\* For any documents, files and history: in every control but the posture of the
\* channels, which is the highest document's, the ceiling in force permits exactly
\* what the documents that ought to bind permit (_intersect_ceilings,
\* compose_tier_ladder, compose_installed_ceiling).
THEOREM FoldsExactly == Spec => []InstalledIsExact
<1>1. Inv => InstalledIsExact
  BY DEF Inv, InstalledIsExact, Holds
<1> QED
  BY <1>1, AlwaysInv, PTL

\* The fold a process remembers having composed is the one in force, unless a caller
\* loaded the policy since (apply_ceiling, load_security_policy).
THEOREM RecordAgrees == Spec => []RecordIsInstalled
<1>1. Inv => RecordIsInstalled
  BY DEF Inv, RecordIsInstalled
<1> QED
  BY <1>1, AlwaysInv, PTL

\* An unusable home file refuses no start under a central document that was
\* reached (_subordinate_ceiling).
THEOREM HomeNeverRefuses == Spec => HomeCannotRefuse
<1> DEFINE Last == pc = "core" \/ (pc = "off" /\ ~edition)
           Bears == Last /\ pc' = "refused" /\ Central(bundled) \in Documents => env = Unusable
<1>1. ASSUME Inv, [Next]_vars
      PROVE  Bears
  <2> SUFFICES ASSUME Last, pc' = "refused", Central(bundled) \in Documents, env # Unusable
               PROVE  FALSE
    OBVIOUS
  <2>1. EditionLoad \/ (CoreLoad /\ bundled = Absent)
    BY <1>1 DEF Next, vars, process, CoreLoad, Boot, LoadAgain, Refresh, Exit, Edit, Inv, TypeOK
  <2>2. Load(bundled) = Unusable
    BY <2>1 DEF EditionLoad, CoreLoad
  <2>3. Central(bundled) # Absent /\ Central(bundled) # Unusable /\ Absent # Unusable
    BY DocumentFields, CeilingAssumption
  <2>4. Subordinate(bundled, TRUE) # Unusable
    BY <1>1, <2>3, DocumentFields DEF Subordinate, Inv, TypeOK
  <2>5. Load(bundled) = Ladder(Central(bundled), Subordinate(bundled, TRUE))
    BY <2>3, <2>4 DEF Load
  <2>6. Subordinate(bundled, TRUE) \in Documents \cup {Absent}
    BY <1>1, <2>4 DEF Subordinate, Inv, TypeOK, Tier
  <2>7. Load(bundled) \in Document \cup {Absent}
    BY <2>5, <2>6, LadderIsExact
  <2> QED
    BY <2>2, <2>3, <2>7, CeilingAssumption
<1>2. Spec => [][Bears]_vars
  BY <1>1, AlwaysInv, PTL DEF Spec
<1> QED
  BY <1>2 DEF HomeCannotRefuse
=============================================================================
