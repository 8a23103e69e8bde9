---------------------------- MODULE CeilingLadder ----------------------------
(***************************************************************************)
(* The tier ladder (platform/governance.py): which documents a process     *)
(* folds into its ceiling when it starts, twice, without and with the      *)
(* document its edition ships, and at every refresh, while the files and   *)
(* the endpoint change under it, and while callers in the running process  *)
(* load the policy again for their own use.  PolicyRefresh is about when a central     *)
(* document is fetched and cached; here a fetch is one step and the        *)
(* documents have contents.                                                *)
(***************************************************************************)
EXTENDS Ceiling

CONSTANTS
  Profile, \* the rank a profile file asks for, or None
  MaxEdits \* bound on changes of the files and of the endpoint

ASSUME LadderAssumption ==
  /\ Profile \in 0..MaxRank \cup {None}
  /\ MaxEdits \in Nat

Tier == Documents \cup {Absent, Unusable}

VARIABLES
  env,      \* the file KIROCREW_SECURITY_POLICY names
  bundled,  \* the document the edition ships
  home,     \* ~/.kiro/crew/security_policy.json
  served,   \* what the central tier answers: a document, nothing (degrade), an error
  url,      \* KIROCREW_POLICY_URL is set
  mandate,  \* require_policy_signature in the admission policy
  edition,  \* a companion edition loads the policy after the public core
  pc,       \* how far the start of the process is
  memory,   \* last_bundled
  record,   \* last_composed
  installed,\* current_context().governance
  basis,    \* ghost: the documents that ought to be in the ceiling in force
  reloaded, \* ghost: a caller loaded the policy since the ceiling came into force
  edits

files == <<env, bundled, home, served>>
setting == <<url, mandate, edition>>
process == <<pc, memory, record, installed, basis, reloaded>>
vars == <<files, setting, process, edits>>

NoBasis == [authority |-> Absent, beneath |-> Absent]

Init ==
  /\ env \in Tier /\ home \in Tier /\ served \in Tier
  /\ bundled \in Documents \cup {Absent}
  /\ url \in BOOLEAN /\ mandate \in BOOLEAN
  /\ edition \in BOOLEAN /\ (bundled # Absent => edition)
  /\ pc = "off" /\ memory = Absent /\ record = Absent /\ installed = Absent
  /\ basis = NoBasis /\ reloaded = FALSE
  /\ edits = 0

-----------------------------------------------------------------------------
SourceOf(d) == IF d \in Documents THEN d.source ELSE None

\* The peek for a declared source; a home file that cannot be used declares none.
Declared(bundle) ==
  IF SourceOf(env) # None THEN SourceOf(env)
  ELSE IF SourceOf(bundle) # None THEN SourceOf(bundle)
  ELSE SourceOf(home)

Central(bundle) == IF url \/ Declared(bundle) # None THEN served ELSE Absent

\* As if an unusable home file were fatal under a central document too.
SubordinateFatal(bundle, beneathAuthority) ==
  IF env # Absent THEN env ELSE IF bundle # Absent THEN bundle ELSE home

\* Tiers 2-4, first present wins; beneath a central document a home file that
\* cannot be used is skipped.
Subordinate(bundle, beneathAuthority) ==
  IF env # Absent THEN env
  ELSE IF bundle # Absent THEN bundle
  ELSE IF home = Unusable /\ beneathAuthority THEN Absent
  ELSE home

\* load_security_policy: one error, of whatever tier, is an error of the load.
Load(bundle) ==
  LET central == Central(bundle)
      subordinate == Subordinate(bundle, central # Absent)
  IN IF Unusable \in {env, central, subordinate} THEN Unusable
     ELSE Ladder(central, subordinate)

\* assert_policy_signature_satisfied and the ordinal floor.
Satisfied(c) ==
  /\ mandate => c # Absent /\ c.verified
  /\ c = Absent \/ c.sandbox = None \/ Profile = None \/ Profile >= c.sandbox

-----------------------------------------------------------------------------
\* The documents that ought to bind, whatever the process remembers: the central
\* one, when it was asked for, over the first usable local one.
Local ==
  IF env \in Documents THEN env
  ELSE IF bundled \in Documents THEN bundled
  ELSE IF home \in Documents THEN home ELSE Absent

Basis(central) ==
  IF central = Absent THEN [authority |-> Local, beneath |-> Absent]
  ELSE [authority |-> central, beneath |-> Local]

\* The core's own load: the last word where there is no edition to ask.
CoreLoad ==
  /\ pc = "off"
  /\ IF Load(Absent) = Unusable
     THEN pc' = "refused" /\ UNCHANGED <<record, basis>>
     ELSE /\ pc' = IF edition THEN "core" ELSE "loaded"
          /\ record' = Load(Absent)
          /\ basis' = IF edition THEN basis ELSE Basis(Central(Absent))
  /\ UNCHANGED <<files, setting, memory, installed, reloaded, edits>>

\* As if the edition's document were not remembered for the refreshes.
EditionForgotten ==
  /\ pc = "core"
  /\ IF Load(bundled) = Unusable
     THEN pc' = "refused" /\ UNCHANGED <<record, basis>>
     ELSE /\ pc' = "loaded" /\ record' = Load(bundled)
          /\ basis' = Basis(Central(bundled))
  /\ UNCHANGED <<files, setting, memory, installed, reloaded, edits>>

\* The edition's load, with the document it ships, if its loader finds one.
EditionLoad ==
  /\ pc = "core"
  /\ memory' = IF bundled = Absent THEN memory ELSE bundled
  /\ IF Load(bundled) = Unusable
     THEN pc' = "refused" /\ UNCHANGED <<record, basis>>
     ELSE /\ pc' = "loaded" /\ record' = Load(bundled)
          /\ basis' = Basis(Central(bundled))
  /\ UNCHANGED <<files, setting, installed, reloaded, edits>>

\* The floor gates, on the last fold only.
Boot ==
  /\ pc = "loaded"
  /\ IF Satisfied(record) THEN pc' = "up" /\ installed' = record
     ELSE pc' = "refused" /\ installed' = installed
  /\ UNCHANGED <<files, setting, memory, record, basis, reloaded, edits>>

\* A caller in the running process loads the policy for its own use, with or
\* without the edition's document (mcp_gateway.app_call, at every app callback): the
\* fold is recorded and not installed.  A load that fails is the caller's error.
LoadAgain ==
  /\ pc = "up"
  /\ \E document \in {Absent, bundled} :
       /\ memory' = IF document = Absent THEN memory ELSE document
       /\ IF Load(document) = Unusable THEN UNCHANGED <<record, reloaded>>
          ELSE record' = Load(document) /\ reloaded' = TRUE
  /\ UNCHANGED <<files, setting, pc, installed, basis, edits>>

\* A host without a source has no refreshes.
HasSource == url \/ (installed # Absent /\ installed.source # None)

\* As if the fold were recorded where it is composed.
RefreshRecordsEarly ==
  /\ pc = "up" /\ HasSource /\ served \in Documents
  /\ LET composed == Ladder(served, Subordinate(memory, TRUE))
     IN /\ Subordinate(memory, TRUE) # Unusable
        /\ record' = composed
        /\ IF Satisfied(composed)
           THEN installed' = composed /\ basis' = Basis(served) /\ reloaded' = FALSE
           ELSE UNCHANGED <<installed, basis, reloaded>>
  /\ UNCHANGED <<files, setting, pc, memory, edits>>

\* refresh_now up to apply_ceiling: compose, then validate, install and record.
\* A fold the gates refuse changes nothing, nor does an env file that cannot be
\* used, nor a poll that is told "not modified" and whose fold is the one recorded.
Refresh ==
  /\ pc = "up" /\ HasSource /\ served \in Documents
  /\ LET composed == Ladder(served, Subordinate(memory, TRUE))
     IN /\ Subordinate(memory, TRUE) # Unusable
        /\ IF Satisfied(composed)
           THEN /\ installed' = composed /\ record' = composed
                /\ basis' = Basis(served) /\ reloaded' = FALSE
           ELSE UNCHANGED <<installed, record, basis, reloaded>>
  /\ UNCHANGED <<files, setting, pc, memory, edits>>

Exit ==
  /\ pc # "off"
  /\ pc' = "off" /\ memory' = Absent /\ record' = Absent /\ installed' = Absent
  /\ basis' = NoBasis /\ reloaded' = FALSE
  /\ UNCHANGED <<files, setting, edits>>

\* Somebody writes or removes a local file, or the endpoint publishes, fails or
\* answers again.  Whether a process has an env tier is fixed by its environment.
Edit ==
  /\ edits < MaxEdits /\ edits' = edits + 1
  /\ \/ /\ env' \in Tier
        /\ pc = "off" \/ (env # Absent /\ env' # Absent)
        /\ UNCHANGED <<home, served>>
     \/ home' \in Tier /\ UNCHANGED <<env, served>>
     \/ served' \in Tier /\ UNCHANGED <<env, home>>
  /\ UNCHANGED <<bundled, setting, process>>

Next == CoreLoad \/ EditionLoad \/ Boot \/ LoadAgain \/ Refresh \/ Exit \/ Edit

Spec == Init /\ [][Next]_vars

-----------------------------------------------------------------------------
TypeOK ==
  /\ env \in Tier /\ home \in Tier /\ served \in Tier
  /\ bundled \in Documents \cup {Absent} /\ memory \in Documents \cup {Absent}
  /\ url \in BOOLEAN /\ mandate \in BOOLEAN /\ reloaded \in BOOLEAN
  /\ edition \in BOOLEAN /\ (bundled # Absent => edition)
  /\ pc \in {"off", "core", "loaded", "up", "refused"}
  /\ record \in Document \cup {Absent} /\ installed \in Document \cup {Absent}
  /\ basis \in [authority : Documents \cup {Absent}, beneath : Documents \cup {Absent}]
  /\ edits \in 0..MaxEdits

\* The reference a fold is held against, asked question by question: what a
\* ceiling of an authority and at most one document beneath it permits is what
\* both permit, and the remote and the channel are the highest one named.  The
\* posture of the channels is the exception: it is the one of the highest document
\* that governs channels, and one beneath it is lost (ScopedMap.compose).
Exact(c, authority, beneath) ==
  LET tiers == {authority, beneath} \ {Absent}
      named(top, below) == IF beneath = Absent \/ top # None THEN top ELSE below
  IN /\ \A s \in Scopes, x \in Items :
          Permits(c.rules[s], x) <=> \A t \in tiers : Permits(t.rules[s], x)
     /\ \A x \in Items : GatePermits(c.spawn, x) <=> \A t \in tiers : GatePermits(t.spawn, x)
     /\ GateEnabled(c.spawn) <=> \A t \in tiers : GateEnabled(t.spawn)
     /\ \A x \in Items : MapPermits(c.channels, x) <=> \A t \in tiers : MapPermits(t.channels, x)
     /\ \A member \in Items, x \in Items :
          PosturePermits(c.channels, member, x)
          <=> PosturePermits(named(authority.channels, beneath.channels), member, x)
     /\ \A n \in 0..MaxRank : RankAllows(c.sandbox, n) <=> \A t \in tiers : RankAllows(t.sandbox, n)
     /\ \A v \in Versions : MeetsMinVersion(c.min_version, v)
                            <=> \A t \in tiers : MeetsMinVersion(t.min_version, v)
     /\ c.boot.require_sandbox <=> \E t \in tiers : t.boot.require_sandbox
     /\ c.boot.allow_terminal <=> \A t \in tiers : t.boot.allow_terminal
     /\ c.boot.fail_closed <=> \E t \in tiers : t.boot.fail_closed
     /\ c.remote = named(authority.remote, beneath.remote)
     /\ c.source = named(authority.source, beneath.source)
     /\ c.verified = authority.verified

\* In every control but the posture of the channels, the ceiling in force permits
\* exactly what every document that ought to bind permits, at the start and after
\* each refresh: a refresh does not lose a local restriction, the edition's least of
\* all, and no local document loosens the central one.  The posture is the highest
\* one (compose_tier_ladder, _intersect_ceilings, compose_installed_ceiling).
InstalledIsExact ==
  pc = "up" => IF basis.authority = Absent THEN installed = Absent
               ELSE installed # Absent /\ Exact(installed, basis.authority, basis.beneath)

\* Unless a caller loaded the policy since, the fold a quiet poll compares with is
\* the one in force, also after a refresh that was refused: otherwise "nothing moved"
\* would be said of a fold that never came into force, and the restriction would not
\* be tried again (apply_ceiling).
RecordIsInstalled == pc = "up" /\ ~reloaded => record = installed

\* An unusable home file refuses no start of a host that reached its central
\* document: the last load of a start, the edition's or where there is none the
\* core's, fails for the env file only (_subordinate_ceiling).
HomeCannotRefuse ==
  [][(pc = "core" \/ (pc = "off" /\ ~edition)) /\ pc' = "refused" /\ Central(bundled) \in Documents
     => env = Unusable]_vars
=============================================================================
