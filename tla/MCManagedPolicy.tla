-------------------------- MODULE MCManagedPolicy --------------------------
(* Model-checking instances of ManagedPolicy: the documents config.json may *)
(* hold at first, and the symmetry of the operators.                        *)
EXTENDS ManagedPolicy, TLC

Document(dashboard, terminal, enabled, theme) ==
  [dashboard |-> dashboard, terminal |-> terminal, enabled |-> enabled, theme |-> theme,
   font |-> FALSE, interactive |-> TRUE, canonical |-> FALSE]

\* No dashboard object at all.
Bare == {Document(FALSE, FALSE, "unset", FALSE)}

\* And one with a peer and no terminal, an empty terminal, a terminal in use.
Varied == Bare \cup {Document(TRUE, FALSE, "unset", TRUE), Document(TRUE, TRUE, "unset", FALSE),
                     Document(TRUE, TRUE, "on", TRUE)}

OperatorSymmetry == Permutations(Operators)
=============================================================================
