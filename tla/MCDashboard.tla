----------------------------- MODULE MCDashboard -----------------------------
(* Model-checking instances of Dashboard.                                     *)
EXTENDS Dashboard, TLC

NoError == <<>>

\* Processes, and what a probe may find, are only compared with each other.
DashboardSymmetry == Permutations(Writers) \cup Permutations(Checks)
=============================================================================
