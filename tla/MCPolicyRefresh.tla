---------------------------- MODULE MCPolicyRefresh ----------------------------
(* A gateway that polls and an operator who runs "policy fetch".             *)
EXTENDS PolicyRefresh

CONSTANTS gateway, fetcher

\* The fourth document is too tight for a profile of the host until the host's
\* own document moves.
Tight == {[doc |-> 4, local |-> 0]}
=============================================================================
