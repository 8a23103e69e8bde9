----------------------------- MODULE MCAuditLog -----------------------------
(* Two processes of one data home: a gateway with its writer, its event     *)
(* loop and its daily prune, and a second process with a writer.            *)
EXTENDS AuditLog, TLC

CONSTANTS gateway, server, writer, loop, sweeper, writer2

BothThreads == {writer, loop, sweeper, writer2}
BothProcOf == [t \in BothThreads |-> IF t = writer2 THEN server ELSE gateway]
=============================================================================
