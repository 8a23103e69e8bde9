---------------------------- MODULE MCSampleStore ----------------------------
(* Model-checking instances of SampleStore.                                  *)
EXTENDS SampleStore, TLC

\* The fixed error list, with one code of a probe.
OneError == <<"process_probe_failed">>
NoError == <<>>

WriterSymmetry == Permutations(Writers)
=============================================================================
