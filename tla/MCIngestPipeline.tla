-------------------------- MODULE MCIngestPipeline --------------------------
(* Instances of IngestPipeline for TLC. *)
EXTENDS IngestPipeline, TLC

CONSTANTS good, bad, big, empty, p1, p2

\* No parameters make sense of the contents of bad.
MCUnparseable == (Files \cap {bad}) \X (Params \cup {NoParams})

\* good's dates are read by p1's DateFormat only.
MCUndatable == {<<good, p1>>}

NoPairs == {}

WorkerSymmetry == Permutations(Workers)
=============================================================================
