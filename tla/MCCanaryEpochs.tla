--------------------------- MODULE MCCanaryEpochs ---------------------------
(* Small instances of CanaryEpochs. *)
EXTENDS CanaryEpochs, TLC

\* Workers are interchangeable: no definition chooses among them.
WorkerSymmetry == Permutations(Workers)
============================================================================
