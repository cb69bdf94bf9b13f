-------------------------- MODULE MCExplorerWorker --------------------------
(* Small instances of ExplorerWorker. *)
EXTENDS ExplorerWorker, TLC

\* The entities of an instance are interchangeable.
EntitySymmetry == Permutations(Entities)

\* The state of the worker and its process: nothing that the UI has or is sent has an
\* effect on it.
WorkerView == <<allVars, kids, roots, fetching>>
=============================================================================
