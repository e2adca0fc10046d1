---------------------------- MODULE MCNoteQueue -----------------------------
(* NoteQueue on small instances; workers and paths are interchangeable in   *)
(* the runs that check no liveness property.                                *)
EXTENDS NoteQueue, TLC

Symmetry == Permutations(Path) \cup Permutations(Worker)
=============================================================================
