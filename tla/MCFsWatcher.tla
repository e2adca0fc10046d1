---------------------------- MODULE MCFsWatcher -----------------------------
(* FsWatcher on small instances. *)
EXTENDS FsWatcher
=============================================================================
