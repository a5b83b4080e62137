------------------------------ MODULE MCRwLock ------------------------------
(* RwLock with three threads, each of which may read and write. *)
EXTENDS RwLock
=============================================================================
