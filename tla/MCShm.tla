------------------------------- MODULE MCShm -------------------------------
(* The shared-memory and the memory-mapped file benchmark, with and        *)
(* without what an earlier run may have left.                              *)
EXTENDS Shm
=============================================================================
