----------------------------- MODULE MCShmSync -----------------------------
(* ShmSync with the sizes of a 64-bit build.                               *)
EXTENDS ShmSync
=============================================================================
