---------------------------- MODULE MCUintrfdBi ----------------------------
(* The two-way user-interrupt benchmark for a small -c.                    *)
EXTENDS UintrfdBi
=============================================================================
