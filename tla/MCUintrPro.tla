----------------------------- MODULE MCUintrPro -----------------------------
(* UintrPro with one server of an earlier run.                             *)
EXTENDS UintrPro
=============================================================================
