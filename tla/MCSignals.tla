----------------------------- MODULE MCSignals -----------------------------
(* Signals with the values of MCSignals.cfg.                               *)
EXTENDS Signals
=============================================================================
