--------------------------- MODULE MCTimedClient ---------------------------
(* The measuring loop with a second of ten ticks.                          *)
EXTENDS TimedClient
=============================================================================
