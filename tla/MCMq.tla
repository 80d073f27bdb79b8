-------------------------------- MODULE MCMq --------------------------------
(* The message queue benchmark with what earlier runs may have left.       *)
EXTENDS Mq
=============================================================================
