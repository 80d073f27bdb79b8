------------------------------ MODULE MCKfifo ------------------------------
(* The ring at a size where one call can wrap around the end of the buffer *)
(* and the indices wrap around the range of unsigned int.                  *)
EXTENDS Kfifo
=============================================================================
