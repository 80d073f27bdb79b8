----------------------------- MODULE MCSockets -----------------------------
(* Messages of one unit, of one piece, and of several pieces.              *)
EXTENDS Sockets
=============================================================================
