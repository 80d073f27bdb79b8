----------------------------- MODULE MCEventfd -----------------------------
(* The two-way and the one-way eventfd benchmark at the same time.  They   *)
(* share nothing: a step is a step of one of them.                         *)
EXTENDS EventfdBi, EventfdUni

MCInit == Init /\ UniInit

MCNext ==
  \/ Next /\ UNCHANGED uniVars
  \/ UniNext /\ UNCHANGED vars

(* The fairness of FairSpec and of UniSpec.                                *)
MCSpec ==
  /\ MCInit /\ [][MCNext]_<<vars, uniVars>>
  /\ WF_vars(Client) /\ WF_vars(Server)
  /\ WF_uniVars(UniServer) /\ WF_uniVars(UniClient)
=============================================================================
