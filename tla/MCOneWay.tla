------------------------------ MODULE MCOneWay ------------------------------
(* The one-way user-interrupt benchmark, and the measuring loop of the     *)
(* other one-way clients, at the same time.  They share nothing: a step is *)
(* a step of one of them.  A second has ten ticks, a bench_t is below 20.  *)
EXTENDS TimedClient, UintrfdUni

(* One latency is larger than MinInit, and one start is ahead of now().    *)
MCLatencies == {-3, 0, 2, 12}

MCInit == Init /\ UniInit

MCNext ==
  \/ Next /\ UNCHANGED uniVars
  \/ UniNext /\ UNCHANGED vars

(* The fairness of FairSpec and of FairUniSpec.                            *)
MCSpec ==
  /\ MCInit /\ [][MCNext]_<<vars, uniVars>>
  /\ WF_vars(Tick) /\ WF_vars(Check) /\ WF_vars(Evaluate)
  /\ WF_vars(MoreMessages \/ \E latency \in Latencies : Benchmark(latency))
  /\ Fairness
=============================================================================
