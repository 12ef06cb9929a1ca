---------------------------- MODULE MCScheduler ----------------------------
(* Instances of SchedulerWorker for TLC. *)
EXTENDS SchedulerWorker

\* Activations at uneven distances, two of them next to each other.
Activations == {2, 3, 5, 8, 9, 12}

MCNextActivation ==
  [t \in 0 .. MaxTime |->
     CHOOSE a \in Activations : a > t /\ \A b \in Activations : b > t => a <= b]
=============================================================================
