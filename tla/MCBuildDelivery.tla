-------------------------- MODULE MCBuildDelivery --------------------------
(* BuildDelivery for TLC: processes and bounds come from the configuration.*)
EXTENDS BuildDelivery, TLC

Sessions == Worker \cup Api
Symmetry == Permutations(Worker) \cup Permutations(Api)
=============================================================================
