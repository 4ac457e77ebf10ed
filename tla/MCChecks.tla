------------------------------ MODULE MCChecks ------------------------------
(***************************************************************************)
(* The two route checks for TLC.  They share no state, so a behaviour is   *)
(* of one of them, chosen by `part`: the dynamic checks of two builds, a   *)
(* static check that two requesters force into a second generation         *)
(* ("static"), or one whose row is deleted and created again, by one       *)
(* requester at a time ("rows").                                           *)
(***************************************************************************)
EXTENDS Checks, FiniteSets, TLC

VARIABLE part

ASSUME StaticAssumption == VerdictAssumption /\ WorkerAssumption /\ RowBoundsAssumption

MCInit == part \in {"dynamic", "static", "rows"} /\ Init /\ StaticInit

OneRow == incarnation' <= 1
OneGeneration == check'.generation = 1 /\ Cardinality({r \in Requester : request'[r] # Ready}) <= 1

MCNext ==
    \/ part = "dynamic" /\ Next /\ UNCHANGED <<part, staticVars>>
    \/ part = "static" /\ StaticNext /\ OneRow /\ UNCHANGED <<part, vars>>
    \/ part = "rows" /\ StaticNext /\ OneGeneration /\ UNCHANGED <<part, vars>>

MCSpec == MCInit /\ [][MCNext]_<<part, vars, staticVars>>

Symmetry == Permutations(Build) \cup Permutations(Worker) \cup Permutations(Requester)
=============================================================================
