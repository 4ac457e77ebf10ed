---------------------------- MODULE CheckVerdict ----------------------------
(***************************************************************************)
(* What a static route check promises to the builds that rely on it        *)
(* (orchestrator/route_checks.py), without queues, leases or workers: a    *)
(* check has a generation, a generation gets at most one verdict, the      *)
(* verdict comes from a run that was started for that very generation, and *)
(* only a forced re-run or a deletion takes it away.                       *)
(***************************************************************************)
EXTENDS Naturals

CONSTANT NoVerdict      \* static_check_passed = None, not a Boolean

VARIABLES
    present,        \* does the row exist?
    incarnation,    \* how many rows this key has had (one check_id each)
    generation,     \* the row's generation
    verdict,        \* its static_check_passed
    started         \* the <<incarnation, generation>> some run was started for

verdictVars == <<present, incarnation, generation, verdict, started>>

Init ==
    /\ present = FALSE
    /\ incarnation = 0
    /\ generation = 1
    /\ verdict = NoVerdict
    /\ started = {}

Open ==
    /\ ~present
    /\ present' = TRUE
    /\ incarnation' = incarnation + 1
    /\ generation' = 1
    /\ verdict' = NoVerdict
    /\ UNCHANGED started

Reopen ==
    /\ present
    /\ generation' = generation + 1
    /\ verdict' = NoVerdict
    /\ UNCHANGED <<present, incarnation, started>>

Start ==
    /\ present
    /\ verdict = NoVerdict
    /\ started' = started \cup {<<incarnation, generation>>}
    /\ UNCHANGED <<present, incarnation, generation, verdict>>

Decide ==
    /\ present
    /\ verdict = NoVerdict
    /\ <<incarnation, generation>> \in started
    /\ verdict' \in BOOLEAN
    /\ UNCHANGED <<present, incarnation, generation, started>>

Delete ==
    /\ present
    /\ present' = FALSE
    /\ generation' = 1
    /\ verdict' = NoVerdict
    /\ UNCHANGED <<incarnation, started>>

Next == Open \/ Reopen \/ Start \/ Decide \/ Delete

Spec == Init /\ [][Next]_verdictVars
=============================================================================
