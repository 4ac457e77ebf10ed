------------------------------- MODULE Checks -------------------------------
(***************************************************************************)
(* The two route checks.  They share no state: a static check decides on   *)
(* a commit before anything is built, a dynamic one on what is deployed.   *)
(***************************************************************************)
EXTENDS DynamicCheck, RouteCheck

\* The builds and the shared row, and the rows, messages and runs of static
\* checks, keep their types.
ChecksTypeOK == TypeOK /\ StaticTypeOK
=============================================================================
