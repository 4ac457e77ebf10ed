------------------------- MODULE MCResourceTeardown -------------------------
(* ResourceTeardown for TLC: the second service depends on the first.      *)
EXTENDS ResourceTeardown
CONSTANTS Db, Web
WebNeedsDb == [s \in Service |-> IF s = Web THEN {Db} ELSE {}]
=============================================================================
