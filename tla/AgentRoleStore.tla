--------------------------- MODULE AgentRoleStore ---------------------------
(***************************************************************************)
(* What AgentRoleService promises of one role: it is initialized once and  *)
(* then changes by whole updates, one after the other, each of which sets  *)
(* the fields its writer asked for, keeps all others and has a version of  *)
(* its own.                                                                *)
(***************************************************************************)
EXTENDS Naturals

CONSTANTS Writer, Field, Sets, Absent

Default == "default"

VARIABLE role

Initial == [version |-> 1, by |-> [f \in Field |-> Default]]

Patched(old, w) ==
    [version |-> old.version + 1,
     by |-> [f \in Field |-> IF f \in Sets[w] THEN w ELSE old.by[f]]]

Init == role = Absent
Initialize == role = Absent /\ role' = Initial
Update(w) == role # Absent /\ role' = Patched(role, w)

Next == Initialize \/ \E w \in Writer : Update(w)
Spec == Init /\ [][Next]_role
=============================================================================
