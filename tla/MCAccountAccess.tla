--------------------------- MODULE MCAccountAccess ---------------------------
(* Instances of AccountAccess: u1 holds the role r1, and so belongs to the *)
(* group g1; u2 has neither.                                               *)
EXTENDS AccountAccess, TLC

CONSTANTS u1, u2, r1, g1
MCRolesOf == [u \in Users |-> IF u = u1 THEN {r1} ELSE {}]
MCGroupUsers == [g \in Groups |-> {}]
MCGroupRoles == [g \in Groups |-> {r1}]

Ask(roles, users, links) ==
    [roles |-> roles, users |-> users, shares |-> users, links |-> links]
MCRequests == {Ask({r1}, {u2}, {g1})}

MCPatches == {{"roles", "links"}}

Symmetry == Permutations(Execs)

\* The history `lost` of a dirty handler is left out of the fingerprint: it
\* stays dirty until Return resets `lost`, no guard reads `lost` and no property
\* that of a dirty handler, so states that differ only there have one future.
View ==
    <<rowVars, lastRow, groups, pc, by, id, plan, at, want, inserted, onError,
      before, dirty, [e \in Execs |-> IF e \in dirty THEN {} ELSE lost[e]]>>
=============================================================================
