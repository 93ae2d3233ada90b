------------------------------ MODULE MCGroups ------------------------------
(* Instance of Groups: one user besides a bootstrap admin, who is not      *)
(* followed, and one Discord role, which grants read-only web access.      *)
EXTENDS Groups, TLC

CONSTANTS u1, r1
Symmetry == Permutations(Reqs)

\* The histories of a dirty request are left out of the fingerprint: it
\* stays dirty until Return resets them, no guard reads them and no property
\* those of a dirty request, so states that differ only there have one future.
View ==
    <<groupVars, userRoles, pc, gid, patch, cur, meta, dirty, loginVars, fresh,
      [q \in Reqs |-> IF q \in dirty THEN EmptyRow ELSE was[q]], short \ dirty>>

Body(fields, d, w, us, rs) ==
    [fields |-> fields,
     row |-> [def |-> d, web |-> w, cmds |-> {}, users |-> us, roles |-> rs]]

MCPatches ==
    { Body({"name", "web", "roles"}, FALSE, Admin, {}, {r1}),
      Body(AllFields, TRUE, Admin, {}, {}),
      Body({}, FALSE, Unknown, {}, {}) }
=============================================================================
