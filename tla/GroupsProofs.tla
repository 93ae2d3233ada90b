---------------------------- MODULE GroupsProofs ----------------------------
(***************************************************************************)
(* Proofs about Groups, for every set of users, roles, commands, requests  *)
(* and bodies, and any number of groups.                                   *)
(***************************************************************************)
EXTENDS Groups, TLAPS

\* What a request was given is a body, of the type of a row but for the word
\* of the web role.
LEMMA PatchType ==
  ASSUME TypeOK, NEW q \in Reqs
  PROVE  patch[q] \in Patch
<1>1. EmptyRow \in [def : BOOLEAN, web : None..Unknown, cmds : SUBSET Commands,
                    users : SUBSET Users, roles : SUBSET Roles]
    BY DEF EmptyRow, None, Unknown
<1>2. EmptyPatch \in Patch
    BY <1>1 DEF EmptyPatch, Patch
<1>3. QED
    BY <1>2, GroupsAssumption DEF TypeOK

\* A request's row, built of what it was given and what it read, has the type
\* of a row but for the word of the web role.
LEMMA PatchedType ==
  ASSUME TypeOK, NEW q \in Reqs
  PROVE  /\ Patched(q).def \in BOOLEAN
         /\ Patched(q).web \in None..Unknown
         /\ Patched(q).cmds \in SUBSET Commands
         /\ Patched(q).users \in SUBSET Users
         /\ Patched(q).roles \in SUBSET Roles
<1>1. patch[q] \in Patch
    BY PatchType
<1>2. cur[q] \in Row
    BY DEF TypeOK
<1>3. /\ patch[q].row.def \in BOOLEAN
      /\ patch[q].row.web \in None..Unknown
      /\ patch[q].row.cmds \in SUBSET Commands
      /\ patch[q].row.users \in SUBSET Users
      /\ patch[q].row.roles \in SUBSET Roles
    BY <1>1 DEF Patch
<1>4. /\ cur[q].def \in BOOLEAN
      /\ cur[q].web \in None..Unknown
      /\ cur[q].cmds \in SUBSET Commands
      /\ cur[q].users \in SUBSET Users
      /\ cur[q].roles \in SUBSET Roles
    BY <1>2 DEF Row, None, Admin, Unknown
<1>5. QED
    BY <1>3, <1>4 DEF Patched, PatchedOver, Given

\* What a request keeps of a row it reads is a row.
LEMMA UnnamedType ==
  ASSUME NEW F, NEW p, NEW row \in Row
  PROVE  Unnamed(F, p, row) \in Row
BY DEF Unnamed, Row, None, Admin

\* Rows stay rows when their members or their permissions are replaced.
LEMMA MembersType ==
  ASSUME NEW row \in Row, NEW us \in SUBSET Users, NEW rs \in SUBSET Roles
  PROVE  [row EXCEPT !.users = us, !.roles = rs] \in Row
BY DEF Row

LEMMA MetaType ==
  ASSUME NEW row \in Row, NEW m \in Row
  PROVE  [row EXCEPT !.def = m.def, !.web = m.web, !.cmds = m.cmds] \in Row
BY DEF Row

\* With the group locked, asking for the name asks for the id.
LEMMA DefaultById ==
  ASSUME DefaultIsLocked, NEW g
  PROVE  IsDefaultGroup(g) <=> g = 1
BY DEF DefaultIsLocked, IsDefaultGroup

\* A step that writes no row and no login keeps the lock.
LEMMA RowsKept ==
  ASSUME DefaultIsLocked, UNCHANGED groupVars
  PROVE  DefaultIsLocked'
BY DEF DefaultIsLocked, groupVars

LEMMA LoginsKept ==
  ASSUME LoginsInv, UNCHANGED loginVars
  PROVE  LoginsInv'
BY DEF LoginsInv, loginVars

\* Adding or removing a member stores a set of users and a set of roles.
LEMMA MemberStepSets ==
  ASSUME TypeOK, MemberStep
  PROVE  \E g \in Gids, us \in SUBSET Users, rs \in SUBSET Roles : SetMembers(g, us, rs)
<1>1. PICK g \in Gids :
        \/ \E u \in Users : AddGroupUser(g, u) \/ RemoveGroupUser(g, u)
        \/ \E r \in Roles : AddGroupRole(g, r) \/ RemoveGroupRole(g, r)
    BY DEF MemberStep
<1>2. group[g].users \in SUBSET Users /\ group[g].roles \in SUBSET Roles
    BY DEF TypeOK, Row
<1>3. ASSUME NEW u \in Users, AddGroupUser(g, u) \/ RemoveGroupUser(g, u)
      PROVE  \E us \in SUBSET Users, rs \in SUBSET Roles : SetMembers(g, us, rs)
    BY <1>2, <1>3 DEF AddGroupUser, RemoveGroupUser
<1>4. ASSUME NEW r \in Roles, AddGroupRole(g, r) \/ RemoveGroupRole(g, r)
      PROVE  \E us \in SUBSET Users, rs \in SUBSET Roles : SetMembers(g, us, rs)
    BY <1>2, <1>4 DEF AddGroupRole, RemoveGroupRole
<1>5. QED
    BY <1>1, <1>3, <1>4

\* A login that found Default holds its id.
LEMMA LoginsStep ==
  GroupsIInv /\ [Next]_vars => LoginsInv'
<1> SUFFICES ASSUME GroupsIInv, [Next]_vars
             PROVE  LoginsInv'
    OBVIOUS
<1> USE DEF GroupsIInv, LoginsInv, TypeOK, vars, loginVars, reqVars, groupVars
<1>1. ASSUME NEW q \in Reqs, NEW p \in Patches,
             CreateGroup(q, p)
      PROVE  LoginsInv'
    BY <1>1 DEF CreateGroup, Begin, Goto
<1>2. ASSUME NEW q \in Reqs, NEW g \in Gids,
             DeleteGroup(q, g)
      PROVE  LoginsInv'
    BY <1>2 DEF DeleteGroup, Begin, Goto
<1>3. ASSUME NEW q \in Reqs, NEW g \in Gids, NEW p \in Patches,
             PatchGroup(q, g, p)
      PROVE  LoginsInv'
    BY <1>3 DEF PatchGroup, Begin, Goto
<1>4. ASSUME NEW q \in Reqs, NEW g \in Gids, NEW p \in Patches,
             ImportGroup(q, g, p)
      PROVE  LoginsInv'
    BY <1>4 DEF ImportGroup, Begin, Goto
<1>5. ASSUME NEW q \in Reqs,
             InsertGroup(q)
      PROVE  LoginsInv'
    BY <1>5 DEF InsertGroup, Goto, Rest
<1>6. ASSUME NEW q \in Reqs,
             ReadMembers(q)
      PROVE  LoginsInv'
    BY <1>6 DEF ReadMembers, Goto, Rest
<1>7. ASSUME NEW q \in Reqs,
             UpdateGroupMeta(q)
      PROVE  LoginsInv'
    BY <1>7 DEF UpdateGroupMeta, Goto
<1>8. ASSUME NEW q \in Reqs,
             UpdateRow(q)
      PROVE  LoginsInv'
    BY <1>8 DEF UpdateRow, Wrote, Goto, Rest
<1>9. ASSUME NEW q \in Reqs,
             ReplaceGroupMembership(q)
      PROVE  LoginsInv'
    BY <1>9 DEF ReplaceGroupMembership, NewMembers, Wrote, Lost, Goto
<1>10. ASSUME NEW q \in Reqs,
             DeleteRow(q)
      PROVE  LoginsInv'
    BY <1>10 DEF DeleteRow, Wrote
<1>11. ASSUME NEW q \in Reqs,
             Answer(q) \/ StatementFails(q)
      PROVE  LoginsInv'
    BY <1>11 DEF Answer, StatementFails, Return
<1>12. ASSUME NEW g \in Gids, NEW us \in SUBSET Users, NEW rs \in SUBSET Roles,
             SetMembers(g, us, rs)
      PROVE  LoginsInv'
    BY <1>12 DEF SetMembers, Wrote, Lost
<1>13. ASSUME NEW u \in Users,
             EnsureUserInDefaultGroupIfNone(u)
      PROVE  LoginsInv'
    BY <1>13 DEF EnsureUserInDefaultGroupIfNone, LoginGoto
<1>14. ASSUME NEW u \in Users,
             EnsureDefaultGroup(u)
      PROVE  LoginsInv'
    BY <1>14 DEF EnsureDefaultGroup, LoginGoto, DefaultIsLocked
<1>15. ASSUME NEW u \in Users,
             syncDefaultGroupBasePerms(u)
      PROVE  LoginsInv'
    BY <1>15 DEF syncDefaultGroupBasePerms, LoginGoto, Wrote
<1>16. ASSUME NEW u \in Users,
             AddUserToDefault(u)
      PROVE  LoginsInv'
    BY <1>16 DEF AddUserToDefault, LoginGoto, Wrote
<1>17. ASSUME NEW u \in Users,
             LoginEnds(u)
      PROVE  LoginsInv'
    BY <1>17 DEF LoginEnds, LoginGoto
<1>18. ASSUME NEW u \in Users, NEW R \in SUBSET Roles,
             SetUserRoles(u, R)
      PROVE  LoginsInv'
    BY <1>18 DEF SetUserRoles
<1>19. CASE UNCHANGED vars
    BY <1>19
<1>20. QED
    BY <1>1, <1>2, <1>3, <1>4, <1>5, <1>6, <1>7, <1>8, <1>9, <1>10, <1>11, <1>12, <1>13,
       <1>14, <1>15, <1>16, <1>17, <1>18, <1>19, MemberStepSets
       DEF Next, ReqStep, LoginStep

\* What a request holds stays right: names and ids of Default never change.
LEMMA RequestsStep ==
  GroupsIInv /\ [Next]_vars => RequestsInv'
<1> SUFFICES ASSUME GroupsIInv, [Next]_vars
             PROVE  RequestsInv'
    OBVIOUS
<1> USE DEF GroupsIInv, RequestsInv, TypeOK, vars, loginVars, reqVars, groupVars
<1>1. ASSUME NEW q \in Reqs, NEW p \in Patches,
             CreateGroup(q, p)
      PROVE  RequestsInv'
    BY <1>1 DEF CreateGroup, Begin, Goto, MayBeNamed, DefaultExists, DefaultIsLocked, NormalizeWebRole
<1>2. ASSUME NEW q \in Reqs, NEW g \in Gids,
             DeleteGroup(q, g)
      PROVE  RequestsInv'
    BY <1>2, DefaultById DEF DeleteGroup, Begin, Goto
<1>3. ASSUME NEW q \in Reqs, NEW g \in Gids, NEW p \in Patches,
             PatchGroup(q, g, p)
      PROVE  RequestsInv'
    BY <1>3 DEF PatchGroup, Begin, Goto
<1>4. ASSUME NEW q \in Reqs, NEW g \in Gids, NEW p \in Patches,
             ImportGroup(q, g, p)
      PROVE  RequestsInv'
    BY <1>4 DEF ImportGroup, Begin, Goto
<1>5. ASSUME NEW q \in Reqs,
             InsertGroup(q)
      PROVE  RequestsInv'
    BY <1>5 DEF InsertGroup, Goto, Rest
<1>6. ASSUME NEW q \in Reqs,
             ReadMembers(q)
      PROVE  RequestsInv'
    BY <1>6 DEF ReadMembers, Goto, Rest
<1>7. ASSUME NEW q \in Reqs,
             UpdateGroupMeta(q)
      PROVE  RequestsInv'
    BY <1>7, DefaultById, PatchedType DEF UpdateGroupMeta, Goto, BaseRow, NormalizeWebRole
<1>8. ASSUME NEW q \in Reqs,
             UpdateRow(q)
      PROVE  RequestsInv'
    BY <1>8 DEF UpdateRow, Wrote, Goto, Rest
<1>9. ASSUME NEW q \in Reqs,
             ReplaceGroupMembership(q)
      PROVE  RequestsInv'
    BY <1>9 DEF ReplaceGroupMembership, NewMembers, Wrote, Lost, Goto
<1>10. ASSUME NEW q \in Reqs,
             DeleteRow(q)
      PROVE  RequestsInv'
    BY <1>10 DEF DeleteRow, Wrote
<1>11. ASSUME NEW q \in Reqs,
             Answer(q) \/ StatementFails(q)
      PROVE  RequestsInv'
    BY <1>11 DEF Answer, StatementFails, Return
<1>12. ASSUME NEW g \in Gids, NEW us \in SUBSET Users, NEW rs \in SUBSET Roles,
             SetMembers(g, us, rs)
      PROVE  RequestsInv'
    BY <1>12 DEF SetMembers, Wrote, Lost
<1>13. ASSUME NEW u \in Users,
             EnsureUserInDefaultGroupIfNone(u)
      PROVE  RequestsInv'
    BY <1>13 DEF EnsureUserInDefaultGroupIfNone, LoginGoto
<1>14. ASSUME NEW u \in Users,
             EnsureDefaultGroup(u)
      PROVE  RequestsInv'
    BY <1>14 DEF EnsureDefaultGroup, LoginGoto
<1>15. ASSUME NEW u \in Users,
             syncDefaultGroupBasePerms(u)
      PROVE  RequestsInv'
    BY <1>15 DEF syncDefaultGroupBasePerms, LoginGoto, Wrote
<1>16. ASSUME NEW u \in Users,
             AddUserToDefault(u)
      PROVE  RequestsInv'
    BY <1>16 DEF AddUserToDefault, LoginGoto, Wrote
<1>17. ASSUME NEW u \in Users,
             LoginEnds(u)
      PROVE  RequestsInv'
    BY <1>17 DEF LoginEnds, LoginGoto
<1>18. ASSUME NEW u \in Users, NEW R \in SUBSET Roles,
             SetUserRoles(u, R)
      PROVE  RequestsInv'
    BY <1>18 DEF SetUserRoles
<1>19. CASE UNCHANGED vars
    BY <1>19
<1>20. QED
    BY <1>1, <1>2, <1>3, <1>4, <1>5, <1>6, <1>7, <1>8, <1>9, <1>10, <1>11, <1>12, <1>13,
       <1>14, <1>15, <1>16, <1>17, <1>18, <1>19, MemberStepSets
       DEF Next, ReqStep, LoginStep

\* No write by id touches the name or the permissions of Default, and no other
\* row gets its name.
LEMMA LockStep ==
  GroupsIInv /\ [Next]_vars => DefaultIsLocked'
<1> SUFFICES ASSUME GroupsIInv, [Next]_vars
             PROVE  DefaultIsLocked'
    OBVIOUS
<1> USE DEF GroupsIInv, DefaultIsLocked, TypeOK, vars, loginVars, reqVars, groupVars
<1>1. ASSUME NEW q \in Reqs, NEW p \in Patches,
             CreateGroup(q, p)
      PROVE  DefaultIsLocked'
    BY <1>1 DEF CreateGroup, Begin, Goto
<1>2. ASSUME NEW q \in Reqs, NEW g \in Gids,
             DeleteGroup(q, g)
      PROVE  DefaultIsLocked'
    BY <1>2 DEF DeleteGroup, Begin, Goto
<1>3. ASSUME NEW q \in Reqs, NEW g \in Gids, NEW p \in Patches,
             PatchGroup(q, g, p)
      PROVE  DefaultIsLocked'
    BY <1>3 DEF PatchGroup, Begin, Goto
<1>4. ASSUME NEW q \in Reqs, NEW g \in Gids, NEW p \in Patches,
             ImportGroup(q, g, p)
      PROVE  DefaultIsLocked'
    BY <1>4 DEF ImportGroup, Begin, Goto
<1>5. ASSUME NEW q \in Reqs,
             InsertGroup(q)
      PROVE  DefaultIsLocked'
  <2>1. patch[q].row \in [def : BOOLEAN, web : None..Unknown, cmds : SUBSET Commands,
                          users : SUBSET Users, roles : SUBSET Roles]
      BY PatchType DEF Patch
  <2>2. ~[patch[q].row EXCEPT !.users = {}, !.roles = {}].def
      BY <1>5, <2>1 DEF InsertGroup, RequestsInv
  <2>3. lastGid' \in Gids /\ lastGid' \notin 1..lastGid /\ 1 \in 1..lastGid
      BY <1>5, GroupsAssumption DEF InsertGroup, Gids
  <2>4. ~group'[lastGid'].def /\ \A g \in 1..lastGid : group'[g] = group[g]
      BY <1>5, <2>2, <2>3, GroupsAssumption DEF InsertGroup, Gids
  <2>5. live' = live \cup {lastGid'} /\ live \subseteq 1..lastGid
      BY <1>5 DEF InsertGroup
  <2>6. QED
      BY <2>3, <2>4, <2>5
<1>6. ASSUME NEW q \in Reqs,
             ReadMembers(q)
      PROVE  DefaultIsLocked'
    BY <1>6 DEF ReadMembers, Goto, Rest
<1>7. ASSUME NEW q \in Reqs,
             UpdateGroupMeta(q)
      PROVE  DefaultIsLocked'
    BY <1>7 DEF UpdateGroupMeta, Goto
<1>8. ASSUME NEW q \in Reqs,
             UpdateRow(q)
      PROVE  DefaultIsLocked'
    BY <1>8 DEF UpdateRow, Wrote, Goto, Rest, RequestsInv
<1>9. ASSUME NEW q \in Reqs,
             ReplaceGroupMembership(q)
      PROVE  DefaultIsLocked'
    BY <1>9 DEF ReplaceGroupMembership, NewMembers, Wrote, Lost, Goto
<1>10. ASSUME NEW q \in Reqs,
             DeleteRow(q)
      PROVE  DefaultIsLocked'
    BY <1>10 DEF DeleteRow, Wrote, RequestsInv
<1>11. ASSUME NEW q \in Reqs,
             Answer(q) \/ StatementFails(q)
      PROVE  DefaultIsLocked'
    BY <1>11 DEF Answer, StatementFails, Return
<1>12. ASSUME NEW g \in Gids, NEW us \in SUBSET Users, NEW rs \in SUBSET Roles,
             SetMembers(g, us, rs)
      PROVE  DefaultIsLocked'
  <2>1. \A h \in Gids : /\ group'[h].def = group[h].def
                         /\ group'[h].web = group[h].web
                         /\ group'[h].cmds = group[h].cmds
      BY <1>12 DEF SetMembers, Row
  <2>2. QED
      BY <1>12, <2>1, GroupsAssumption DEF SetMembers, Gids
<1>13. ASSUME NEW u \in Users,
             EnsureUserInDefaultGroupIfNone(u)
      PROVE  DefaultIsLocked'
    BY <1>13 DEF EnsureUserInDefaultGroupIfNone, LoginGoto
<1>14. ASSUME NEW u \in Users,
             EnsureDefaultGroup(u)
      PROVE  DefaultIsLocked'
    BY <1>14 DEF EnsureDefaultGroup, LoginGoto
<1>15. ASSUME NEW u \in Users,
             syncDefaultGroupBasePerms(u)
      PROVE  DefaultIsLocked'
    BY <1>15 DEF syncDefaultGroupBasePerms, LoginGoto, Wrote, LoginsInv, BaseRow
<1>16. ASSUME NEW u \in Users,
             AddUserToDefault(u)
      PROVE  DefaultIsLocked'
    BY <1>16 DEF AddUserToDefault, LoginGoto, Wrote, LoginsInv
<1>17. ASSUME NEW u \in Users,
             LoginEnds(u)
      PROVE  DefaultIsLocked'
    BY <1>17 DEF LoginEnds, LoginGoto
<1>18. ASSUME NEW u \in Users, NEW R \in SUBSET Roles,
             SetUserRoles(u, R)
      PROVE  DefaultIsLocked'
    BY <1>18 DEF SetUserRoles
<1>19. CASE UNCHANGED vars
    BY <1>19
<1>20. QED
    BY <1>1, <1>2, <1>3, <1>4, <1>5, <1>6, <1>7, <1>8, <1>9, <1>10, <1>11, <1>12, <1>13,
       <1>14, <1>15, <1>16, <1>17, <1>18, <1>19, MemberStepSets
       DEF Next, ReqStep, LoginStep

\* Every step keeps the types.
LEMMA TypeStep ==
  GroupsIInv /\ [Next]_vars => TypeOK'
<1> SUFFICES ASSUME GroupsIInv, [Next]_vars
             PROVE  TypeOK'
    OBVIOUS
<1> USE GroupsAssumption DEF GroupsIInv, TypeOK, vars, loginVars, reqVars, groupVars, Gids
<1>1. ASSUME NEW q \in Reqs, NEW p \in Patches,
             CreateGroup(q, p)
      PROVE  TypeOK'
    BY <1>1 DEF CreateGroup, Begin, Goto
<1>2. ASSUME NEW q \in Reqs, NEW g \in Gids,
             DeleteGroup(q, g)
      PROVE  TypeOK'
    BY <1>2 DEF DeleteGroup, Begin, Goto
<1>3. ASSUME NEW q \in Reqs, NEW g \in Gids, NEW p \in Patches,
             PatchGroup(q, g, p)
      PROVE  TypeOK'
  <2>1. Unnamed(MetaFields, p, group[g]) \in Row /\ Unnamed(AllFields, p, group[g]) \in Row
      BY UnnamedType
  <2>2. QED
      BY <1>3, <2>1 DEF PatchGroup, Begin, Goto
<1>4. ASSUME NEW q \in Reqs, NEW g \in Gids, NEW p \in Patches,
             ImportGroup(q, g, p)
      PROVE  TypeOK'
    BY <1>4 DEF ImportGroup, Begin, Goto
<1>5. ASSUME NEW q \in Reqs,
             InsertGroup(q)
      PROVE  TypeOK'
  <2> DEFINE new == [patch[q].row EXCEPT !.users = {}, !.roles = {}]
  <2>1. patch[q].row \in [def : BOOLEAN, web : None..Unknown, cmds : SUBSET Commands,
                          users : SUBSET Users, roles : SUBSET Roles]
      BY PatchType DEF Patch
  <2>2. patch[q].row.web \in None..Admin
      BY <1>5 DEF InsertGroup, RequestsInv
  <2>3. new \in Row
      BY <2>1, <2>2 DEF Row
  <2>4. lastGid' \in 1..MaxGroups /\ lastGid' > lastGid
      BY <1>5 DEF InsertGroup
  <2>5. group' \in [1..MaxGroups -> Row] /\ group'[lastGid'] \in Row
      BY <1>5, <2>3, <2>4 DEF InsertGroup
  <2>6. /\ Unnamed(MetaFields, patch[q], group'[lastGid']) \in Row
        /\ Unnamed(AllFields, patch[q], group'[lastGid']) \in Row
      BY <2>5, UnnamedType
  <2>7. QED
      BY <1>5, <2>4, <2>5, <2>6 DEF InsertGroup, Goto, Rest
<1>6. ASSUME NEW q \in Reqs,
             ReadMembers(q)
      PROVE  TypeOK'
  <2> DEFINE row == Unnamed(MemberFields, patch[q], group[gid[q]])
  <2>1. gid[q] \in 1..MaxGroups
      BY <1>6 DEF ReadMembers, RequestsInv
  <2>2. row \in Row
      BY <2>1, UnnamedType
  <2>3. PICK us \in SUBSET row.users, rs \in SUBSET row.roles :
            /\ cur' = [cur EXCEPT ![q] = [@ EXCEPT !.users = us, !.roles = rs]]
            /\ short' = IF us = row.users /\ rs = row.roles THEN short ELSE short \cup {q}
      BY <1>6 DEF ReadMembers
  <2>4. cur' \in [Reqs -> Row]
    <3>1. us \in SUBSET Users /\ rs \in SUBSET Roles
        BY <2>2 DEF Row
    <3>2. QED
        BY <2>3, <3>1, MembersType
  <2>5. short' \subseteq Reqs
      BY <2>3
  <2>6. QED
      BY <1>6, <2>4, <2>5 DEF ReadMembers, Goto, Rest
<1>7. ASSUME NEW q \in Reqs,
             UpdateGroupMeta(q)
      PROVE  TypeOK'
  <2>1. BaseRow({}, {}) \in Row
      BY DEF BaseRow, Row, None, Admin
  <2>2. ASSUME Patched(q).web \in None..Admin
        PROVE  [Patched(q) EXCEPT !.users = {}, !.roles = {}] \in Row
      BY <2>2, PatchedType DEF Row, Patched, PatchedOver
  <2>3. meta' \in [Reqs -> Row]
      BY <1>7, <2>1, <2>2 DEF UpdateGroupMeta, NormalizeWebRole
  <2>4. QED
      BY <1>7, <2>3 DEF UpdateGroupMeta, Goto
<1>8. ASSUME NEW q \in Reqs,
             UpdateRow(q)
      PROVE  TypeOK'
  <2>1. EmptyRow \in Row
      BY DEF EmptyRow, Row, None, Admin
  <2>2. group' \in [Gids -> Row]
      BY <1>8, MetaType DEF UpdateRow
  <2>3. meta' \in [Reqs -> Row]
      BY <1>8, <2>1 DEF UpdateRow
  <2>4. QED
      BY <1>8, <2>2, <2>3 DEF UpdateRow, Wrote, Goto, Rest
<1>9. ASSUME NEW q \in Reqs,
             ReplaceGroupMembership(q)
      PROVE  TypeOK'
  <2>1. Patched(q).users \in SUBSET Users /\ Patched(q).roles \in SUBSET Roles
      BY PatchedType
  <2>2. group' \in [Gids -> Row]
      BY <1>9, <2>1, MembersType DEF ReplaceGroupMembership, NewMembers
  <2>3. fresh' \subseteq Users
      BY <1>9 DEF ReplaceGroupMembership, Lost
  <2>4. QED
      BY <1>9, <2>2, <2>3 DEF ReplaceGroupMembership, Wrote, Goto
<1>10. ASSUME NEW q \in Reqs,
             DeleteRow(q)
      PROVE  TypeOK'
  <2>1. EmptyRow \in Row
      BY DEF EmptyRow, Row, None, Admin
  <2>2. group' \in [Gids -> Row] /\ gid' \in [Reqs -> 0..lastGid]
      BY <1>10, <2>1 DEF DeleteRow
  <2>3. QED
      BY <1>10, <2>1, <2>2 DEF DeleteRow, Wrote
<1>11. ASSUME NEW q \in Reqs,
             Answer(q) \/ StatementFails(q)
      PROVE  TypeOK'
  <2>1. EmptyRow \in Row
      BY DEF EmptyRow, Row, None, Admin
  <2>2. Return(q) /\ UNCHANGED <<groupVars, userRoles, loginVars, fresh>>
      BY <1>11 DEF Answer, StatementFails
  <2>3. cur' \in [Reqs -> Row] /\ meta' \in [Reqs -> Row] /\ was' \in [Reqs -> Row]
      BY <2>1, <2>2 DEF Return
  <2>4. pc' \in [Reqs -> {"idle", "insert", "read", "check", "update", "members",
                          "delete", "done"}]
      BY <2>2 DEF Return
  <2>5. patch' \in [Reqs -> Patches \cup {EmptyPatch}] /\ gid' \in [Reqs -> 0..lastGid]
      BY <2>2 DEF Return
  <2>6. QED
      BY <2>2, <2>3, <2>4, <2>5 DEF Return
<1>12. ASSUME NEW g \in Gids, NEW us \in SUBSET Users, NEW rs \in SUBSET Roles,
             SetMembers(g, us, rs)
      PROVE  TypeOK'
  <2>1. group' \in [Gids -> Row]
      BY <1>12, MembersType DEF SetMembers
  <2>2. fresh' \subseteq Users
      BY <1>12 DEF SetMembers, Lost
  <2>3. QED
      BY <1>12, <2>1, <2>2 DEF SetMembers, Wrote
<1>13. ASSUME NEW u \in Users,
             EnsureUserInDefaultGroupIfNone(u)
      PROVE  TypeOK'
    BY <1>13 DEF EnsureUserInDefaultGroupIfNone, LoginGoto
<1>14. ASSUME NEW u \in Users,
             EnsureDefaultGroup(u)
      PROVE  TypeOK'
    BY <1>14 DEF EnsureDefaultGroup, LoginGoto, DefaultIsLocked
<1>15. ASSUME NEW u \in Users,
             syncDefaultGroupBasePerms(u)
      PROVE  TypeOK'
  <2>1. lgid[u] = 1 /\ group[1] \in Row
      BY <1>15 DEF syncDefaultGroupBasePerms, LoginsInv
  <2>2. BaseRow(group[1].users, group[1].roles) \in Row
      BY <2>1 DEF BaseRow, Row, None, Admin
  <2>3. group' \in [Gids -> Row]
      BY <1>15, <2>1, <2>2 DEF syncDefaultGroupBasePerms
  <2>4. QED
      BY <1>15, <2>3 DEF syncDefaultGroupBasePerms, LoginGoto, Wrote
<1>16. ASSUME NEW u \in Users,
             AddUserToDefault(u)
      PROVE  TypeOK'
  <2> DEFINE row == group[lgid[u]]
  <2>1. lgid[u] = 1 /\ row \in Row
      BY <1>16 DEF AddUserToDefault, LoginsInv
  <2>2. [row EXCEPT !.users = @ \cup {u}] \in Row
      BY <2>1 DEF Row
  <2>3. group' = [group EXCEPT ![lgid[u]] = [row EXCEPT !.users = @ \cup {u}]]
      BY <1>16 DEF AddUserToDefault
  <2>4. group' \in [Gids -> Row]
      BY <2>1, <2>2, <2>3
  <2>5. QED
      BY <1>16, <2>4 DEF AddUserToDefault, LoginGoto, Wrote
<1>17. ASSUME NEW u \in Users,
             LoginEnds(u)
      PROVE  TypeOK'
    BY <1>17 DEF LoginEnds, LoginGoto
<1>18. ASSUME NEW u \in Users, NEW R \in SUBSET Roles,
             SetUserRoles(u, R)
      PROVE  TypeOK'
    BY <1>18 DEF SetUserRoles
<1>19. CASE UNCHANGED vars
    BY <1>19
<1>20. QED
    BY <1>1, <1>2, <1>3, <1>4, <1>5, <1>6, <1>7, <1>8, <1>9, <1>10, <1>11, <1>12, <1>13,
       <1>14, <1>15, <1>16, <1>17, <1>18, <1>19, MemberStepSets
       DEF Next, ReqStep, LoginStep

\* The inductive invariant.
LEMMA Inductive == Spec => []GroupsIInv
<1>1. Init => GroupsIInv
    BY GroupsAssumption DEF Init, GroupsIInv, TypeOK, DefaultIsLocked, RequestsInv, LoginsInv,
       BaseRow, EmptyRow, Row, Gids, None, Admin
<1>2. GroupsIInv /\ [Next]_vars => GroupsIInv'
    BY TypeStep, LockStep, RequestsStep, LoginsStep DEF GroupsIInv
<1>3. QED
    BY <1>1, <1>2, PTL DEF Spec

\* The rows, the requests and the logins under way keep their types; in
\* particular no other word is ever stored as a web role.
THEOREM TypeCorrect == Spec => []TypeOK
<1>1. GroupsIInv => TypeOK
    BY DEF GroupsIInv
<1>2. QED
    BY <1>1, Inductive, PTL

\* Whatever requests, imports and logins do between their checks and their
\* writes, there is exactly one Default group and it has the base permissions
\* (README.md:197, store.go:701-717).
THEOREM DefaultLocked == Spec => []DefaultIsLocked
<1>1. GroupsIInv => DefaultIsLocked
    BY DEF GroupsIInv
<1>2. QED
    BY <1>1, Inductive, PTL

\* A login may only add its user to Default, so that everybody keeps the web
\* role of the other groups.
LEMMA LoginKeepsLevels ==
  ASSUME GroupsIInv, NEW u \in Users, LoginStep(u), NEW v \in Users
  PROVE  GroupLevel(v)' = GroupLevel(v) /\ userRoles' = userRoles
<1> USE DEF GroupsIInv
<1>1. CASE UNCHANGED <<groupVars, userRoles>>
    BY <1>1 DEF groupVars, GroupLevel, GroupsOf
<1>2. ASSUME /\ live' = live /\ userRoles' = userRoles
             /\ \A g \in live : /\ group'[g].web = group[g].web
                                /\ group'[g].roles = group[g].roles
                                /\ g # 1 => group'[g].users = group[g].users
      PROVE  GroupLevel(v)' = GroupLevel(v)
  <2>1. group[1].web = None /\ group'[1].web = None
      BY <1>2 DEF DefaultIsLocked
  <2>2. \A w \in {Readonly, Admin} :
            (\E g \in GroupsOf(v)' : group'[g].web = w) <=> (\E g \in GroupsOf(v) : group[g].web = w)
      BY <1>2, <2>1 DEF GroupsOf, None, Readonly, Admin
  <2>3. QED
      BY <2>2 DEF GroupLevel
<1>3. CASE syncDefaultGroupBasePerms(u)
  <2>1. lgid[u] = 1 /\ group[1] \in Row /\ 1 \in live
      BY <1>3, GroupsAssumption
         DEF syncDefaultGroupBasePerms, LoginsInv, TypeOK, DefaultIsLocked, Gids
  <2>2. group' = [group EXCEPT ![1] = BaseRow(group[1].users, group[1].roles)]
      BY <1>3, <2>1 DEF syncDefaultGroupBasePerms
  <2>3. \A g \in live : /\ group'[g].web = group[g].web
                        /\ group'[g].roles = group[g].roles
                        /\ group'[g].users = group[g].users
      BY <2>1, <2>2 DEF BaseRow, TypeOK, Gids, DefaultIsLocked
  <2>4. QED
      BY <1>2, <1>3, <2>3 DEF syncDefaultGroupBasePerms
<1>4. CASE AddUserToDefault(u)
  <2>1. lgid[u] = 1 /\ group[1] \in Row
      BY <1>4, GroupsAssumption DEF AddUserToDefault, LoginsInv, TypeOK, Gids
  <2>2. \A g \in live : /\ group'[g].web = group[g].web
                        /\ group'[g].roles = group[g].roles
                        /\ g # 1 => group'[g].users = group[g].users
      BY <1>4, <2>1 DEF AddUserToDefault, TypeOK, Gids, Row
  <2>3. QED
      BY <1>2, <1>4, <2>2 DEF AddUserToDefault
<1>5. QED
    BY <1>1, <1>3, <1>4
       DEF LoginStep, EnsureUserInDefaultGroupIfNone, EnsureDefaultGroup, LoginEnds

\* Running a command or logging in raises nobody's web access (oauth.go:88,
\* bot.go:326).
THEOREM LoginsGrantNothing == Spec => LoginsGrantNoWebAccess
<1>1. ASSUME GroupsIInv, NEW u \in Users, LoginStep(u), NEW v \in Users
      PROVE  webAccessLevel(v)' <= webAccessLevel(v)
  <2>1. GroupLevel(v)' = GroupLevel(v) /\ userRoles' = userRoles
      BY <1>1, LoginKeepsLevels
  <2>2. webAccessLevel(v)' = webAccessLevel(v)
      BY <2>1 DEF webAccessLevel
  <2>3. webAccessLevel(v) \in Nat
      BY DEF webAccessLevel, GroupLevel, None, Readonly, Admin
  <2>4. QED
      BY <2>2, <2>3
<1>2. GroupsIInv => [(\E u \in Users : LoginStep(u))
        => \A v \in Users : webAccessLevel(v)' <= webAccessLevel(v)]_vars
    BY <1>1
<1>3. QED
    BY <1>2, Inductive, PTL DEF LoginsGrantNoWebAccess

-----------------------------------------------------------------------------
(* Users whom a login puts into Default.                                   *)

\* Whoever takes a user out of Default says so.
LEMMA FreshStep ==
  ASSUME GroupsIInv, FreshInv, [Next]_vars
  PROVE  FreshInv'
<1> USE DEF GroupsIInv, FreshInv
<1>0. /\ 1 \in Gids /\ group[1] \in Row /\ group[1].users \in SUBSET Users
      /\ fresh \in SUBSET Users /\ group \in [Gids -> Row]
    BY GroupsAssumption DEF TypeOK, Gids, Row
<1>1. ASSUME UNCHANGED <<group, fresh>> PROVE FreshInv'
    BY <1>1
<1>2. ASSUME NEW q \in Reqs, InsertGroup(q) PROVE FreshInv'
  <2>1. lastGid' # 1
      BY <1>2 DEF InsertGroup, TypeOK, Gids
  <2>2. QED
      BY <1>0, <1>2, <2>1 DEF InsertGroup
<1>3. ASSUME NEW q \in Reqs, UpdateRow(q) PROVE FreshInv'
    BY <1>0, <1>3 DEF UpdateRow, Row
<1>4. ASSUME NEW q \in Reqs, ReplaceGroupMembership(q) PROVE FreshInv'
  <2>1. CASE gid[q] = 1
    <3>1. group'[1].users = NewMembers(q).users /\ fresh' = fresh \ (Users \ NewMembers(q).users)
        BY <1>0, <1>4, <2>1 DEF ReplaceGroupMembership, Lost, Row
    <3>2. QED
        BY <1>0, <3>1
  <2>2. CASE gid[q] # 1
      BY <1>0, <1>4, <2>2 DEF ReplaceGroupMembership
  <2>3. QED
      BY <2>1, <2>2
<1>5. ASSUME NEW q \in Reqs, DeleteRow(q) PROVE FreshInv'
    BY <1>0, <1>5 DEF DeleteRow, RequestsInv
<1>6. ASSUME NEW q \in Reqs, ReqStep(q) PROVE FreshInv'
  <2>1. CASE \/ \E p \in Patches : CreateGroup(q, p)
             \/ \E g \in Gids : DeleteGroup(q, g)
             \/ \E g \in Gids, p \in Patches : PatchGroup(q, g, p) \/ ImportGroup(q, g, p)
             \/ ReadMembers(q) \/ UpdateGroupMeta(q) \/ Answer(q) \/ StatementFails(q)
    <3>1. UNCHANGED <<group, fresh>>
        BY <2>1 DEF CreateGroup, DeleteGroup, PatchGroup, ImportGroup, Begin, ReadMembers,
           UpdateGroupMeta, Answer, StatementFails, groupVars
    <3>2. QED
        BY <1>1, <3>1
  <2>2. QED
      BY <1>2, <1>3, <1>4, <1>5, <1>6, <2>1 DEF ReqStep
<1>7. ASSUME NEW g \in Gids, NEW us \in SUBSET Users, NEW rs \in SUBSET Roles,
             SetMembers(g, us, rs)
      PROVE  FreshInv'
  <2>1. CASE g = 1
      BY <1>0, <1>7, <2>1 DEF SetMembers, Lost, Row
  <2>2. CASE g # 1
      BY <1>0, <1>7, <2>2 DEF SetMembers
  <2>3. QED
      BY <2>1, <2>2
<1>8. ASSUME NEW u \in Users, LoginStep(u) PROVE FreshInv'
  <2>1. CASE EnsureUserInDefaultGroupIfNone(u) \/ EnsureDefaultGroup(u)
      BY <1>1, <2>1 DEF EnsureUserInDefaultGroupIfNone, EnsureDefaultGroup, groupVars
  <2>2. CASE syncDefaultGroupBasePerms(u)
      BY <1>0, <2>2 DEF syncDefaultGroupBasePerms, LoginsInv, BaseRow
  <2>3. CASE AddUserToDefault(u)
    <3>1. lgid[u] = 1
        BY <2>3 DEF AddUserToDefault, LoginsInv
    <3>2. group'[1].users = group[1].users \cup {u} /\ fresh' = fresh \cup {u}
        BY <1>0, <2>3, <3>1 DEF AddUserToDefault, Row
    <3>3. QED
        BY <3>2
  <2>4. CASE LoginEnds(u)
      BY <2>4 DEF LoginEnds, groupVars
  <2>5. QED
      BY <1>8, <2>1, <2>2, <2>3, <2>4 DEF LoginStep
<1>9. CASE (\E u \in Users, R \in SUBSET Roles : SetUserRoles(u, R)) \/ UNCHANGED vars
    BY <1>1, <1>9 DEF SetUserRoles, vars, groupVars
<1>10. QED
    BY <1>6, <1>7, <1>8, <1>9, MemberStepSets DEF Next

\* Being put into Default is enough for every slash command: the group exists,
\* is still Default and still has them all (bot.go:326-347).
THEOREM AssignedMayRun == Spec => []AssignedMayRunCommands
<1>1. Init => FreshInv
    BY DEF Init, FreshInv
<1>2. GroupsIInv /\ FreshInv /\ [Next]_vars => FreshInv'
    BY FreshStep
<1>3. GroupsIInv /\ FreshInv => AssignedMayRunCommands
    BY DEF GroupsIInv, FreshInv, DefaultIsLocked, AssignedMayRunCommands,
       UserCanUseDiscordCommand, GroupsOf
<1>4. QED
    BY <1>1, <1>2, <1>3, Inductive, PTL DEF Spec

-----------------------------------------------------------------------------
(* Requests that nobody interfered with.                                   *)

\* The step leaves request r where it was.
SameReq(r) ==
    /\ pc'[r] = pc[r] /\ gid'[r] = gid[r] /\ patch'[r] = patch[r]
    /\ cur'[r] = cur[r] /\ meta'[r] = meta[r]
    /\ was'[r] = was[r] /\ (r \in short' <=> r \in short)

\* Two rows that differ in the group g at most.
OnlyWrites(g) == \A h \in 1..lastGid : h # g => group'[h] = group[h]

\* A request that takes no part in a step stays where it was, with its row as it
\* was, or is dirty afterwards.
LEMMA ProgressKept ==
  ASSUME TypeOK, NEW r \in Reqs, ProgressInv(r), SameReq(r), NEW g, OnlyWrites(g),
         r \notin dirty' => r \notin dirty /\ (pc[r] = "idle" \/ gid[r] # g)
  PROVE  ProgressInv(r)'
<1>1. CASE pc[r] \in {"idle", "insert", "delete"}
    BY <1>1 DEF ProgressInv, SameReq
<1>2. CASE pc[r] \in {"read", "check", "update", "members", "done"}
  <2>1. gid[r] # 0 /\ gid'[r] # 0
      BY <1>2 DEF ProgressInv, SameReq
  <2>a. MetaRead(r)' <=> MetaRead(r)
      BY DEF MetaRead, SameReq
  <2>2. SUFFICES ASSUME r \notin dirty' PROVE ProgressInv(r)'
      BY <2>1, <2>a DEF ProgressInv, SameReq
  <2>3. gid[r] \in 1..lastGid /\ gid[r] # g
      BY <1>2, <2>1, <2>2 DEF TypeOK, Gids
  <2>4. group'[gid'[r]] = group[gid[r]]
      BY <2>3 DEF OnlyWrites, SameReq
  <2>5. Asked(r)' = Asked(r)
      BY DEF Asked, PatchedOver, Given, SameReq
  <2>6. /\ MembersRead(r)' <=> MembersRead(r)
        /\ MetaKept(r)' <=> MetaKept(r)
        /\ MembersKept(r)' <=> MembersKept(r)
      BY <2>4 DEF MetaKept, MembersKept, MembersRead, SameReq
  <2>7. /\ SameMeta(group[gid[r]], r)' <=> SameMeta(group[gid[r]], r)
        /\ SameMembers(group[gid[r]], r)' <=> SameMembers(group[gid[r]], r)
        /\ SameMeta(meta[r], r)' <=> SameMeta(meta[r], r)
      BY <2>4, <2>5 DEF SameMeta, SameMembers, WroteShort, SameReq
  <2>8. QED
      BY <2>1, <2>a, <2>2, <2>6, <2>7 DEF ProgressInv, SameReq
<1>3. QED
    BY <1>1, <1>2 DEF TypeOK

\* The members of a group are written by somebody without a request.
LEMMA ProgressAll ==
  ASSUME TypeOK, PatchIInv, UNCHANGED reqVars, NEW g, OnlyWrites(g),
         dirty' = dirty \/ Wrote(g, {}), g \in 1..lastGid => Wrote(g, {})
  PROVE  PatchIInv'
<1> SUFFICES ASSUME NEW r \in Reqs PROVE ProgressInv(r)'
    BY DEF PatchIInv
<1>1. ProgressInv(r) /\ SameReq(r)
    BY DEF PatchIInv, SameReq, reqVars
<1>2. CASE g \in 1..lastGid
  <2>1. r \notin dirty' => r \notin dirty /\ (pc[r] = "idle" \/ gid[r] # g)
      BY <1>2 DEF Wrote
  <2>2. QED
      BY <1>1, <2>1, ProgressKept
<1>3. CASE g \notin 1..lastGid
  <2>1. OnlyWrites(lastGid + 1)
      BY <1>3 DEF OnlyWrites, TypeOK, Gids
  <2>2. r \notin dirty' => r \notin dirty /\ gid[r] # lastGid + 1
      BY DEF Wrote, TypeOK, Gids
  <2>3. QED
      BY <1>1, <2>1, <2>2, ProgressKept
<1>4. QED
    BY <1>2, <1>3

\* The other requests when request q takes a step: q writes group g, or nothing.
LEMMA ProgressOthers ==
  ASSUME TypeOK, PatchIInv, NEW q \in Reqs, NEW g, OnlyWrites(g),
         \A r \in Reqs \ {q} : SameReq(r),
         \/ Wrote(g, {q})
         \/ dirty' \in {dirty, dirty \ {q}} /\ g \notin 1..lastGid,
         ProgressInv(q)'
  PROVE  PatchIInv'
<1> SUFFICES ASSUME NEW r \in Reqs \ {q} PROVE ProgressInv(r)'
    BY DEF PatchIInv
<1>1. ProgressInv(r) /\ SameReq(r)
    BY DEF PatchIInv
<1>2. CASE Wrote(g, {q})
  <2>1. r \notin dirty' => r \notin dirty /\ (pc[r] = "idle" \/ gid[r] # g)
      BY <1>2 DEF Wrote
  <2>2. QED
      BY <1>1, <2>1, ProgressKept
<1>3. CASE dirty' \in {dirty, dirty \ {q}} /\ g \notin 1..lastGid
  <2>1. OnlyWrites(lastGid + 1)
      BY <1>3 DEF OnlyWrites, TypeOK, Gids
  <2>2. r \notin dirty' => r \notin dirty /\ gid[r] # lastGid + 1
      BY <1>3 DEF TypeOK, Gids
  <2>3. QED
      BY <1>1, <2>1, <2>2, ProgressKept
<1>4. QED
    BY <1>2, <1>3

\* What a request keeps of the permissions, or the members, of a row.
LEMMA UnnamedReads ==
  ASSUME NEW p, NEW row \in Row
  PROVE  /\ "name" \notin p.fields => Unnamed(MetaFields, p, row).def = row.def
         /\ "web" \notin p.fields => Unnamed(MetaFields, p, row).web = row.web
         /\ "cmds" \notin p.fields => Unnamed(MetaFields, p, row).cmds = row.cmds
         /\ Unnamed(MetaFields, p, row).users = {} /\ Unnamed(MetaFields, p, row).roles = {}
         /\ "users" \notin p.fields => Unnamed(MemberFields, p, row).users = row.users
         /\ "roles" \notin p.fields => Unnamed(MemberFields, p, row).roles = row.roles
         /\ "name" \notin p.fields => Unnamed(AllFields, p, row).def = row.def
         /\ "web" \notin p.fields => Unnamed(AllFields, p, row).web = row.web
         /\ "cmds" \notin p.fields => Unnamed(AllFields, p, row).cmds = row.cmds
         /\ "users" \notin p.fields => Unnamed(AllFields, p, row).users = row.users
         /\ "roles" \notin p.fields => Unnamed(AllFields, p, row).roles = row.roles
<1>1. row.def \in BOOLEAN
    BY DEF Row
<1>2. "name" \notin p.fields => Unnamed(MetaFields, p, row).def = row.def
    BY <1>1, Zenon DEF Unnamed, MetaFields
<1>3. "name" \notin p.fields => Unnamed(AllFields, p, row).def = row.def
    BY <1>1, Zenon DEF Unnamed, MetaFields, AllFields
<1>4. QED
    BY <1>2, <1>3 DEF Unnamed, MetaFields, MemberFields, AllFields

\* A request begins: what it was not given it has just read, or it was given all.
LEMMA BeginKeeps ==
  ASSUME GroupsIInv, PatchIInv, NEW q \in Reqs, NEW g \in Gids, NEW p,
         \/ CreateGroup(q, p) \/ DeleteGroup(q, g)
         \/ PatchGroup(q, g, p) \/ ImportGroup(q, g, p)
  PROVE  PatchIInv'
<1> USE DEF GroupsIInv
<1>1. /\ \A r \in Reqs \ {q} : SameReq(r)
      /\ OnlyWrites(0) /\ dirty' = dirty \ {q} /\ 0 \notin 1..lastGid
      /\ group' = group
    BY DEF CreateGroup, DeleteGroup, PatchGroup, ImportGroup, Begin, Goto, SameReq, OnlyWrites,
       TypeOK, groupVars
<1>2. ProgressInv(q)'
  <2>1. CASE CreateGroup(q, p) \/ DeleteGroup(q, g)
    <3>1. pc'[q] \in {"insert", "delete"}
        BY <2>1 DEF CreateGroup, DeleteGroup, Begin, Goto, TypeOK
    <3>2. QED
        BY <3>1 DEF ProgressInv
  <2>2. CASE PatchGroup(q, g, p)
    <3> DEFINE c == Unnamed(MetaFields, p, group[g])
               w == Unnamed(AllFields, p, group[g])
    <3>1. /\ pc'[q] = "read" /\ gid'[q] = g /\ patch'[q] = p
          /\ cur'[q] = c /\ was'[q] = w
        BY <2>2 DEF PatchGroup, Begin, Goto, TypeOK
    <3>2. g # 0 /\ group[g] \in Row
        BY GroupsAssumption DEF TypeOK, Gids
    <3>3. /\ "name" \notin p.fields => c.def = group[g].def
          /\ "web" \notin p.fields => c.web = group[g].web
          /\ "cmds" \notin p.fields => c.cmds = group[g].cmds
          /\ "name" \notin p.fields => w.def = group[g].def
          /\ "web" \notin p.fields => w.web = group[g].web
          /\ "cmds" \notin p.fields => w.cmds = group[g].cmds
          /\ "users" \notin p.fields => w.users = group[g].users
          /\ "roles" \notin p.fields => w.roles = group[g].roles
        BY <3>2, UnnamedReads
    <3> HIDE DEF c, w
    <3>4. MetaRead(q)' /\ MetaKept(q)' /\ MembersKept(q)'
        BY <1>1, <3>1, <3>3 DEF MetaRead, MetaKept, MembersKept
    <3>5. QED
        BY <3>1, <3>2, <3>4 DEF ProgressInv
  <2>3. CASE ImportGroup(q, g, p)
    <3>1. /\ pc'[q] = "check" /\ gid'[q] = g /\ patch'[q] = p /\ g # 0
          /\ p.fields = AllFields
        BY <2>3 DEF ImportGroup, Begin, Goto, TypeOK, Gids
    <3>2. MetaRead(q)' /\ MembersRead(q)' /\ MembersKept(q)'
        BY <3>1 DEF MetaRead, MembersRead, MembersKept, AllFields, MetaFields, MemberFields
    <3>3. QED
        BY <3>1, <3>2 DEF ProgressInv
  <2>4. QED
      BY <2>1, <2>2, <2>3
<1>3. QED
    BY <1>1, <1>2, ProgressOthers

\* Where a request goes when it has nothing more to do to the permissions.
LEMMA RestKeeps ==
  ASSUME TypeOK, NEW q \in Reqs, pc'[q] = Rest(q), gid'[q] # 0, patch'[q] = patch[q],
         q \notin dirty' => /\ MembersRead(q)' /\ MembersKept(q)'
                            /\ gid'[q] # 1 => SameMeta(group[gid[q]], q)'
  PROVE  ProgressInv(q)'
<1>1. CASE pc'[q] = "members"
    BY <1>1 DEF ProgressInv, Rest
<1>2. CASE pc'[q] = "done"
  <2>1. "users" \notin patch[q].fields /\ "roles" \notin patch[q].fields
      BY <1>2 DEF Rest, MemberFields
  <2>2. q \notin dirty' => SameMembers(group[gid[q]], q)'
      BY <1>2, <2>1 DEF SameMembers, WroteShort, Rest, Asked, PatchedOver, Given, MembersKept
  <2>3. QED
      BY <1>2, <2>2 DEF ProgressInv
<1>3. QED
    BY <1>1, <1>2 DEF Rest

LEMMA InsertKeeps ==
  ASSUME GroupsIInv, PatchIInv, NEW q \in Reqs, InsertGroup(q)
  PROVE  PatchIInv'
<1> USE DEF GroupsIInv
<1> DEFINE new == [patch[q].row EXCEPT !.users = {}, !.roles = {}]
<1>1. patch[q].row \in [def : BOOLEAN, web : None..Unknown, cmds : SUBSET Commands,
                        users : SUBSET Users, roles : SUBSET Roles]
    BY PatchType DEF Patch
<1>2. new \in Row
    BY <1>1 DEF InsertGroup, RequestsInv, Row
<1>3. lastGid' \in Gids /\ lastGid' \notin 1..lastGid /\ lastGid' # 0
    BY GroupsAssumption DEF InsertGroup, TypeOK, Gids
<1>4. group' = [group EXCEPT ![lastGid'] = new] /\ group'[lastGid'] = new
    BY <1>3 DEF InsertGroup, TypeOK
<1>5. /\ \A r \in Reqs \ {q} : SameReq(r)
      /\ OnlyWrites(lastGid') /\ dirty' = dirty
    BY <1>3, <1>4 DEF InsertGroup, Goto, SameReq, OnlyWrites, TypeOK, Gids
<1>6. /\ pc'[q] = Rest(q) /\ gid'[q] = lastGid' /\ patch'[q] = patch[q]
      /\ cur'[q] = Unnamed(MetaFields, patch[q], new)
      /\ was'[q] = Unnamed(AllFields, patch[q], new)
    BY <1>4 DEF InsertGroup, Goto, TypeOK
<1>7. MembersRead(q)' /\ MembersKept(q)'
  <2>1. cur'[q].users = {} /\ cur'[q].roles = {}
      BY <1>2, <1>6, UnnamedReads
  <2>2. new.users = {} /\ new.roles = {}
      BY <1>1
  <2>3. /\ "users" \notin patch[q].fields => was'[q].users = new.users
        /\ "roles" \notin patch[q].fields => was'[q].roles = new.roles
    <3> HIDE DEF new
    <3>1. QED
        BY <1>2, <1>6, UnnamedReads
  <2>4. QED
      BY <1>4, <1>6, <2>1, <2>2, <2>3 DEF MembersRead, MembersKept
<1>8. SameMeta(group[gid[q]], q)'
  <2>1. /\ "name" \notin patch[q].fields => was'[q].def = new.def
        /\ "web" \notin patch[q].fields => was'[q].web = new.web
        /\ "cmds" \notin patch[q].fields => was'[q].cmds = new.cmds
    <3> HIDE DEF new
    <3>1. QED
        BY <1>2, <1>6, UnnamedReads
  <2>2. /\ new.def = patch[q].row.def /\ new.web = patch[q].row.web
        /\ new.cmds = patch[q].row.cmds
      BY <1>1
  <2>3. group'[gid'[q]] = new
      BY <1>4, <1>6
  <2> HIDE DEF new
  <2>4. QED
      BY <1>6, <2>1, <2>2, <2>3 DEF SameMeta, Asked, PatchedOver, Given
<1>9. ProgressInv(q)'
    BY <1>3, <1>6, <1>7, <1>8, RestKeeps
<1>10. QED
    BY <1>3, <1>5, <1>9, ProgressOthers

LEMMA ReadKeeps ==
  ASSUME GroupsIInv, PatchIInv, NEW q \in Reqs, ReadMembers(q)
  PROVE  PatchIInv'
<1> USE DEF GroupsIInv
<1> DEFINE row == Unnamed(MemberFields, patch[q], group[gid[q]])
<1>1. /\ \A r \in Reqs \ {q} : SameReq(r)
      /\ OnlyWrites(0) /\ dirty' = dirty /\ 0 \notin 1..lastGid /\ group' = group
    BY DEF ReadMembers, Goto, SameReq, OnlyWrites, TypeOK, groupVars
<1>2. /\ pc[q] = "read" /\ gid'[q] = gid[q] /\ patch'[q] = patch[q] /\ was'[q] = was[q]
      /\ pc'[q] = (IF patch[q].fields \cap MetaFields # {} THEN "check" ELSE Rest(q))
    BY DEF ReadMembers, Goto, TypeOK
<1>3. PICK us \in SUBSET row.users, rs \in SUBSET row.roles :
        /\ cur' = [cur EXCEPT ![q] = [@ EXCEPT !.users = us, !.roles = rs]]
        /\ short' = IF us = row.users /\ rs = row.roles THEN short ELSE short \cup {q}
    BY DEF ReadMembers
<1>4. gid[q] # 0 /\ gid[q] \in Gids /\ group[gid[q]] \in Row /\ cur[q] \in Row
    BY <1>2, GroupsAssumption DEF PatchIInv, ProgressInv, TypeOK, Gids
<1>5. /\ cur'[q].def = cur[q].def /\ cur'[q].web = cur[q].web /\ cur'[q].cmds = cur[q].cmds
      /\ cur'[q].users = us /\ cur'[q].roles = rs
    BY <1>3, <1>4 DEF Row, TypeOK
<1>6. /\ "users" \notin patch[q].fields => row.users = group[gid[q]].users
      /\ "roles" \notin patch[q].fields => row.roles = group[gid[q]].roles
    BY <1>4, UnnamedReads
<1> HIDE DEF row
<1>7. MetaRead(q)' /\ (q \notin dirty => MetaKept(q)' /\ MembersKept(q)')
    BY <1>1, <1>2, <1>5 DEF PatchIInv, ProgressInv, MetaRead, MetaKept, MembersKept
<1>8. q \notin dirty => MembersRead(q)'
  <2> SUFFICES ASSUME q \notin dirty PROVE MembersRead(q)'
      OBVIOUS
  <2>1. /\ "users" \notin patch[q].fields => row.users = was[q].users
        /\ "roles" \notin patch[q].fields => row.roles = was[q].roles
      BY <1>2, <1>6 DEF PatchIInv, ProgressInv, MembersKept
  <2>2. q \notin short' => us = row.users /\ rs = row.roles
      BY <1>3
  <2>3. QED
      BY <1>2, <1>3, <1>5, <2>1, <2>2 DEF MembersRead
<1>9. ProgressInv(q)'
  <2>1. CASE patch[q].fields \cap MetaFields # {}
      BY <1>1, <1>2, <1>4, <1>7, <1>8, <2>1 DEF ProgressInv
  <2>2. CASE patch[q].fields \cap MetaFields = {}
    <3>1. q \notin dirty => SameMeta(group[gid[q]], q)'
        BY <1>2, <1>7, <2>2 DEF SameMeta, Asked, PatchedOver, Given, MetaKept, MetaFields
    <3>2. QED
        BY <1>1, <1>2, <1>4, <1>7, <1>8, <2>2, <3>1, RestKeeps
  <2>3. QED
      BY <2>1, <2>2
<1>10. QED
    BY <1>1, <1>9, ProgressOthers

LEMMA CheckKeeps ==
  ASSUME GroupsIInv, PatchIInv, NEW q \in Reqs, UpdateGroupMeta(q)
  PROVE  PatchIInv'
<1> USE DEF GroupsIInv
<1>1. /\ \A r \in Reqs \ {q} : SameReq(r)
      /\ OnlyWrites(0) /\ dirty' = dirty /\ 0 \notin 1..lastGid /\ group' = group
    BY DEF UpdateGroupMeta, Goto, SameReq, OnlyWrites, TypeOK, groupVars
<1>2. /\ pc[q] = "check" /\ pc'[q] = "update"
      /\ gid'[q] = gid[q] /\ patch'[q] = patch[q] /\ cur'[q] = cur[q]
      /\ was'[q] = was[q] /\ short' = short
    BY DEF UpdateGroupMeta, Goto, TypeOK
<1>3. Asked(q)' = Asked(q)
    BY <1>2 DEF Asked, PatchedOver, Given
<1>4. gid[q] # 1 => SameMeta(meta[q], q)'
  <2>1. gid[q] # 1 => meta'[q] = [Patched(q) EXCEPT !.users = {}, !.roles = {}]
      BY DefaultById DEF UpdateGroupMeta, TypeOK
  <2>2. MetaRead(q)
      BY <1>2 DEF PatchIInv, ProgressInv
  <2>3. /\ Patched(q).def = Asked(q).def /\ Patched(q).web = Asked(q).web
        /\ Patched(q).cmds = Asked(q).cmds
      BY <2>2 DEF MetaRead, Patched, Asked, PatchedOver, Given
  <2>4. gid[q] # 1 => /\ meta'[q].def = Patched(q).def /\ meta'[q].web = Patched(q).web
                      /\ meta'[q].cmds = Patched(q).cmds
      BY <2>1 DEF Patched, PatchedOver
  <2>5. QED
      BY <1>3, <2>3, <2>4 DEF SameMeta
<1>5. q \notin dirty => MembersRead(q)' /\ MembersKept(q)'
    BY <1>1, <1>2 DEF PatchIInv, ProgressInv, MembersRead, MembersKept
<1>6. ProgressInv(q)'
    BY <1>1, <1>2, <1>4, <1>5 DEF PatchIInv, ProgressInv
<1>7. QED
    BY <1>1, <1>6, ProgressOthers

LEMMA UpdateKeeps ==
  ASSUME GroupsIInv, PatchIInv, NEW q \in Reqs, UpdateRow(q)
  PROVE  PatchIInv'
<1> USE DEF GroupsIInv
<1> DEFINE g == gid[q]
           new == [group[g] EXCEPT !.def = meta[q].def, !.web = meta[q].web, !.cmds = meta[q].cmds]
<1>1. g # 0 /\ g \in Gids /\ group[g] \in Row
    BY GroupsAssumption DEF UpdateRow, PatchIInv, ProgressInv, TypeOK, Gids
<1>2. group' = [group EXCEPT ![g] = new] /\ group'[g] = new
    BY <1>1 DEF UpdateRow, TypeOK
<1>3. (\A r \in Reqs \ {q} : SameReq(r)) /\ Wrote(g, {q})
    BY DEF UpdateRow, Goto, SameReq, TypeOK
<1>4. OnlyWrites(g)
    BY <1>1, <1>2, GroupsAssumption DEF OnlyWrites, TypeOK, Gids
<1>5. /\ pc[q] = "update" /\ pc'[q] = Rest(q)
      /\ gid'[q] = g /\ patch'[q] = patch[q] /\ cur'[q] = cur[q]
      /\ was'[q] = was[q] /\ short' = short
    BY DEF UpdateRow, Goto, TypeOK
<1>6. /\ new.users = group[g].users /\ new.roles = group[g].roles
      /\ new.def = meta[q].def /\ new.web = meta[q].web /\ new.cmds = meta[q].cmds
    BY <1>1 DEF Row
<1>7. group'[gid'[q]] = new /\ Asked(q)' = Asked(q)
    BY <1>2, <1>5 DEF Asked, PatchedOver, Given
<1> HIDE DEF new
<1>8. q \notin dirty' => q \notin dirty
    BY <1>3 DEF Wrote
<1>9. q \notin dirty' => MembersRead(q)' /\ MembersKept(q)'
    BY <1>5, <1>6, <1>7, <1>8 DEF PatchIInv, ProgressInv, MembersRead, MembersKept
<1>10. q \notin dirty' /\ gid'[q] # 1 => SameMeta(group[gid[q]], q)'
  <2>1. q \notin dirty' /\ g # 1 => SameMeta(meta[q], q)
      BY <1>5, <1>8 DEF PatchIInv, ProgressInv
  <2>2. QED
      BY <1>5, <1>6, <1>7, <2>1 DEF SameMeta
<1>11. ProgressInv(q)'
    BY <1>1, <1>5, <1>9, <1>10, RestKeeps
<1>12. QED
    BY <1>3, <1>4, <1>11, ProgressOthers

LEMMA ReplaceKeeps ==
  ASSUME GroupsIInv, PatchIInv, NEW q \in Reqs, ReplaceGroupMembership(q)
  PROVE  PatchIInv'
<1> USE DEF GroupsIInv
<1> DEFINE g == gid[q]
           new == [group[g] EXCEPT !.users = Patched(q).users, !.roles = Patched(q).roles]
<1>1. g # 0 /\ g \in Gids /\ group[g] \in Row
    BY GroupsAssumption DEF ReplaceGroupMembership, PatchIInv, ProgressInv, TypeOK, Gids
<1>2. group' = [group EXCEPT ![g] = new] /\ group'[g] = new
    BY <1>1 DEF ReplaceGroupMembership, NewMembers, TypeOK
<1>3. (\A r \in Reqs \ {q} : SameReq(r)) /\ Wrote(g, {q})
    BY DEF ReplaceGroupMembership, Goto, SameReq, TypeOK
<1>4. OnlyWrites(g)
    BY <1>1, <1>2, GroupsAssumption DEF OnlyWrites, TypeOK, Gids
<1>5. /\ pc[q] = "members" /\ pc'[q] = "done"
      /\ gid'[q] = g /\ patch'[q] = patch[q] /\ cur'[q] = cur[q]
      /\ was'[q] = was[q] /\ short' = short
    BY DEF ReplaceGroupMembership, Goto, TypeOK
<1>6. /\ new.users = Patched(q).users /\ new.roles = Patched(q).roles
      /\ new.def = group[g].def /\ new.web = group[g].web /\ new.cmds = group[g].cmds
    BY <1>1 DEF Row
<1>7. group'[gid'[q]] = new /\ Asked(q)' = Asked(q)
    BY <1>2, <1>5 DEF Asked, PatchedOver, Given
<1> HIDE DEF new
<1>8. q \notin dirty' => q \notin dirty
    BY <1>3 DEF Wrote
<1>9. q \notin dirty' => SameMembers(group[gid[q]], q)'
  <2> SUFFICES ASSUME q \notin dirty PROVE SameMembers(group[gid[q]], q)'
      BY <1>8
  <2>1. MembersRead(q)
      BY <1>5 DEF PatchIInv, ProgressInv
  <2>2. /\ new.users \subseteq Asked(q).users /\ new.roles \subseteq Asked(q).roles
        /\ q \notin short \/ "users" \in patch[q].fields => new.users = Asked(q).users
        /\ q \notin short \/ "roles" \in patch[q].fields => new.roles = Asked(q).roles
      BY <1>6, <2>1 DEF MembersRead, Patched, Asked, PatchedOver, Given
  <2>3. patch[q].fields \cap MemberFields # {}
      BY <1>5 DEF PatchIInv, ProgressInv
  <2>4. QED
      BY <1>5, <1>7, <2>2, <2>3 DEF SameMembers, WroteShort
<1>10. q \notin dirty' /\ gid'[q] # 1 => SameMeta(group[gid[q]], q)'
  <2>1. q \notin dirty' /\ g # 1 => SameMeta(group[g], q)
      BY <1>5, <1>8 DEF PatchIInv, ProgressInv
  <2>2. QED
      BY <1>5, <1>6, <1>7, <2>1 DEF SameMeta
<1>11. ProgressInv(q)'
    BY <1>1, <1>5, <1>9, <1>10 DEF ProgressInv
<1>12. QED
    BY <1>3, <1>4, <1>11, ProgressOthers

\* A request that is over holds nothing; deleting a group disturbs the others.
LEMMA EndKeeps ==
  ASSUME GroupsIInv, PatchIInv, NEW q \in Reqs, DeleteRow(q) \/ Answer(q) \/ StatementFails(q)
  PROVE  PatchIInv'
<1> USE DEF GroupsIInv
<1>1. ProgressInv(q)'
  <2>1. pc'[q] = "idle"
      BY DEF DeleteRow, Answer, StatementFails, Return, TypeOK
  <2>2. QED
      BY <2>1 DEF ProgressInv
<1>2. \A r \in Reqs \ {q} : SameReq(r)
    BY DEF DeleteRow, Answer, StatementFails, Return, SameReq, TypeOK
<1>3. CASE DeleteRow(q)
  <2>1. OnlyWrites(gid[q]) /\ Wrote(gid[q], {q})
      BY <1>3, GroupsAssumption DEF DeleteRow, OnlyWrites, TypeOK, Gids
  <2>2. QED
      BY <1>1, <1>2, <2>1, ProgressOthers
<1>4. CASE Answer(q) \/ StatementFails(q)
  <2>1. OnlyWrites(0) /\ dirty' = dirty \ {q} /\ 0 \notin 1..lastGid
      BY <1>4 DEF Answer, StatementFails, Return, OnlyWrites, TypeOK, groupVars
  <2>2. QED
      BY <1>1, <1>2, <2>1, ProgressOthers
<1>5. QED
    BY <1>3, <1>4

\* Every step keeps the progress of the requests.
LEMMA PatchStep ==
  ASSUME GroupsIInv, PatchIInv, [Next]_vars
  PROVE  PatchIInv'
<1> USE DEF GroupsIInv
<1>1. ASSUME NEW q \in Reqs, ReqStep(q) PROVE PatchIInv'
  <2>1. 1 \in Gids
      BY GroupsAssumption DEF Gids
  <2>2. CASE \/ \E p \in Patches : CreateGroup(q, p)
             \/ \E g \in Gids : DeleteGroup(q, g)
             \/ \E g \in Gids, p \in Patches : PatchGroup(q, g, p) \/ ImportGroup(q, g, p)
      BY <2>1, <2>2, BeginKeeps
  <2>3. QED
      BY <1>1, <2>2, InsertKeeps, ReadKeeps, CheckKeeps, UpdateKeeps, ReplaceKeeps,
         EndKeeps DEF ReqStep
<1>2. ASSUME UNCHANGED reqVars, dirty' = dirty, group' = group PROVE PatchIInv'
  <2>1. OnlyWrites(0) /\ 0 \notin 1..lastGid
      BY <1>2 DEF OnlyWrites, TypeOK, Gids
  <2>2. QED
      BY <1>2, <2>1, ProgressAll
<1>3. ASSUME NEW g \in Gids, NEW us \in SUBSET Users, NEW rs \in SUBSET Roles,
             SetMembers(g, us, rs)
      PROVE  PatchIInv'
  <2>1. OnlyWrites(g)
      BY <1>3, GroupsAssumption DEF SetMembers, OnlyWrites, TypeOK, Gids
  <2>2. QED
      BY <1>3, <2>1, ProgressAll DEF SetMembers
<1>4. ASSUME NEW u \in Users, LoginStep(u) PROVE PatchIInv'
  <2>1. CASE EnsureUserInDefaultGroupIfNone(u) \/ EnsureDefaultGroup(u) \/ LoginEnds(u)
      BY <1>2, <2>1 DEF EnsureUserInDefaultGroupIfNone, EnsureDefaultGroup, LoginEnds, groupVars
  <2>2. CASE syncDefaultGroupBasePerms(u) \/ AddUserToDefault(u)
    <3>1. OnlyWrites(lgid[u])
        BY <2>2, GroupsAssumption
           DEF syncDefaultGroupBasePerms, AddUserToDefault, OnlyWrites, TypeOK, Gids
    <3>2. QED
        BY <2>2, <3>1, ProgressAll DEF syncDefaultGroupBasePerms, AddUserToDefault
  <2>3. QED
      BY <1>4, <2>1, <2>2 DEF LoginStep
<1>5. CASE (\E u \in Users, R \in SUBSET Roles : SetUserRoles(u, R)) \/ UNCHANGED vars
    BY <1>2, <1>5 DEF SetUserRoles, vars, groupVars, reqVars
<1>6. QED
    BY <1>1, <1>3, <1>4, <1>5, MemberStepSets DEF Next

\* A PATCH or an import that answers ok, and that nobody interfered with,
\* leaves what it was given and the rest as it was when it began, but for
\* members lost to a members query that failed unseen (api.go:687-741,
\* store.go:471-494, 701-760).
THEOREM PatchExact == Spec => []PatchIsExact
<1>1. Init => PatchIInv
    BY DEF Init, PatchIInv, ProgressInv
<1>2. GroupsIInv /\ PatchIInv /\ [Next]_vars => PatchIInv'
    BY PatchStep
<1>3. GroupsIInv /\ PatchIInv => PatchIsExact
    BY DEF PatchIsExact, PatchIInv, ProgressInv
<1>4. QED
    BY <1>1, <1>2, <1>3, Inductive, PTL DEF Spec
=============================================================================
