---------------------------- MODULE AccountAccess ----------------------------
(***************************************************************************)
(* Who may use an EQ account: the account's row, the four tables that      *)
(* grant access to it, and the handlers that rewrite them.                 *)
(*                                                                         *)
(* The module follows one username, that is, one value of the unique       *)
(* column username_blind. Its row may be deleted and created again with a  *)
(* new id. A handler reads the row, decides, and then runs one statement   *)
(* after the other without a transaction; an action is one statement, and  *)
(* any of them may fail. Most handlers then answer with an error; some     *)
(* drop the error and answer ok.                                           *)
(*                                                                         *)
(* Roles of users and members of groups are parameters. disabled and the   *)
(* password do not decide between users and are left out.                  *)
(***************************************************************************)
EXTENDS Naturals, Sequences

CONSTANTS
    Users, Roles, Groups,
    RolesOf,                 \* users.role_ids_json
    GroupUsers, GroupRoles,  \* group_members
    Execs,                   \* handlers that run at the same time
    Requests,                \* grants that a request may ask for
    Patches,                 \* sets of fields that a PATCH may carry
    MaxRows,                 \* bound on the rows ever created for the username
    RequireACL,              \* REQUIRE_ACCOUNT_ACL
    ReadsFail,               \* whether reads fail whose error is dropped
    NoUser

Tables == {"roles", "users", "shares", "links"}
SubjectsOf == [roles |-> Roles, users |-> Users, shares |-> Users, links |-> Groups]
GrantTables == {g \in [Tables -> SUBSET (Users \cup Roles \cup Groups)] :
                    \A t \in Tables : g[t] \subseteq SubjectsOf[t]}

AccessTables == {"roles", "users", "links"}

ASSUME AccessAssumption ==
    /\ RolesOf \in [Users -> SUBSET Roles]
    /\ GroupUsers \in [Groups -> SUBSET Users]
    /\ GroupRoles \in [Groups -> SUBSET Roles]
    /\ Requests \subseteq GrantTables
    /\ Patches \subseteq SUBSET AccessTables
    /\ MaxRows \in Nat
    /\ RequireACL \in BOOLEAN
    /\ ReadsFail \in BOOLEAN
    /\ NoUser \notin Users

VARIABLES
    row,         \* id of the row with this username, 0 when there is none
    lastRow,     \* the sequence behind eq_accounts.id
    restricted, owner,
    grants,      \* account_access_roles, account_access_users, account_shares
                 \* and account_group_links of the row
    groups,      \* groups that exist
    pc, by, id,  \* of a handler: where it is, its user, the id it works on
    plan, at,    \* the tables it rewrites, in order, and the current one
    want,        \* the grants it was asked for
    inserted,    \* what it has inserted into the current table
    onError,     \* what a failing write does to it: see Fail
    lost,        \* history: the tables whose error it dropped
    dirty,       \* history: handlers during which somebody else wrote the row
    before       \* history: users allowed when a handler began that is not dirty

rowVars == <<row, restricted, owner, grants>>
execVars == <<pc, by, id, plan, at, want, inserted, onError, lost>>
vars == <<rowVars, lastRow, groups, execVars, before, dirty>>

NoGrants == [t \in Tables |-> {}]
Only(w, ts) == [t \in Tables |-> IF t \in ts THEN w[t] ELSE {}]

\* The orders in which SetAccountAccess, SetEQRequiredRole and the two paths
\* of ShareLocalAccount rewrite the tables.
AccessPlan == <<"roles", "users", "links">>
RolePlan == <<"roles">>
PublishPlan == <<"shares", "roles", "links">>
UpdatePlan == <<"users", "shares", "roles", "links">>
SharePlans == {PublishPlan, UpdatePlan}
Plans == {<<>>, AccessPlan, RolePlan} \cup SharePlans

Writing == {"delete", "insert"}
Wrote == Writing \cup {"again", "done"}
TypeOK ==
    /\ lastRow \in 0..MaxRows
    /\ row \in 0..lastRow
    /\ restricted \in BOOLEAN
    /\ owner \in Users \cup {NoUser}
    /\ grants \in GrantTables
    /\ groups \subseteq Groups
    /\ pc \in [Execs -> {"idle", "own", "create", "publish", "claim", "add",
                         "unshareOwn", "remove"} \cup Wrote]
    /\ by \in [Execs -> Users \cup {NoUser}]
    /\ id \in [Execs -> 0..lastRow]
    /\ plan \in [Execs -> Plans]
    /\ at \in [Execs -> 1..4]
    /\ want \in [Execs -> GrantTables]
    /\ inserted \in [Execs -> SUBSET (Users \cup Roles \cup Groups)]
    /\ onError \in [Execs -> {"fail", "ignore", "again"}]
    /\ lost \in [Execs -> SUBSET Tables]
    /\ before \in [Execs -> SUBSET Users]
    /\ dirty \subseteq Execs

Init ==
    /\ row = 0 /\ lastRow = 0
    /\ restricted = FALSE /\ owner = NoUser
    /\ grants = NoGrants
    /\ groups = Groups
    /\ pc = [e \in Execs |-> "idle"]
    /\ by = [e \in Execs |-> NoUser]
    /\ id = [e \in Execs |-> 0]
    /\ plan = [e \in Execs |-> <<>>]
    /\ at = [e \in Execs |-> 1]
    /\ want = [e \in Execs |-> NoGrants]
    /\ inserted = [e \in Execs |-> {}]
    /\ onError = [e \in Execs |-> "fail"]
    /\ lost = [e \in Execs |-> {}]
    /\ before = [e \in Execs |-> {}]
    /\ dirty = {}

-----------------------------------------------------------------------------
(* AllowedAccountIDs.                                                      *)

\* The user holds a role of the table or belongs to a linked group, directly
\* or through a role of the group.
ByRoleOrGroup(u, g) ==
    \/ RolesOf[u] \cap g["roles"] # {}
    \/ \E l \in g["links"] : u \in GroupUsers[l] \/ RolesOf[u] \cap GroupRoles[l] # {}

\* Mutant of AllowedBy: the branch for accounts without grants does not ask
\* whether the account is restricted.
AllowedIfEmpty(r, o, g) ==
    {u \in Users :
        \/ g["roles"] = {} /\ g["users"] = {} /\ g["links"] = {}
        \/ ByRoleOrGroup(u, g)
        \/ IF r THEN u = o \/ u \in g["shares"] ELSE u \in g["users"]}

\* The users who may use an account with these columns and grants.
AllowedBy(r, o, g) ==
    {u \in Users :
        \/ ~r /\ g["roles"] = {} /\ g["users"] = {} /\ g["links"] = {}
        \/ ByRoleOrGroup(u, g)
        \/ IF r THEN u = o \/ u \in g["shares"] ELSE u \in g["users"]}

AllowedNow == IF row = 0 THEN {} ELSE AllowedBy(restricted, owner, grants)

\* The history variables follow every step of the handlers in A.
Watch(A) ==
    LET wrote == rowVars' # rowVars IN
    /\ dirty' = {e \in Execs : /\ pc'[e] # "idle"
                               /\ \/ pc[e] # "idle" /\ e \in dirty
                                  \/ wrote /\ e \notin A}
    /\ before' = [e \in Execs |->
                    IF pc'[e] = "idle" \/ e \in dirty' THEN {}
                    ELSE IF pc[e] = "idle" THEN AllowedNow ELSE before[e]]

-----------------------------------------------------------------------------
(* The life of a handler.                                                  *)

\* Handler e starts for user u on row i and goes to p.
Start(e, u, i, w, p) ==
    /\ pc[e] = "idle"
    /\ pc' = [pc EXCEPT ![e] = p]
    /\ by' = [by EXCEPT ![e] = u]
    /\ id' = [id EXCEPT ![e] = i]
    /\ want' = [want EXCEPT ![e] = w]
    /\ UNCHANGED inserted

\* It is going to rewrite the tables, and has lost those in l already.
Follow(e, tables, mode, l) ==
    /\ plan' = [plan EXCEPT ![e] = tables]
    /\ at' = [at EXCEPT ![e] = 1]
    /\ onError' = [onError EXCEPT ![e] = mode]
    /\ lost' = [lost EXCEPT ![e] = l]

NoPlan == UNCHANGED <<plan, at, onError, lost>>

Return(e) ==
    /\ pc' = [pc EXCEPT ![e] = "idle"]
    /\ by' = [by EXCEPT ![e] = NoUser]
    /\ id' = [id EXCEPT ![e] = 0]
    /\ plan' = [plan EXCEPT ![e] = <<>>]
    /\ at' = [at EXCEPT ![e] = 1]
    /\ want' = [want EXCEPT ![e] = NoGrants]
    /\ inserted' = [inserted EXCEPT ![e] = {}]
    /\ onError' = [onError EXCEPT ![e] = "fail"]
    /\ lost' = [lost EXCEPT ![e] = {}]

\* What an error does to the handler: it ends it with an error ("fail"), it is
\* dropped and the answer is ok ("ignore"), or it is noted and the second pass
\* of the backup import follows ("again").
Fail(e) ==
    \/ onError[e] = "fail" /\ Return(e)
    \/ /\ onError[e] # "fail"
       /\ pc' = [pc EXCEPT ![e] = IF onError[e] = "again" THEN "again" ELSE "done"]
       /\ lost' = [lost EXCEPT ![e] = @ \cup {plan[e][i] : i \in at[e]..Len(plan[e])}]
       /\ inserted' = [inserted EXCEPT ![e] = {}]
       /\ UNCHANGED <<by, id, plan, at, want, onError>>

\* A statement fails; what was written stays.
StatementFails(e) ==
    /\ pc[e] \notin {"idle", "again", "done"}
    /\ Fail(e)
    /\ UNCHANGED <<rowVars, lastRow, groups>>
    /\ Watch({e})

\* Mutant of Hits: the statements name the account by its username.
HitsByName(e) == row # 0

\* The id that the handler read still names a row.
Hits(e) == row # 0 /\ id[e] = row

\* DeleteEQAccount; the tables of grants follow by ON DELETE CASCADE.
DeleteRow ==
    /\ row' = 0
    /\ restricted' = FALSE /\ owner' = NoUser
    /\ grants' = NoGrants

\* Mutant of AddEQAccount: the new row gets the id that the sequence had.
AddWithStaleId(e) ==
    /\ row = 0 /\ lastRow < MaxRows
    /\ row' = lastRow + 1 /\ UNCHANGED lastRow
    /\ id' = [id EXCEPT ![e] = row']
    /\ UNCHANGED <<restricted, owner, grants>>

\* AddEQAccount: a row that is not restricted and has no grants.
AddEQAccount(e) ==
    /\ row = 0 /\ lastRow < MaxRows
    /\ row' = lastRow + 1 /\ lastRow' = row'
    /\ id' = [id EXCEPT ![e] = row']
    /\ UNCHANGED <<restricted, owner, grants>>

-----------------------------------------------------------------------------
(* share_account: ShareLocalAccount. The backup import calls it as well,   *)
(* for the owner named in the file.                                        *)

\* FindEQAccountIDByUsername; the owner is dropped from the users asked for.
ShareFind(e, u, w) ==
    /\ Start(e, u, row, [w EXCEPT !["shares"] = @ \ {u}, !["users"] = {}],
             IF row = 0 THEN "create" ELSE "own")
    /\ NoPlan
    /\ UNCHANGED <<rowVars, lastRow, groups>>
    /\ Watch({e})

\* Mutant of IsOwn: a share of anybody will do.
IsRestricted(e) == Hits(e) /\ restricted

\* The check of restricted and owner_user_id that share and unshare make.
IsOwn(e) == Hits(e) /\ restricted /\ owner = by[e]

\* The row is the caller's private share, or the handler answers
\* account_exists; a row that is gone is an error.
ShareOwn(e) ==
    /\ pc[e] = "own"
    /\ \/ /\ IsOwn(e)
          /\ pc' = [pc EXCEPT ![e] = "claim"]
          /\ NoPlan
          /\ UNCHANGED <<by, id, want, inserted>>
       \/ ~IsOwn(e) /\ Return(e)
    /\ UNCHANGED <<rowVars, lastRow, groups>>
    /\ Watch({e})

\* There was no row: create one. The unique username lets only one win.
ShareCreate(e) ==
    /\ pc[e] = "create"
    /\ AddEQAccount(e)
    /\ pc' = [pc EXCEPT ![e] = "publish"]
    /\ NoPlan
    /\ UNCHANGED <<by, want, inserted, groups>>
    /\ Watch({e})

\* UPDATE ... SET restricted=true, owner_user_id, then the tables in order.
SetOwner(e, from, tables) ==
    /\ pc[e] = from
    /\ IF Hits(e) THEN restricted' = TRUE /\ owner' = by[e]
                  ELSE UNCHANGED <<restricted, owner>>
    /\ Follow(e, tables, "fail", {})
    /\ pc' = [pc EXCEPT ![e] = "delete"]
    /\ UNCHANGED <<row, grants, lastRow, groups, by, id, want, inserted>>
    /\ Watch({e})

SharePublish(e) == SetOwner(e, "publish", PublishPlan)
ShareClaim(e) == SetOwner(e, "claim", UpdatePlan)

\* unshare_account: find the row, check that it is the caller's, delete it.
UnshareFind(e, u) ==
    /\ row # 0
    /\ Start(e, u, row, NoGrants, "unshareOwn")
    /\ NoPlan
    /\ UNCHANGED <<rowVars, lastRow, groups>>
    /\ Watch({e})

UnshareOwn(e) ==
    /\ pc[e] = "unshareOwn"
    /\ \/ /\ IsOwn(e)
          /\ pc' = [pc EXCEPT ![e] = "remove"]
          /\ NoPlan
          /\ UNCHANGED <<by, id, want, inserted>>
       \/ ~IsOwn(e) /\ Return(e)
    /\ UNCHANGED <<rowVars, lastRow, groups>>
    /\ Watch({e})

-----------------------------------------------------------------------------
(* Handlers of admins. They name the row by an id the admin's screen shows *)
(* and pass CheckRestrictedAccountManage first; the imports look the       *)
(* username up and check nothing.                                          *)

\* What LoadEQAccountMeta may return of the grants in a table: the lists drop
\* the error of their query and of a row, and the PATCH drops that of the whole.
ReadsOf(t) == IF ReadsFail THEN SUBSET grants[t] ELSE {grants[t]}

\* The fields of a PATCH over the current grants as they were read.
Merged(w, fields, read) ==
    [t \in Tables |-> IF t \in fields THEN w[t]
                      ELSE IF t \in AccessTables THEN read[t] ELSE {}]

\* PATCH of the web UI with some of the access fields. The check, the current
\* grants and REQUIRE_ACCOUNT_ACL are read here in one step; the last of these
\* reads may fail too, which lets the PATCH pass.
AccessCheck(e, w, fields, read) ==
    LET merged == Merged(w, fields, read)
        short == {t \in AccessTables \ fields : read[t] # grants[t]}
    IN
    /\ pc[e] = "idle" /\ row # 0 /\ ~restricted
    /\ \A t \in Tables : read[t] \in ReadsOf(t)
    /\ RequireACL /\ merged = NoGrants => ReadsFail
    /\ Start(e, NoUser, row, merged, "delete")
    /\ Follow(e, AccessPlan, "fail", short)
    /\ UNCHANGED <<rowVars, lastRow, groups>>
    /\ Watch({e})

\* admin_update_account with required_role_id.
RoleCheck(e, w) ==
    /\ row # 0 /\ ~restricted
    /\ Start(e, NoUser, row, Only(w, {"roles"}), "delete")
    /\ Follow(e, RolePlan, "fail", {})
    /\ UNCHANGED <<rowVars, lastRow, groups>>
    /\ Watch({e})

\* A row of a CSV file, which names a role, or of a backup, which names roles
\* and users: an account that exists is rewritten whether or not it is
\* restricted, one that does not is added.
ImportFind(e, w, tables, mode) ==
    /\ Start(e, NoUser, row, w, IF row = 0 THEN "add" ELSE "delete")
    /\ Follow(e, tables, mode, {})
    /\ UNCHANGED <<rowVars, lastRow, groups>>
    /\ Watch({e})

ImportCSV(e, w) == ImportFind(e, Only(w, {"roles"}), RolePlan, "fail")

\* A row of a backup that names groups is written twice: its links only when
\* the groups of the file exist. w["links"] are the groups the names resolve to.
ImportBackup(e, w) ==
    \/ ImportFind(e, Only(w, {"roles", "users"}), AccessPlan, "fail")
    \/ ImportFind(e, Only(w, AccessTables), AccessPlan, "again")

\* The second pass looks the username up again, skips a row that it does not
\* find or cannot read, and drops the error of SetAccountAccess.
ImportAgain(e) ==
    /\ pc[e] = "again"
    /\ \/ /\ row # 0
          /\ pc' = [pc EXCEPT ![e] = "delete"]
          /\ id' = [id EXCEPT ![e] = row]
          /\ Follow(e, AccessPlan, "ignore", {})
          /\ UNCHANGED <<by, want, inserted>>
       \/ /\ pc' = [pc EXCEPT ![e] = "done"]
          /\ Follow(e, AccessPlan, "ignore", lost[e] \cup {"links"})
          /\ UNCHANGED <<by, id, want, inserted>>
    /\ UNCHANGED <<rowVars, lastRow, groups>>
    /\ Watch({e})

ImportAdd(e) ==
    /\ pc[e] = "add"
    /\ AddEQAccount(e)
    /\ pc' = [pc EXCEPT ![e] = "delete"]
    /\ NoPlan
    /\ UNCHANGED <<by, want, inserted, groups>>
    /\ Watch({e})

\* Insert at once, then the role.
AddThenRole(e, w, mode, p) ==
    /\ pc[e] = "idle"
    /\ AddEQAccount(e)
    /\ pc' = [pc EXCEPT ![e] = p]
    /\ want' = [want EXCEPT ![e] = Only(w, {"roles"})]
    /\ Follow(e, RolePlan, mode, {})
    /\ UNCHANGED <<by, inserted, groups>>
    /\ Watch({e})

\* admin_add_account; POST of the web UI, which drops the error of
\* SetEQRequiredRole; and either of them without a role.
AddAccount(e, w) == AddThenRole(e, w, "fail", "delete")
WebAddAccount(e, w) == w["roles"] # {} /\ AddThenRole(e, w, "ignore", "delete")
AddWithoutRole(e) == AddThenRole(e, NoGrants, "fail", "done")

\* admin_remove_account: anybody's account, a private share only by its owner.
RemoveCheck(e, u) ==
    /\ row # 0
    /\ restricted => owner = u
    /\ Start(e, NoUser, row, NoGrants, "remove")
    /\ NoPlan
    /\ UNCHANGED <<rowVars, lastRow, groups>>
    /\ Watch({e})

Remove(e) ==
    /\ pc[e] = "remove"
    /\ IF Hits(e) THEN DeleteRow ELSE UNCHANGED rowVars
    /\ Return(e)
    /\ UNCHANGED <<lastRow, groups>>
    /\ Watch({e})

-----------------------------------------------------------------------------
(* ReplaceAccountRoles, ReplaceAccountUsers, replaceAccountShares and      *)
(* ReplaceAccountGroups: delete all, insert one by one.                    *)

Table(e) == plan[e][at[e]]

\* What it writes to a table: the first pass of the backup import no links.
Asked(e, t) == IF onError[e] = "again" /\ t = "links" THEN {} ELSE want[e][t]

\* Mutant of DeleteGrants: what the table held stays.
KeepOldGrants(e) ==
    /\ pc[e] = "delete"
    /\ pc' = [pc EXCEPT ![e] = "insert"]
    /\ UNCHANGED <<rowVars, lastRow, groups, by, id, plan, at, want, inserted, onError, lost>>
    /\ Watch({e})

DeleteGrants(e) ==
    /\ pc[e] = "delete"
    /\ grants' = IF Hits(e) THEN [grants EXCEPT ![Table(e)] = {}] ELSE grants
    /\ pc' = [pc EXCEPT ![e] = "insert"]
    /\ UNCHANGED <<row, restricted, owner, lastRow, groups, by, id, plan, at, want,
                   inserted, onError, lost>>
    /\ Watch({e})

\* A foreign key that names no row; account_shares has no ON CONFLICT clause.
InsertFails(e, x) ==
    \/ ~Hits(e)
    \/ Table(e) = "links" /\ x \notin groups
    \/ Table(e) = "shares" /\ x \in grants["shares"]

InsertGrant(e, x) ==
    /\ pc[e] = "insert"
    /\ x \in Asked(e, Table(e)) \ inserted[e]
    /\ \/ /\ ~InsertFails(e, x)
          /\ grants' = [grants EXCEPT ![Table(e)] = @ \cup {x}]
          /\ inserted' = [inserted EXCEPT ![e] = @ \cup {x}]
          /\ UNCHANGED <<pc, by, id, plan, at, want, onError, lost>>
       \/ InsertFails(e, x) /\ Fail(e) /\ UNCHANGED grants
    /\ UNCHANGED <<row, restricted, owner, lastRow, groups>>
    /\ Watch({e})

\* Everything asked for in the current table has been inserted.
TableDone(e) == pc[e] = "insert" /\ Asked(e, Table(e)) \subseteq inserted[e]

\* On to the next table.
GoOn(e) ==
    /\ at' = [at EXCEPT ![e] = @ + 1]
    /\ pc' = [pc EXCEPT ![e] = "delete"]
    /\ inserted' = [inserted EXCEPT ![e] = {}]
    /\ UNCHANGED <<by, id, plan, want, onError>>

\* All tables are written.
Finish(e) ==
    /\ pc' = [pc EXCEPT ![e] = IF onError[e] = "again" THEN "again" ELSE "done"]
    /\ inserted' = [inserted EXCEPT ![e] = {}]
    /\ UNCHANGED <<by, id, plan, at, want, onError>>

NextTable(e) ==
    /\ TableDone(e)
    /\ IF at[e] < Len(plan[e]) THEN GoOn(e) ELSE Finish(e)
    /\ UNCHANGED <<rowVars, lastRow, groups, lost>>
    /\ Watch({e})

\* The answer ok.
Answer(e) ==
    /\ pc[e] = "done"
    /\ Return(e)
    /\ UNCHANGED <<rowVars, lastRow, groups>>
    /\ Watch({e})

\* ShareLocalAccount drops the error of ReplaceAccountUsers and goes on.
UsersFailUnseen(e) ==
    /\ pc[e] \in Writing
    /\ plan[e] = UpdatePlan /\ Table(e) = "users"
    /\ GoOn(e)
    /\ lost' = [lost EXCEPT ![e] = @ \cup {"users"}]
    /\ UNCHANGED <<rowVars, lastRow, groups>>
    /\ Watch({e})

-----------------------------------------------------------------------------
(* Groups, one statement or one transaction each.                          *)

\* The web UI links any account, private shares too.
LinkAccountGroup(g) ==
    /\ row # 0 /\ g \in groups
    /\ grants' = [grants EXCEPT !["links"] = @ \cup {g}]
    /\ UNCHANGED <<row, restricted, owner, lastRow, groups, execVars>>
    /\ Watch({})

UnlinkAccountGroup(g) ==
    /\ g \in grants["links"]
    /\ grants' = [grants EXCEPT !["links"] = @ \ {g}]
    /\ UNCHANGED <<row, restricted, owner, lastRow, groups, execVars>>
    /\ Watch({})

\* DeleteGroup of a group other than Default; its links follow by ON DELETE
\* CASCADE.
DeleteGroup(g) ==
    /\ g \in groups
    /\ groups' = groups \ {g}
    /\ grants' = [grants EXCEPT !["links"] = @ \ {g}]
    /\ UNCHANGED <<row, restricted, owner, lastRow, execVars>>
    /\ Watch({})

-----------------------------------------------------------------------------
ShareStep(e) == ShareOwn(e) \/ ShareCreate(e) \/ SharePublish(e) \/ ShareClaim(e)
DeleteStep(e) == UnshareOwn(e) \/ Remove(e)
WriteStep(e) ==
    \/ DeleteGrants(e) \/ NextTable(e) \/ UsersFailUnseen(e) \/ Answer(e)
    \/ \E x \in Users \cup Roles \cup Groups : InsertGrant(e, x)

Request(e) ==
    \/ \E u \in Users : UnshareFind(e, u) \/ RemoveCheck(e, u)
    \/ AddWithoutRole(e)
    \/ \E w \in Requests :
        \/ \E u \in Users : ShareFind(e, u, w)
        \/ \E fields \in Patches, read \in GrantTables : AccessCheck(e, w, fields, read)
        \/ RoleCheck(e, w) \/ ImportCSV(e, w) \/ ImportBackup(e, w)
        \/ AddAccount(e, w) \/ WebAddAccount(e, w)

ImportStep(e) == ImportAdd(e) \/ ImportAgain(e)

Next ==
    \/ \E e \in Execs :
        \/ Request(e) \/ ShareStep(e) \/ DeleteStep(e) \/ WriteStep(e) \/ ImportStep(e)
        \/ StatementFails(e)
    \/ \E g \in Groups : LinkAccountGroup(g) \/ UnlinkAccountGroup(g) \/ DeleteGroup(g)

Spec == Init /\ [][Next]_vars

-----------------------------------------------------------------------------
(* Properties.                                                             *)

\* share_account and unshare_account read the owner in one statement and write
\* or delete in later ones, by id: whatever happened in between, the row that
\* they reach is still a private share of their caller.
ShareHoldsOwnRow ==
    \A e \in Execs :
        /\ Hits(e)
        /\ \/ pc[e] = "claim"
           \/ pc[e] \in Writing /\ plan[e] \in SharePlans
           \/ pc[e] = "remove" /\ by[e] # NoUser
        => restricted /\ owner = by[e]

\* A private share is never opened and never changes hands.
OwnershipIsStable ==
    [][row' = row /\ restricted => restricted' /\ owner' = owner]_vars

\* The tables that the answer ok is about: all but those whose error was
\* dropped on the way.
Promised(e) == {plan[e][i] : i \in 1..Len(plan[e])} \ lost[e]

\* A handler that answers ok has set exactly the grants it was asked for, and
\* left those it was not asked about, when nobody else wrote to the account
\* meanwhile and none of the errors that the code drops occurred: of the write
\* of POST accounts, of the reads of PATCH, of the second pass of the backup
\* import, and of the users in share_account.
SuccessIsExact ==
    \A e \in Execs :
        pc[e] = "done" /\ Hits(e) /\ e \notin dirty =>
            \A t \in Promised(e) : grants[t] = want[e][t]

\* While the grants of a private share are rewritten, and after a rewriting
\* that failed half-way, nobody may use it who could not before and is not
\* among those asked for.
PrivateIsNeverWider ==
    \A e \in Execs :
        pc[e] \in Wrote /\ Hits(e) /\ restricted /\ e \notin dirty =>
            AllowedNow \subseteq before[e] \cup AllowedBy(TRUE, owner, want[e])

-----------------------------------------------------------------------------
(* What comments and documents say and the code does not do.               *)

\* store.go on SetAccountAccess: "When any grant is set, the user must satisfy
\* at least one". Here: an account that had grants and gets grants is closed
\* meanwhile to those who satisfy neither the old nor the new ones.
GrantedIsNeverWider ==
    \A e \in Execs :
        pc[e] \in Writing /\ Hits(e) /\ plan[e] = AccessPlan /\ e \notin dirty =>
            AllowedNow \subseteq before[e] \cup AllowedBy(restricted, owner, want[e])

-----------------------------------------------------------------------------
(* The inductive invariant of AccountAccessProofs.                         *)

\* A username without a row has no columns and no grants.
RowInv == row = 0 => ~restricted /\ owner = NoUser /\ grants = NoGrants

\* Where a handler is, what it rewrites and what it has inserted fit together.
LocalsInv(e) ==
    /\ pc[e] # "insert" => inserted[e] = {}
    /\ pc[e] \in Writing => at[e] <= Len(plan[e])
    /\ pc[e] = "add" => plan[e] \in {AccessPlan, RolePlan} /\ at[e] = 1 /\ id[e] = 0
    /\ pc[e] \notin Wrote \cup {"add"} => onError[e] = "fail"
    /\ pc[e] = "again" => onError[e] = "again"
    /\ pc[e] = "done" => onError[e] # "again"
    /\ onError[e] = "again" => plan[e] = AccessPlan

\* Unless somebody else wrote, the id that a handler holds is that of the row.
CurrentInv(e) == pc[e] # "idle" /\ e \notin dirty => id[e] = row

\* A row that its creator has still to publish is not restricted, and nobody
\* else is going to publish it.
PublisherInv(e) ==
    pc[e] = "publish" /\ Hits(e) =>
        ~restricted /\ \A f \in Execs : pc[f] = "publish" /\ Hits(f) => f = e

\* The tables that a handler is through with hold what it was asked for, and
\* the one it is at what it has inserted so far, unless somebody else wrote.
ProgressInv(e) ==
    Hits(e) /\ e \notin dirty =>
        /\ pc[e] = "insert" => grants[Table(e)] = inserted[e]
        /\ pc[e] \in Writing =>
              /\ inserted[e] \subseteq Asked(e, Table(e))
              /\ \A i \in 1..(at[e] - 1) :
                    plan[e][i] \notin lost[e] => grants[plan[e][i]] = Asked(e, plan[e][i])
        /\ pc[e] \in {"again", "done"} =>
              \A t \in Promised(e) : grants[t] = Asked(e, t)

\* Until share_account writes, nobody may use the account who could not when
\* it began, and a row it created has no grants.
BeforeInv(e) ==
    Hits(e) /\ e \notin dirty =>
        /\ pc[e] \in {"own", "claim"} => AllowedNow \subseteq before[e]
        /\ pc[e] = "publish" => grants = NoGrants

AccessIInv ==
    /\ TypeOK /\ RowInv /\ ShareHoldsOwnRow /\ PrivateIsNeverWider
    /\ \A e \in Execs : /\ LocalsInv(e) /\ CurrentInv(e) /\ PublisherInv(e)
                        /\ ProgressInv(e) /\ BeforeInv(e)
=============================================================================
