------------------------------- MODULE Groups -------------------------------
(***************************************************************************)
(* Access groups: the rows of account_groups and group_members, the web    *)
(* requests and backup rows that change them, and the slash commands and   *)
(* web logins that put a user without a group into the Default group.      *)
(*                                                                         *)
(* Every handler reads first and writes by id later, one statement or one  *)
(* transaction at a time, and may fail at any of them. A name matters only *)
(* for being the reserved one, so a row says whether it is. Migration 014  *)
(* has created the Default group, here group 1. Links of groups to         *)
(* accounts are in AccountAccess.                                          *)
(***************************************************************************)
EXTENDS Naturals

CONSTANTS
    Users, Roles, Commands,
    Bootstrap,            \* DISCORD_BOOTSTRAP_ADMINS, followed in Users or not
    AdminRole,            \* DISCORD_ADMIN_ROLE_ID
    AccessRole,           \* WEB_ACCESS_ROLE_ID
    Reqs,                 \* web requests and imports that run at the same time
    Patches,              \* the bodies they may carry
    MaxGroups             \* bound on the groups ever created

\* web_role, in the order of what it allows
None == 0
Readonly == 1
Admin == 2
Unknown == 3   \* any other word

Gids == 1..MaxGroups
Row == [def : BOOLEAN, web : None..Admin, cmds : SUBSET Commands,
        users : SUBSET Users, roles : SUBSET Roles]
MetaFields == {"name", "web", "cmds"}
MemberFields == {"users", "roles"}
AllFields == MetaFields \cup MemberFields
Patch == [fields : SUBSET AllFields,
          row : [def : BOOLEAN, web : None..Unknown, cmds : SUBSET Commands,
                 users : SUBSET Users, roles : SUBSET Roles]]

ASSUME GroupsAssumption ==
    /\ MaxGroups \in Nat \ {0}
    /\ Patches \subseteq Patch

VARIABLES
    live, lastGid, group,    \* account_groups and group_members
    userRoles,               \* users.role_ids_json
    pc, gid, patch,          \* of a request: where it is, its group, its body,
    cur, meta,               \* the group as it read it, the row it will write
    was, short,              \* history: the group when it began, and requests
                             \* that read fewer members than there were
    dirty,                   \* history: somebody else wrote its group since
    lpc, lgid,               \* of a user's command or login: where it is and
                             \* the id of Default it found
    fresh                    \* history: users it has just put into Default

groupVars == <<live, lastGid, group>>
reqVars == <<pc, gid, patch, cur, meta, was, short>>
loginVars == <<lpc, lgid>>
vars == <<groupVars, userRoles, reqVars, dirty, loginVars, fresh>>

BaseRow(users, roles) ==
    [def |-> TRUE, web |-> None, cmds |-> Commands, users |-> users, roles |-> roles]
EmptyRow == [def |-> FALSE, web |-> None, cmds |-> {}, users |-> {}, roles |-> {}]
EmptyPatch == [fields |-> {}, row |-> EmptyRow]

TypeOK ==
    /\ lastGid \in Gids
    /\ live \subseteq 1..lastGid
    /\ group \in [Gids -> Row]
    /\ userRoles \in [Users -> SUBSET Roles]
    /\ pc \in [Reqs -> {"idle", "insert", "read", "check", "update", "members",
                        "delete", "done"}]
    /\ gid \in [Reqs -> 0..lastGid]
    /\ patch \in [Reqs -> Patches \cup {EmptyPatch}]
    /\ cur \in [Reqs -> Row] /\ meta \in [Reqs -> Row] /\ was \in [Reqs -> Row]
    /\ short \subseteq Reqs
    /\ dirty \subseteq Reqs
    /\ lpc \in [Users -> {"idle", "find", "sync", "add", "check"}]
    /\ lgid \in [Users -> 0..lastGid]
    /\ fresh \subseteq Users

\* Migration 014 puts every user without a group into Default.
Init ==
    /\ live = {1} /\ lastGid = 1
    /\ group = [g \in Gids |-> IF g = 1 THEN BaseRow(Users, {}) ELSE EmptyRow]
    /\ userRoles = [u \in Users |-> {}]
    /\ pc = [q \in Reqs |-> "idle"]
    /\ gid = [q \in Reqs |-> 0]
    /\ patch = [q \in Reqs |-> EmptyPatch]
    /\ cur = [q \in Reqs |-> EmptyRow] /\ meta = [q \in Reqs |-> EmptyRow]
    /\ was = [q \in Reqs |-> EmptyRow] /\ short = {}
    /\ dirty = {}
    /\ lpc = [u \in Users |-> "idle"] /\ lgid = [u \in Users |-> 0]
    /\ fresh = {}

-----------------------------------------------------------------------------
(* What the tables say of a user.                                          *)

\* ListGroupsForUser: by user id or by a cached Discord role.
GroupsOf(u) == {g \in live : u \in group[g].users \/ userRoles[u] \cap group[g].roles # {}}

\* HighestWebRoleForUser
GroupLevel(u) ==
    IF \E g \in GroupsOf(u) : group[g].web = Admin THEN Admin
    ELSE IF \E g \in GroupsOf(u) : group[g].web = Readonly THEN Readonly
    ELSE None

webAccessLevel(u) ==
    IF u \in Bootstrap THEN Admin
    ELSE IF AdminRole \in userRoles[u] THEN Admin
    ELSE IF GroupLevel(u) # None THEN GroupLevel(u)
    ELSE IF AccessRole # AdminRole /\ AccessRole \in userRoles[u] THEN Readonly
    ELSE None

\* Mutant of UserCanUseDiscordCommand: only members by role count.
UserCanUseByRole(u, c) ==
    \/ \A g \in live : c \notin group[g].cmds
    \/ \E g \in live : c \in group[g].cmds /\ userRoles[u] \cap group[g].roles # {}

UserCanUseDiscordCommand(u, c) ==
    \/ \A g \in live : c \notin group[g].cmds
    \/ \E g \in GroupsOf(u) : c \in group[g].cmds

-----------------------------------------------------------------------------
(* Web requests. requireAuth and rejectIfReadonly let an admin through.    *)

\* A bootstrap admin may always be the one who asks.
Authorized == Bootstrap # {} \/ \E u \in Users : webAccessLevel(u) = Admin

Goto(q, l) == pc' = [pc EXCEPT ![q] = l]
\* Group g is written: the other requests that work on it saw it before.
Wrote(g, own) == dirty' = dirty \cup {r \in Reqs \ own : pc[r] # "idle" /\ gid[r] = g}
Lost(users) == fresh' = fresh \ users

\* Where a request goes after its metadata, and after its members.
Rest(q) == IF patch[q].fields \cap MemberFields # {} THEN "members" ELSE "done"

\* The request answers: what it held is gone.
Return(q) ==
    /\ pc' = [pc EXCEPT ![q] = "idle"]
    /\ gid' = [gid EXCEPT ![q] = 0]
    /\ patch' = [patch EXCEPT ![q] = EmptyPatch]
    /\ cur' = [cur EXCEPT ![q] = EmptyRow]
    /\ meta' = [meta EXCEPT ![q] = EmptyRow]
    /\ was' = [was EXCEPT ![q] = EmptyRow]
    /\ short' = short \ {q}
    /\ dirty' = dirty \ {q}

Answer(q) ==
    /\ pc[q] = "done"
    /\ Return(q)
    /\ UNCHANGED <<groupVars, userRoles, loginVars, fresh>>

\* Any statement may fail; what was written before stays. A failure of the
\* members query is not seen, see ReadMembers.
StatementFails(q) ==
    /\ pc[q] \notin {"idle", "read", "done"}
    /\ Return(q)
    /\ UNCHANGED <<groupVars, userRoles, loginVars, fresh>>

Begin(q, g, p, l) ==
    /\ pc[q] = "idle"
    /\ Goto(q, l)
    /\ gid' = [gid EXCEPT ![q] = g]
    /\ patch' = [patch EXCEPT ![q] = p]
    /\ dirty' = dirty \ {q}
    /\ UNCHANGED <<groupVars, userRoles, meta, short, loginVars, fresh>>

\* What a request needs of a row it reads: the fields it is not given.
Unnamed(fields, p, row) ==
    [def |-> "name" \in fields \ p.fields /\ row.def,
     web |-> IF "web" \in fields \ p.fields THEN row.web ELSE None,
     cmds |-> IF "cmds" \in fields \ p.fields THEN row.cmds ELSE {},
     users |-> IF "users" \in fields \ p.fields THEN row.users ELSE {},
     roles |-> IF "roles" \in fields \ p.fields THEN row.roles ELSE {}]

DefaultExists == \E g \in live : group[g].def

\* Mutant of NormalizeWebRole: any word is stored.
NormalizeWebRoleAny(w) == TRUE

NormalizeWebRole(w) == w \in None..Admin

\* CreateGroup lets the reserved name through only when no group has it.
MayBeNamed(p) == p.row.def => ~DefaultExists

\* POST /groups, and a backup row whose name no group has.
CreateGroup(q, p) ==
    /\ Authorized
    /\ MayBeNamed(p) /\ NormalizeWebRole(p.row.web)
    /\ Begin(q, 0, p, "insert")
    /\ UNCHANGED <<cur, was>>

InsertGroup(q) ==
    /\ pc[q] = "insert" /\ lastGid < MaxGroups
    /\ lastGid' = lastGid + 1
    /\ live' = live \cup {lastGid'}
    /\ group' = [group EXCEPT ![lastGid'] = [patch[q].row EXCEPT !.users = {}, !.roles = {}]]
    /\ gid' = [gid EXCEPT ![q] = lastGid']
    /\ cur' = [cur EXCEPT ![q] = Unnamed(MetaFields, patch[q], group'[lastGid'])]
    /\ was' = [was EXCEPT ![q] = Unnamed(AllFields, patch[q], group'[lastGid'])]
    /\ Goto(q, Rest(q))
    /\ UNCHANGED <<userRoles, patch, meta, short, dirty, loginVars, fresh>>

\* PATCH /groups/{id}: ListGroupDetails reads the rows and then the members.
PatchGroup(q, g, p) ==
    /\ Authorized
    /\ g \in live /\ p.fields # {}
    /\ Begin(q, g, p, "read")
    /\ cur' = [cur EXCEPT ![q] = Unnamed(MetaFields, p, group[g])]
    /\ was' = [was EXCEPT ![q] = Unnamed(AllFields, p, group[g])]

\* ListGroupDetails drops an error of the members query or of one of its rows:
\* the request goes on with the members that it got, if any.
ReadMembers(q) ==
    LET row == Unnamed(MemberFields, patch[q], group[gid[q]]) IN
    /\ pc[q] = "read"
    /\ \E us \in SUBSET row.users, rs \in SUBSET row.roles :
        /\ cur' = [cur EXCEPT ![q] = [@ EXCEPT !.users = us, !.roles = rs]]
        /\ short' = IF us = row.users /\ rs = row.roles THEN short ELSE short \cup {q}
    /\ Goto(q, IF patch[q].fields \cap MetaFields # {} THEN "check" ELSE Rest(q))
    /\ UNCHANGED <<groupVars, userRoles, gid, patch, meta, was, dirty, loginVars, fresh>>

\* A backup row whose name a group has: all of its fields are written.
ImportGroup(q, g, p) ==
    /\ Authorized
    /\ g \in live
    /\ p.fields = AllFields
    /\ p.row.def = group[g].def
    /\ Begin(q, g, p, "check")
    /\ UNCHANGED <<cur, was>>

\* Mutant of IsDefaultGroup: the name is compared with the wrong case.
IsDefaultGroupNever(g) == FALSE

IsDefaultGroup(g) == g \in live /\ group[g].def

\* The row that a request leaves: fields it does not name as it read them.
Given(q, f, value, old) == IF f \in patch[q].fields THEN value ELSE old
PatchedOver(q, old) ==
    LET p == patch[q].row IN
    [def |-> Given(q, "name", p.def, old.def),
     web |-> Given(q, "web", p.web, old.web),
     cmds |-> Given(q, "cmds", p.cmds, old.cmds),
     users |-> Given(q, "users", p.users, old.users),
     roles |-> Given(q, "roles", p.roles, old.roles)]
Patched(q) == PatchedOver(q, cur[q])

\* UpdateGroupMeta: the Default group keeps its name and permissions, and no
\* other group takes its name.
UpdateGroupMeta(q) ==
    /\ pc[q] = "check"
    /\ IsDefaultGroup(gid[q]) \/ (~Patched(q).def /\ NormalizeWebRole(Patched(q).web))
    /\ meta' = [meta EXCEPT ![q] =
                  IF IsDefaultGroup(gid[q]) THEN BaseRow({}, {})
                  ELSE [Patched(q) EXCEPT !.users = {}, !.roles = {}]]
    /\ Goto(q, "update")
    /\ UNCHANGED <<groupVars, userRoles, gid, patch, cur, was, short, dirty, loginVars,
                   fresh>>

UpdateRow(q) ==
    LET m == meta[q] IN
    /\ pc[q] = "update" /\ gid[q] \in live
    /\ group' = [group EXCEPT ![gid[q]] =
                   [@ EXCEPT !.def = m.def, !.web = m.web, !.cmds = m.cmds]]
    /\ Wrote(gid[q], {q})
    /\ meta' = [meta EXCEPT ![q] = EmptyRow]
    /\ Goto(q, Rest(q))
    /\ UNCHANGED <<live, lastGid, userRoles, gid, patch, cur, was, short, loginVars, fresh>>

\* Mutant of NewMembers: a request without users or roles empties them.
NewMembersGiven(q) == [Patched(q) EXCEPT
    !.users = Given(q, "users", @, {}), !.roles = Given(q, "roles", @, {})]

NewMembers(q) == Patched(q)

\* ReplaceGroupMembership, one transaction; it fails when the group is gone.
ReplaceGroupMembership(q) ==
    LET new == NewMembers(q) IN
    /\ pc[q] = "members" /\ gid[q] \in live
    /\ group' = [group EXCEPT ![gid[q]] = [@ EXCEPT !.users = new.users, !.roles = new.roles]]
    /\ Wrote(gid[q], {q})
    /\ IF gid[q] = 1 THEN Lost(Users \ new.users) ELSE UNCHANGED fresh
    /\ Goto(q, "done")
    /\ UNCHANGED <<live, lastGid, userRoles, gid, patch, cur, meta, was, short, loginVars>>

\* DELETE /groups/{id}: asks for the name, then deletes by id.
DeleteGroup(q, g) ==
    /\ Authorized
    /\ g \in live /\ ~IsDefaultGroup(g)
    /\ Begin(q, g, EmptyPatch, "delete")
    /\ UNCHANGED <<cur, was>>

DeleteRow(q) ==
    /\ pc[q] = "delete" /\ gid[q] \in live
    /\ live' = live \ {gid[q]}
    /\ group' = [group EXCEPT ![gid[q]] = EmptyRow]
    /\ Wrote(gid[q], {q})
    /\ pc' = [pc EXCEPT ![q] = "idle"]
    /\ gid' = [gid EXCEPT ![q] = 0]
    /\ UNCHANGED <<lastGid, userRoles, patch, cur, meta, was, short, loginVars, fresh>>

\* POST and DELETE /groups/{id}/users and /roles, one statement each. One that
\* changes nothing (ON CONFLICT DO NOTHING) is a stuttering step.
SetMembers(g, users, roles) ==
    /\ users # group[g].users \/ roles # group[g].roles
    /\ Authorized
    /\ g \in live
    /\ group' = [group EXCEPT ![g] = [@ EXCEPT !.users = users, !.roles = roles]]
    /\ Wrote(g, {})
    /\ IF g = 1 THEN Lost(Users \ users) ELSE UNCHANGED fresh
    /\ UNCHANGED <<live, lastGid, userRoles, reqVars, loginVars>>

AddGroupUser(g, u) == SetMembers(g, group[g].users \cup {u}, group[g].roles)
RemoveGroupUser(g, u) == SetMembers(g, group[g].users \ {u}, group[g].roles)
AddGroupRole(g, r) == SetMembers(g, group[g].users, group[g].roles \cup {r})
RemoveGroupRole(g, r) == SetMembers(g, group[g].users, group[g].roles \ {r})

-----------------------------------------------------------------------------
(* A slash command or web login: EnsureUserInDefaultGroupIfNone, then the  *)
(* check of the command or of the web access, which changes nothing.       *)

LoginGoto(u, l, g) ==
    /\ lpc' = [lpc EXCEPT ![u] = l]
    /\ lgid' = [lgid EXCEPT ![u] = g]

EnsureUserInDefaultGroupIfNone(u) ==
    /\ lpc[u] = "idle"
    /\ LoginGoto(u, IF GroupsOf(u) = {} THEN "find" ELSE "check", 0)
    /\ UNCHANGED <<groupVars, userRoles, reqVars, dirty, fresh>>

\* EnsureDefaultGroup finds the group by its name; there always is one, so
\* the branch that creates it is never taken (DefaultIsLocked).
EnsureDefaultGroup(u) ==
    /\ lpc[u] = "find"
    /\ \E g \in live : group[g].def /\ LoginGoto(u, "sync", g)
    /\ UNCHANGED <<groupVars, userRoles, reqVars, dirty, fresh>>

syncDefaultGroupBasePerms(u) ==
    /\ lpc[u] = "sync"
    /\ group' = [group EXCEPT ![lgid[u]] =
                   IF lgid[u] \in live THEN BaseRow(@.users, @.roles) ELSE @]
    /\ Wrote(lgid[u], {})
    /\ LoginGoto(u, "add", lgid[u])
    /\ UNCHANGED <<live, lastGid, userRoles, reqVars, fresh>>

AddUserToDefault(u) ==
    /\ lpc[u] = "add" /\ lgid[u] \in live
    /\ group' = [group EXCEPT ![lgid[u]].users = @ \cup {u}]
    /\ Wrote(lgid[u], {})
    /\ fresh' = fresh \cup {u}
    /\ LoginGoto(u, "check", 0)
    /\ UNCHANGED <<live, lastGid, userRoles, reqVars>>

\* The command runs or is refused, or a statement failed.
LoginEnds(u) ==
    /\ lpc[u] # "idle"
    /\ LoginGoto(u, "idle", 0)
    /\ fresh' = fresh \ {u}
    /\ UNCHANGED <<groupVars, userRoles, reqVars, dirty>>

\* The role sync of the bot.
SetUserRoles(u, R) ==
    /\ R # userRoles[u]
    /\ userRoles' = [userRoles EXCEPT ![u] = R]
    /\ UNCHANGED <<groupVars, reqVars, dirty, loginVars, fresh>>

-----------------------------------------------------------------------------
ReqStep(q) ==
    \/ \E p \in Patches : CreateGroup(q, p)
    \/ \E g \in Gids : DeleteGroup(q, g)
    \/ \E g \in Gids, p \in Patches : PatchGroup(q, g, p) \/ ImportGroup(q, g, p)
    \/ InsertGroup(q) \/ ReadMembers(q) \/ UpdateGroupMeta(q) \/ UpdateRow(q)
    \/ ReplaceGroupMembership(q) \/ DeleteRow(q)
    \/ Answer(q) \/ StatementFails(q)

MemberStep ==
    \E g \in Gids :
        \/ \E u \in Users : AddGroupUser(g, u) \/ RemoveGroupUser(g, u)
        \/ \E r \in Roles : AddGroupRole(g, r) \/ RemoveGroupRole(g, r)

LoginStep(u) ==
    \/ EnsureUserInDefaultGroupIfNone(u)
    \/ EnsureDefaultGroup(u)
    \/ syncDefaultGroupBasePerms(u)
    \/ AddUserToDefault(u)
    \/ LoginEnds(u)

Next ==
    \/ \E q \in Reqs : ReqStep(q)
    \/ MemberStep
    \/ \E u \in Users : LoginStep(u)
    \/ \E u \in Users, R \in SUBSET Roles : SetUserRoles(u, R)

Spec == Init /\ [][Next]_vars

-----------------------------------------------------------------------------
(* Properties.                                                             *)

\* README.md:197: the Default group "cannot be deleted", grants the slash
\* commands and no web login, and its name and permissions are locked.
\* However requests, imports and logins interleave between their checks and
\* their writes by id, exactly one live group has the name and the base
\* permissions.
DefaultIsLocked ==
    /\ 1 \in live
    /\ \A g \in live : group[g].def <=> g = 1
    /\ group[1].web = None /\ group[1].cmds = Commands

\* Running a slash command or logging in never raises anybody's web access,
\* whatever requests are under way (oauth.go:88, bot.go:326): rights come
\* from an admin's request or from Discord.
LoginsGrantNoWebAccess ==
    [][(\E u \in Users : LoginStep(u))
        => \A v \in Users : webAccessLevel(v)' <= webAccessLevel(v)]_vars

\* A user whom EnsureUserInDefaultGroupIfNone has just put into Default may
\* run every slash command, unless somebody took it out again before the
\* check (bot.go:326-347).
AssignedMayRunCommands ==
    \A u \in fresh : lpc[u] = "check" =>
        \A c \in Commands : UserCanUseDiscordCommand(u, c)

\* The row that a request was to leave: what it names, and the rest as it was
\* when the request began.
Asked(q) == PatchedOver(q, was[q])

\* The request wrote a member list it was not given, from a read that came
\* short.
WroteShort(q, f) ==
    q \in short /\ f \notin patch[q].fields /\ patch[q].fields \cap MemberFields # {}

SameMeta(row, q) ==
    row.def = Asked(q).def /\ row.web = Asked(q).web /\ row.cmds = Asked(q).cmds
SameMembers(row, q) ==
    /\ row.users \subseteq Asked(q).users /\ row.roles \subseteq Asked(q).roles
    /\ ~WroteShort(q, "users") => row.users = Asked(q).users
    /\ ~WroteShort(q, "roles") => row.roles = Asked(q).roles

\* A PATCH or import that answers ok, and that nobody interfered with, leaves
\* exactly what it was given, and what it was not given as it was when the
\* request began (api.go:687-741). The permissions of Default are fixed, see
\* DefaultIsLocked. One exception: when the members query failed (store.go:471)
\* a request that names the users or the roles may lose members of the other
\* list. It never adds any.
PatchIsExact ==
    \A q \in Reqs \ dirty :
        pc[q] = "done" =>
            /\ SameMembers(group[gid[q]], q)
            /\ gid[q] # 1 => SameMeta(group[gid[q]], q)

-----------------------------------------------------------------------------
(* The inductive invariant of GroupsProofs: what requests and logins hold  *)
(* between their checks and their writes stays right until they write.     *)

RequestsInv ==
    \A q \in Reqs :
        /\ pc[q] = "insert" => ~patch[q].row.def /\ patch[q].row.web \in None..Admin
        /\ pc[q] = "read" => gid[q] # 0
        /\ pc[q] = "delete" => gid[q] # 1
        /\ pc[q] = "update" => (meta[q].def <=> gid[q] = 1)
        /\ pc[q] = "update" /\ gid[q] = 1 => meta[q].web = None /\ meta[q].cmds = Commands

LoginsInv == \A u \in Users : lpc[u] \in {"sync", "add"} => lgid[u] = 1

GroupsIInv == TypeOK /\ DefaultIsLocked /\ RequestsInv /\ LoginsInv

\* Whom a login has just put into Default is in it.
FreshInv == fresh \subseteq group[1].users

\* What a request has read of the fields that it was not given is what they
\* were when it began; of the members it may be less.
MetaRead(q) ==
    /\ "name" \notin patch[q].fields => cur[q].def = was[q].def
    /\ "web" \notin patch[q].fields => cur[q].web = was[q].web
    /\ "cmds" \notin patch[q].fields => cur[q].cmds = was[q].cmds
MembersRead(q) ==
    /\ "users" \notin patch[q].fields =>
        cur[q].users \subseteq was[q].users /\ (q \notin short => cur[q].users = was[q].users)
    /\ "roles" \notin patch[q].fields =>
        cur[q].roles \subseteq was[q].roles /\ (q \notin short => cur[q].roles = was[q].roles)

\* The row still has them.
MetaKept(q) ==
    LET row == group[gid[q]] IN
    /\ "name" \notin patch[q].fields => row.def = was[q].def
    /\ "web" \notin patch[q].fields => row.web = was[q].web
    /\ "cmds" \notin patch[q].fields => row.cmds = was[q].cmds
MembersKept(q) ==
    LET row == group[gid[q]] IN
    /\ "users" \notin patch[q].fields => row.users = was[q].users
    /\ "roles" \notin patch[q].fields => row.roles = was[q].roles

\* How far a request has come. The permissions of Default are not its own.
ProgressInv(q) ==
    /\ pc[q] \in {"read", "check", "update", "members", "done"} => gid[q] # 0
    /\ pc[q] \in {"read", "check"} => MetaRead(q)
    /\ pc[q] = "members" => patch[q].fields \cap MemberFields # {}
    /\ q \notin dirty =>
        /\ pc[q] = "read" => MetaKept(q)
        /\ pc[q] \in {"read", "check", "update", "members"} => MembersKept(q)
        /\ pc[q] \in {"check", "update", "members"} => MembersRead(q)
        /\ pc[q] = "update" /\ gid[q] # 1 => SameMeta(meta[q], q)
        /\ pc[q] \in {"members", "done"} /\ gid[q] # 1 => SameMeta(group[gid[q]], q)
        /\ pc[q] = "done" => SameMembers(group[gid[q]], q)

PatchIInv == \A q \in Reqs : ProgressInv(q)
=============================================================================
