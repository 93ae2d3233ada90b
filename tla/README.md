# A TLA+ model of alfred-identity-backend

Alfred keeps the EverQuest accounts of a guild. A Discord bot and a web UI
administer users, groups and accounts; a desktop client logs in over a WebSocket
with a personal token, asks for an account, and lets the backend put the
credentials into the login packets. One PostgreSQL database is shared by the
processes `web`, `bot` and `seedtoken`; the hub, the presence tracker and the
relays live in the memory of the web process.

This directory holds the model of the parts where several goroutines or
processes meet over shared state, the TLC runs that check it, and the TLAPS
proofs of what matters most.

## Inventory

| component | state | operations | meets | modelled in |
|---|---|---|---|---|
| SSO tokens (`store.go`, `bot.go`, `cmd/seedtoken`) | `api_tokens`, `users.access_revoked` | `CreateToken`, `RevokeToken`, `ActiveToken`, `UserByToken` | bot, seedtoken, hub, web UI, each in its own statement | `SsoSession`, abstractly `TokenVault` |
| Sessions of the hub (`hub.go`) | `Hub.clients`, locals of `ServeHTTP` | accept, auth, register, unregister, `disconnectUser`, `admin_set_user_access` | one goroutine per socket, web requests, backup import | `SsoSession` |
| Presence (`presence.go`, `hub.go`) | `Tracker.m` | `Touch`, `Clear`, `ClearUserExcept`, `IsBusy`, `Online` | heartbeats, logins, deletion of accounts, status views | `Presence`, abstractly `PresenceBoard` |
| Login candidates (`hub.go`, `store.go`) | none of its own | `pickLoginCandidate` | presence and access rules | `Presence` |
| UDP login relay (`hub_relay.go`) | `client.relay`, `udpRelay` | `relayFor`, `relayReadLoop`, `closeRelay`, typed retry | session goroutine, `disconnectUser`, login server | `LoginRelay` |
| Account access (`store.go`, `restricted_manage.go`, `api.go`, `csv.go`, `backup.go`) | `eq_accounts`, `account_access_roles`, `account_access_users`, `account_shares`, `account_group_links` | `AllowedAccountIDs`, `SetAccountAccess`, `ShareLocalAccount`, `UnshareLocalAccount`, delete, imports, group links | desktop clients, admins, imports, statement by statement | `AccountAccess` |
| Account names (`store.go`, `api.go`, `hub.go`) | `eq_accounts`, `aliases`, `account_tags`, `characters` | `AddEQAccount`, `DeleteEQAccount`, `AddAlias`, `AddTag`, `AddCharacter` and their removal | web UI, `admin_*` messages, `share_account`, both imports | `AccountNames` |
| Groups and the Default group (`store.go`, `api.go`) | `account_groups`, `group_members` | `EnsureDefaultGroup`, `EnsureUserInDefaultGroupIfNone`, `CreateGroup`, `UpdateGroupMeta`, `ReplaceGroupMembership`, `DeleteGroup` | bot, web logins, web UI, backup import | `Groups` |
| Role sync (`bot.go`) | `users.role_ids_json` | paged sync, member update and remove, `UpsertUser` of commands and logins | Discord, the gateway, the backup import | `RoleSync` |
| Broadcast and live sockets (`hub.go`, `live.go`) | users cached in `Hub.clients` and `Server.live` | `broadcastFullState`, `sendFullState`, `broadcastLiveState`, `pushStateTo` | every change of state, `register`, `disconnectUser` | `StateBroadcast` |
| Web access (`access.go`, `discord_commands.go`) | none of its own | `webAccessLevel`, `UserCanUseDiscordCommand` | groups, roles, revocation | `Groups`, `StateBroadcast` |
| Web sessions (`session.go`, `oauth.go`) | cookies, OAuth state | login, logout | Discord | the effects of a login in `RoleSync` and `Groups` |
| Backup and CSV (`backup.go`, `csv.go`) | none of their own | import row by row | everything above | in the modules of what they change |
| Metrics, encryption, login packets, notifications, configuration, SPA | | | | not modelled, see below |

What is hard here:

- **No transactions.** Handlers run several statements one after the other and a
  failure ends them in the middle; other processes write between the statements.
- **Check, then act.** The user, the owner of an account and the flag
  `access_revoked` are read in one step and used in a later one.
- **Locks that are left between calls.** The hub takes sessions out of
  `Hub.clients` under the lock and closes them after it; a heartbeat enters the
  tracker twice; `relayFor` binds a socket between two sections.
- **Late answers.** The login server may refuse an attempt when the next one has
  already begun.
- **Copies.** Roles, user rows and groups are read at one moment and written, shown
  or decided on at another: by the pages of the role sync, by sockets, by requests.
- **Errors that are dropped.** Some queries and writes that fail change nothing in the
  answer: lists come back short, tables stay empty, and the client is told ok.
- **Peers.** Most writes to a desktop socket have no deadline and hold its `writeMu`.
- **Crashes** of the web process lose the hub and keep the database.

The properties that make each part correct:

- tokens: one usable secret per user, a withdrawn secret never works again;
- sessions: a revoked user's sessions end; `Hub.clients` has no dead entries;
- presence: an account is online for exactly the TTL after the last heartbeat, a
  user plays one account at a time, `all_busy` is true when it is said, who loses
  an account goes offline on it;
- relay: a session leaves no socket behind, a typed login is sent at most once and
  only when the login of the vault was refused;
- access: a private share is written by its owner only and never changes hands;
  the answer ok means that the grants are the ones asked for; nobody gains access
  while grants are rewritten;
- names: an alias, a character or a username means one account; an import says so
  when it did not do all of a row;
- groups: there is one Default group, with the base permissions; a PATCH changes what
  it names; nobody gains web access by logging in;
- roles: the cache follows the guild; who stayed in the guild is not cleared;
- screens: every change reaches every client and every tab; the admin part of a
  state goes to admins.

`PROJECT.json` lists the hazards with the line each of them is at.

## Modules

Granularity: an action is one SQL statement, or one section under a mutex, with
the local computation around it. That is where processes and goroutines
interleave. A handler is a program counter that walks through its statements. An
early return is a disjunct that goes back to `idle`.

**`SsoSession`**: issuers walk `check`, `rotate`, `insert` (`CreateToken`);
a connection walks `reading`, `lookup`, `admitted`, `replaced`, `reading`
(`ServeHTTP`: the two queries of `UserByToken`, the `unregister` of a repeated
auth, `register`) and `leaving` (the deferred `unregister`); an executor of a
revocation, which is a session's goroutine or a web request, walks `flagged`,
`killed`, `closing` (`SetUserAccessRevoked`, then `disconnectUser`). `CloseOne` writes the
error frame to a socket before it closes it, without a deadline; nothing in `Fairness`
says that it is ever taken for an open socket. `Crash`
clears what the web process has in memory. The history variable `missed` marks
sessions that `disconnectUser` could not see when the flag was written.
**`TokenVault`** is its abstract specification for the tokens: one slot per user.

**`Presence`**: `Touch`, `Clear`, `ClearUserExcept` and `expireLocked` are
operators over `owner` and `age`; heartbeats walk `clear`, `touch`; a login with
a tag walks `scan`, one `IsBusy` at a time. `LastSeen` is kept as an age capped
at the TTL, as only the comparison with the TTL is ever computed. What
`AllowedAccountIDs` returns is a variable that changes at any time.
**`PresenceBoard`** is its abstract specification: entries that expire in the
very tick they are due, and readers that never change anything.

**`LoginRelay`**: one session with its goroutine (`connPc`), a `disconnectUser`
(`discPc`) and one read loop per relay (`loop`). A packet is its login attempt's
number; `fallback`, `used` and `retry` are the fields and the local around
`takeTypedRetry`. `LoopPanics` is the unguarded read of `rel.conn`: the field
may be nil by then, and nothing recovers the panic.

**`AccountAccess`**: one username; `row` is its id, which changes when the
account is deleted and created again, so that a handler may hold a stale id. A
handler has a `plan`, the tables it rewrites in the order of the code, and works
through it with `DeleteGrants`, `InsertGrant` and `NextTable`, then says ok (`Answer`).
`StatementFails` may happen to any statement, and `onError` says what follows: the
handler ends with an error, or drops it and says ok (the role of POST accounts, the
second pass of the backup import), or goes on to that second pass (`ImportAgain`). A
PATCH merges the fields it does not name from reads that may come short (`ReadsOf`).
`lost` collects the tables whose error was dropped. `AllowedBy` is the WHERE clause of `AllowedAccountIDs`. Roles of
users and members of groups are constants. `dirty` and `before` are history.

**`RoleSync`**: the guild, the column `role_ids_json`, and everything that writes
it. `writes` and `pending` are calls of `SetUserRoles` and `UpsertUser` whose
arguments were read earlier, in any order, as discordgo runs each handler in its
own goroutine. `syncMemberRoles` walks `fetch`, `set`, `clear`; a page is the
`PageSize` smallest ids above `after` at the moment it is fetched. `steady`,
`failed` and `quiet` are histories of the pass.

**`Groups`**: a row of `account_groups` with its members is a record; a name is
reduced to whether it is the reserved one. A request keeps what it read (`cur`), the
row it is going to write (`meta`) and its group's id, and walks `check`, `update`,
`members`. Between the first two it reads the members, and gets any part of them when
the query or the scan of a row fails (`ReadMembers`); `short` remembers that, and `was` the group as it was
when the request began. A login walks `find`, `sync`, `add`. `webAccessLevel` and
`UserCanUseDiscordCommand` are the decisions that others take from the tables.
`Authorized` does not look at `access_revoked`, so more requests are let through than
in the code.

**`StateBroadcast`**: the payload of a push is a version number, whether it has the
admin part, and whether the user was re-read for it. A goroutine is that of a
connection, of a tab or of a request; `at` and `todo` are its place in the two loops.
The row a tab was opened with stays in `row`, as in `Server.live`. A query of
`sendFullState`, or below `buildState`, whose error is dropped gives a payload that is not `whole`. `missed` records pushes
that failed or came without a part, for which the code has no second attempt. `due` and
`dueTabs` are the last changes that the code sets out to tell clients and tabs about: a
heartbeat is only told to tabs, and a handler that fails after its first statement
(`ChangeHalf`) tells nobody. `AtPeer` is a goroutine that writes to an open desktop
connection or waits for its `writeMu`. `lately` is history.

**`AccountNames`**: `user` and `table` are the rows; a request walks through the
tables with `load`, `remove`, `add`, `insert`, and `mode` says how it treats an
error: a CSV row goes on, a backup row gives up the list, `share_account` ignores it.
`TablesAccept` are the indexes and the foreign key. `dirty` and `failed` are histories.

The modules share tables but not variables: what one of them does to a table that
another one is about is there an action whose inputs are arbitrary (`SetUserRoles`
in `Groups` and `StateBroadcast`, the roles and memberships that `AccountAccess`
takes as constants, the changes of `AllowedAccountIDs` in `Presence`).

`MC*.tla` give instances for TLC where a cfg alone does not. The modules `*Proofs`
hold the theorems. Operators whose comment says *Mutant of* are
plausible bugs of the code they name; a run with the mutant in place of the
original violates the property it is listed with in `PROJECT.json`.

## Runs

| run | instance | shows |
|---|---|---|
| `session` | 2 users who may both administer, 2 connections, 1 issuer, 1 web request, 2 tokens | `RevokedSessionsAreMissed`, `ClientsAreServed`: after a revocation only the sessions it could not see survive; no dead entries |
| `session_live` | 2 users, 1 connection, 2 issuers, 1 web request, crashes, failing statements | `RevokedSessionsAreMissed`, `VaultSpec`: the table implements one slot per user; `RevokedSessionEnds`, if peers read or go away |
| `session_race` | as above, no import, no crash | violated: `RevokedSessionsClosed` |
| `presence` | 2 users, 2 accounts, 2 connections of different users, TTL 1 | `OneBoxPerSoloUser`, `BoardSpec`, `AllBusyIsJust`, `WithdrawnGoesOffline` |
| `relay` | 2 relays, 3 logins | `OrphansAreLate`, `RetryIsSingleShot`, `RelayLoopEnds` |
| `access` | 2 users, 1 role, 1 group, 2 handlers, 2 rows, 1 request with a grant in every table, writes and reads that fail | `ShareHoldsOwnRow`, `SuccessIsExact`, `PrivateIsNeverWider`, `OwnershipIsStable` |
| `access_window` | 1 handler, `REQUIRE_ACCOUNT_ACL` on | violated: `GrantedIsNeverWider` |
| `role_sync` | 2 members, 1 role, pages of 1, 2 changes, 1 fault, 1 call under way | `SteadyMembersAreCovered`, `QuietPassIsExact`, `RolesConverge` |
| `groups` | 1 user and a bootstrap admin, 1 role, 2 requests, 3 bodies, 2 groups, reads that come short | `DefaultIsLocked`, `PatchIsExact`, `AssignedMayRunCommands`, `LoginsGrantNoWebAccess` |
| `broadcast` | 1 user, 1 desktop connection, 1 tab, 1 request, 2 events | `AdminStateNeedsRole`; `ChangesReachClients` and `ChangesReachTabs`, if peers read |
| `live_revoked` | the same | violated: `RevokedHaveNoTab` |
| `names` | 2 rows of accounts that want the same names, 2 requests, 1 failing statement | `OneAccountPerName`, `NamesHaveAccounts`, `SilentImportIsComplete`, `BackupRowIsExact` |

The largest are `session` (1.8 million states), `access` (1.1 million) and `names` (1.0
million); each takes less than five minutes with two workers. `groups` and `access`
use a `VIEW` that leaves out what a dirty request's histories (`was` and `short`,
`lost`) hold: a request stays dirty until it returns, which resets them, no guard
reads them and the properties ignore dirty requests, so states that differ only
there have the same future.

Bounds and why they are enough: two users let one revoke the other and let two
owners compete for a username; two connections are needed for a revocation that
closes one and misses the other; two issuers with a token each rotate at the same
time; a TTL of one tick has an age below and one at the boundary, where `>=` and `>`
differ; three logins let a refusal of the first meet the second and the third;
two rows give a handler an id that names nothing and an id that names another
row. The request of `access` has a grant in every table. The CSV row, the two forms of the
backup row, the accounts added without a role and the PATCH that leaves a field out ask
for other parts of it, so that what is left of an earlier handler shows. Pages of one member make every boundary between two members the
boundary of a page, and the last page empty; two changes are a leave and a join
around it, or two events whose handlers swap. Two groups are Default and one more
that competes for its name and is deleted and written by id. In `broadcast` a tab, a
connection and a request are the three kinds of goroutine that push, all of them to
the sockets of one user, and two events let a change meet a failure or another
change. In `names` both rows want one alias, so that a question of one request meets
the insert of the other, and the web UI adds a character that no row names, which a
backup import must remove. Safety does not depend on these bounds: every invariant of
a passing run is proved for all values of the constants, see below.

Deadlock is not checked for the relay, whose session ends with its bounded numbers of
relays and logins, and for the broadcast, whose sockets are used once and whose events
are bounded.

Fairness: weak fairness of each goroutine's next step where it waits for no peer,
because the Go scheduler runs what can run and a statement ends or fails; weak fairness
of `Tick`, because time passes. Nothing is assumed of admins, packets or the login server.
In `relay` the read loop wakes up by its deadline, and `closeRelay` comes before any
write to the peer. In `role_sync` the ticker starts a
pass again and again, and the handlers of events run; that the guild changes and calls
fail finitely often is the bound of the instance, and what *when it stays as it is*
means in `RolesConverge`.

Desktop peers owe nothing either, not even to read: pings, replies and the error frame of
`disconnectUser` are written without a deadline under `writeMu` (`hub.go:153`, `167`,
`975`, `1091`), and a broadcast waits for `writeMu` without one (`hub.go:1142`). The
fairness of `session_live` and of `broadcast` therefore leaves out every step that writes to
an open desktop connection or waits for its `writeMu`; it has the queries, the writes to tabs,
whose deadline is theirs alone, and writes to closed sockets, which fail. That peers read or
go away is the premise `PeersRead` *inside* `RevokedSessionEnds`, `ChangesReachClients` and
`ChangesReachTabs`. It is needed: one peer that never reads keeps `disconnectUser` and the
broadcast from going on, and the tabs from being told at all.

## What disagrees with the documentation

1. `session_race`: a session between `UserByToken` and `register` survives the
   revocation of its user; `docs/ws-api.md` says that the sessions are closed.
2. `access_window`: an account that goes from one set of grants to another has none
   in between, which `AllowedAccountIDs` takes for *all*; a failing statement leaves
   it so.
3. `live_revoked`: a tab of the web UI that is open when its user is revoked stays in
   `Server.live` and is sent every change; `docs/web-admin.md` says that revoked users
   cannot use the web UI.

Others were met while modelling; the models contain them, and their properties state
what does hold:

- the refusal of an earlier attempt may take the fallback of the next login before
  that was sent with the credentials of the vault (`hub_relay.go:128`);
- a share is an open account until its second statement has run, and stays one if
  that fails (`store.go:2261`);
- group links and imports change the grants of a private share, which
  `restricted_manage.go` says are refused outside of `share_account` (`api.go:830`);
- a member whose roles could not be stored stays in `byDiscord` and has them cleared
  by the same pass (`bot.go:204`), hence the exception in `SteadyMembersAreCovered`;
- pushes of two broadcasts overlap and may arrive in the other order (`hub.go:1144`); one deadline of
  five seconds covers all the clients of a broadcast; the role sync broadcasts nothing;
- a backup row whose alias belongs to another account first removes the aliases its
  own account had and then gives the list up (`backup.go:462`), which it reports;
  `share_account` ignores aliases that are taken (`store.go:2270`);
- a PATCH of a group that names only the roles writes the users back as it read them;
  `ListGroupDetails` drops the error of the members query (`store.go:471`), so that the
  members may be lost and the answer be ok (`api.go:719-731`): the exception
  `WroteShort` in `PatchIsExact`;
- errors are dropped and the answer is ok: of the role of a new account (`api.go:241`), of
  the reads that a PATCH of an account merges its unnamed fields from, which wipes grants
  (`api.go:317-322`), of the group links in a backup (`backup.go:449`), of the users in
  `share_account` (`store.go:2252`): the tables in `lost`, which `SuccessIsExact` excepts;
- a peer that does not read holds up `disconnectUser` and every broadcast
  (`hub.go:1091`, `1142`): `PeersRead`;
- a handler that fails after a statement that stays does not broadcast it
  (`api.go:352-356`, `726-730`, `hub.go:379-394`), and a `full_state` may lack parts whose
  query failed (`hub.go:1033-1049`): `due` and `missed` in `ChangesReachClients`;
- two tag logins at the same time may get the same account, as nothing reserves it
  before its first heartbeat (`hub.go:1174`); deleting the only group of an account
  leaves the account without grants, available to all (`store.go:819`);
- an alias may spell the username or the character of another account: the lookup of
  a login then takes the account with the lowest id.

`CreateToken` may insert its row after the active tokens of a revoked user were
killed; `RevokedSessionsAreMissed` covers it, as the row opens no session while the
flag is set (it does once access is restored). Two connections of one user can
interleave the two sections of their heartbeats and leave two accounts online
although `presence.go` speaks of one per user; `OneBoxPerSoloUser` is therefore about
users with one connection.

## Proofs

For all values of the constants, under the assumptions named in the modules
(`SessionAssumption`, `PresenceAssumption`, `RelayAssumption`, `RoleSyncAssumption`,
`GroupsAssumption`, `NamesAssumption`, `AccessAssumption`, `BroadcastAssumption`: the markers `NoUser` and the like are not elements
of the sets, bounds and sizes are numbers, Discord ids are positive numbers, bodies and
rows have the fields of the code, connections, tabs and requests are different things,
and each socket has a user). No theorem assumes anything about fairness or about how
many processes there are.

`SsoSessionProofs`: `TypeCorrect`, `ClientsServed`, `RevocationIsComplete`,
`OneTokenPerUser`, `VaultImplemented`. `RevokedSessionsAreMissed` is not inductive:
it does not say why a session that was not missed is going to be closed while the
revocation is still running. `SessionIInv` adds `SessionsAreFindable` (an
authenticated session outside of a handshake is in `Hub.clients` or in the list of
a `disconnectUser`) and `RevocationReaches` (a session of a revoked user that was not
missed is in such a list, or in `Hub.clients` with its collection still to come).
`LocalsInv` ties program counters to locals. The refinement needs `OneLiveToken`, which
the unique index keeps, so that the slot of a user is well defined.

`PresenceProofs`: `TypeCorrect`, `OneBox`, `AllBusyJustified`, `BoardImplemented`.
`PresenceIInv` adds `ClearedInv` (between the two sections of a heartbeat the user has
no other account), `ScanInv` (an account that stayed offline was not passed over)
and `HandlersInv`. The board is the tracker with the expired entries hidden.

`LoginRelayProofs`: `TypeCorrect`, `OnlyLateOrphans`, `SingleShot`. `RelayIInv` says who is to close an
open relay (`OpenRelaysAreHeld`, `CloserInv`) and that a login is in one place only:
kept, about to be retried, or sent (`TypedInv`).

`RoleSyncProofs`: `TypeCorrect`, `SteadyCovered`, for every page size. The invariant adds
`CoverInv`: a listed user who never left is above the cursor, or waits on the page in
hand, or could not be stored; above the cursor only while another page is to come.
The step that matters is the lemma `PageCovers`: a page that is not full has
everybody above the cursor, and a full one everybody up to its last member, whoever
joined or left before. `QuietExact` needs two more facts. `QuietInv` says that in a pass
that nothing has disturbed the page in hand is what the guild holds and that whoever has
left `byDiscord` has the right roles; `OutsideInv` that nobody outside of the guild has
roles, which is what makes clearing the rest right.

`GroupsProofs`: `TypeCorrect`, `DefaultLocked`, `LoginsGrantNothing`. A request that checked
the name writes by id later; `RequestsInv` says that what it holds is still right then
(a request about to delete does not hold the id of Default, one about to update holds
the reserved name exactly for Default, one about to insert does not hold it), and
`LoginsInv` that a login holds the id of Default. The web access theorem is an action
property from the same invariant. `AssignedMayRun` adds that whoever a login has just put into
Default is in it (`FreshInv`); that Default still allows all commands is `DefaultLocked`.
`PatchExact` is about a handler of four statements. `ProgressInv` says for each place in it
which columns are still as they were when the request began, and which have been written:
first the table and what was read are as they were (`MetaRead`, `MembersRead`), then the row
about to be written has them, then the table (`MetaKept`, `MembersKept`). The members that
were read are a part of those that there were, and all of them unless the request is in
`short`; hence a PATCH that read too few may lose members and never adds any. Any write by
somebody else makes the request dirty, and nothing is claimed of it.

`AccountNamesProofs`: `TypeCorrect`, `NamesUnique`, `NamesAttached`. The indexes and the foreign
key are asked by the insert itself, so the two facts are inductive with the types.
`SilentImportComplete` and `BackupRowExact` need an invariant on the way of a row through
the tables: without an error so far the tables behind are complete and the current one
lacks at most the names still to be added (`ImportInv`); without a failure as well the
tables behind have no other names, and the current one only those that are about to be
removed (`BackupInv`). The proof has one lemma for the requests that do not move, whose
account another step may only change by making them dirty, and one for each step.

`AccountAccessProofs`: `TypeCorrect`, `ShareHolds`, `PrivateNeverWider`, `SuccessExact`,
`OwnershipStable`. Ids and rows are tied together by `RowInv` (a username without a row has no
grants) and `PublisherInv` (a row that its creator has not published yet is not restricted,
and nobody else will publish it), without which a second `share_account` might take a share
over. `ShareHolds` covers every write of `share_account` and the delete of `unshare_account`.
`CurrentInv` says that a handler nobody interfered with holds the id of the row, also when the
second pass of the backup import looks it up again. `ProgressInv` says what the tables hold
that a handler is through with, but for those in `lost`, up to its answer, which is what
`SuccessExact` is about; `BeforeInv` says
that until `share_account` writes nobody may use the account who could not when it began;
`PrivateIsNeverWider` follows from that for the moment of the write, and from itself and
`ProgressInv` for the tables after it.

`StateBroadcastProofs`: `TypeCorrect`, `AdminStateFresh`. The row that a push has read is used
several steps later, through the copy in `Hub.clients` that other pushes overwrite.
`SendingInv` says that this row, and then the copy, is that of a user who held the role lately;
`GreetingInv` says the same of the row that came with the token, from the authentication to
the first full_state. Both hold only while a goroutine is under way. The argument is
that such a goroutine keeps the system from being quiet, so that nobody leaves
`lately` before it has written (`TrackLasts`, `UntouchedSound`), and that a copy is only ever
overwritten with a row that is fresh itself (`CopiesFresh`).

Only model-checked: what must eventually happen (`RevokedSessionEnds`, `WithdrawnGoesOffline`,
`RelayLoopEnds`, `RolesConverge`, `ChangesReachClients`, `ChangesReachTabs`), because the prover
has no rules for fairness; and the three properties that the code violates. The inductive
invariants were also checked with TLC on the instances of the runs before they were proved.

## Not modelled, and why

- encryption and login packets (bytes, CRC, DES): data that no property of the
  control tells apart;
- metrics: rows are inserted and deleted by age, nothing decides by them;
- notifications: messages without state;
- configuration, start-up, health: run once or stateless;
- the single-page application and link formatting: presentation;
- when a write to a peer that does not read begins to block, which depends on TCP buffers:
  any write to an open desktop connection may never return, see Fairness;
- OAuth and cookies: signed values that the client carries; the server keeps nothing
  of them that two requests could disagree about;
- passwords, notes, `disabled` and the settings: single columns, overwritten as given;
- exports, listings and statistics: they read only;
- registration of slash commands and texts of answers: formatting.

## Plan

1. Done: `SsoSession`, `TokenVault`, `Presence`, `PresenceBoard`, `LoginRelay`,
   `AccountAccess`, `RoleSync`, `Groups`, `StateBroadcast`, `AccountNames`, and a theorem for
   every invariant and every action property that their runs check.
2. Next: what the code guarantees in place of the three properties it violates, as theorems,
   beyond `RevokedSessionsAreMissed`: for `access_window` the part of a rewrite during which an
   account is open, for `live_revoked` that a tab opened after the revocation does not exist.
3. The facts about steps from which the liveness properties follow, such as that a session
   marked for closing stays marked until it is closed.
