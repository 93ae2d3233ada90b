------------------------------ MODULE RoleSync ------------------------------
(***************************************************************************)
(* The cache of Discord roles in users.role_ids_json and everybody who     *)
(* writes it: the periodic role sync of the bot, the handlers of gateway   *)
(* events, slash commands, web logins and the import of a backup.          *)
(*                                                                         *)
(* Every writer reads the roles at one moment and stores them at another.  *)
(* The sync reads the guild page by page, 1000 members at a time, and      *)
(* stores member by member; at the end it clears the roles of every known  *)
(* user that no page contained. discordgo runs each event handler in a     *)
(* goroutine of its own, so events are handled in any order.               *)
(***************************************************************************)
EXTENDS Naturals, FiniteSets

CONSTANTS
    Members,     \* Discord ids, numbers because pages are ordered by id
    Roles,
    PageSize,    \* 1000 in the code
    MaxChanges,  \* bound on changes of the guild and on imported rows
    MaxFaults,   \* bound on failed calls, lost events and restarts
    MaxPending   \* bound on commands and logins under way

ASSUME RoleSyncAssumption ==
    /\ Members \subseteq Nat \ {0}
    /\ IsFiniteSet(Members)
    /\ PageSize \in Nat \ {0}
    /\ MaxChanges \in Nat /\ MaxFaults \in Nat /\ MaxPending \in Nat

VARIABLES
    inGuild, guildRoles,  \* the guild, at Discord
    known, stored,        \* rows of users and their role_ids_json
    writes,               \* SetUserRoles calls that are still to come
    pending,              \* UpsertUser calls that are still to come
    pc, byDiscord, after, \* syncMemberRoles and its variables
    todo, page, lastPage, \* known members of the page still to be stored,
                          \* the page's roles, and whether it was short
    steady,               \* history: listed users in the guild ever since
    failed,               \* history: SetUserRoles failed in this pass
    quiet,                \* history: nothing else happened in this pass
    changes, faults

guildVars == <<inGuild, guildRoles>>
rowVars == <<known, stored>>
syncVars == <<pc, byDiscord, after, todo, page, lastPage>>
vars == <<guildVars, rowVars, writes, pending, syncVars,
          steady, failed, quiet, changes, faults>>

Write == [kind : {"update", "remove", "import"}, who : Members, roles : SUBSET Roles]
Upsert == [who : Members, roles : SUBSET Roles]

TypeOK ==
    /\ inGuild \subseteq Members
    /\ guildRoles \in [Members -> SUBSET Roles]
    /\ known \subseteq Members
    /\ stored \in [Members -> SUBSET Roles]
    /\ writes \subseteq Write
    /\ pending \subseteq Upsert
    /\ pc \in {"idle", "fetch", "set", "clear"}
    /\ byDiscord \subseteq known
    /\ after \in Nat
    /\ todo \subseteq byDiscord
    /\ page \in [Members -> SUBSET Roles]
    /\ lastPage \in BOOLEAN
    /\ steady \subseteq known
    /\ failed \subseteq known
    /\ quiet \in BOOLEAN
    /\ changes \in 0..MaxChanges
    /\ faults \in 0..MaxFaults

NoRoles == [m \in Members |-> {}]

\* The bot starts with whatever the table and the guild hold.
Init ==
    /\ inGuild \in SUBSET Members
    /\ guildRoles \in [Members -> SUBSET Roles]
    /\ \A m \in Members \ inGuild : guildRoles[m] = {}
    /\ known \in SUBSET Members
    /\ stored \in [Members -> SUBSET Roles]
    /\ \A m \in Members \ known : stored[m] = {}
    /\ writes = {} /\ pending = {}
    /\ pc = "idle" /\ byDiscord = {} /\ after = 0
    /\ todo = {} /\ page = NoRoles /\ lastPage = FALSE
    /\ steady = {} /\ failed = {} /\ quiet = FALSE
    /\ changes = 0 /\ faults = 0

Disturb == quiet' = FALSE
Change == changes < MaxChanges /\ changes' = changes + 1 /\ Disturb
Fault == faults < MaxFaults /\ faults' = faults + 1 /\ Disturb

-----------------------------------------------------------------------------
(* The guild, and the events that the gateway delivers. Nothing handles    *)
(* the event of a member who joins.                                        *)

Join(m, R) ==
    /\ m \notin inGuild
    /\ Change
    /\ inGuild' = inGuild \cup {m}
    /\ guildRoles' = [guildRoles EXCEPT ![m] = R]
    /\ UNCHANGED <<rowVars, writes, pending, syncVars, steady, failed, faults>>

SetGuildRoles(m, R) ==
    /\ m \in inGuild /\ R # guildRoles[m]
    /\ Change
    /\ guildRoles' = [guildRoles EXCEPT ![m] = R]
    /\ writes' = writes \cup {[kind |-> "update", who |-> m, roles |-> R]}
    /\ UNCHANGED <<inGuild, rowVars, pending, syncVars, steady, failed, faults>>

Leave(m) ==
    /\ m \in inGuild
    /\ Change
    /\ inGuild' = inGuild \ {m}
    /\ guildRoles' = [guildRoles EXCEPT ![m] = {}]
    /\ writes' = writes \cup {[kind |-> "remove", who |-> m, roles |-> {}]}
    /\ steady' = steady \ {m}
    /\ UNCHANGED <<rowVars, pending, syncVars, failed, faults>>

\* Mutant of SetUserRoles: an empty list keeps the cached roles, as in UpsertUser.
SetUserRolesUnlessEmpty(m, R) ==
    stored' = IF m \in known /\ R # {} THEN [stored EXCEPT ![m] = R] ELSE stored

\* UPDATE users SET role_ids_json=$2 WHERE id=$1: no row, no effect.
SetUserRoles(m, R) ==
    stored' = IF m \in known THEN [stored EXCEPT ![m] = R] ELSE stored

HandleWrite(w) ==
    /\ w \in writes
    /\ writes' = writes \ {w}
    /\ SetUserRoles(w.who, w.roles)
    /\ UNCHANGED <<guildVars, known, pending, syncVars, steady, failed, quiet, changes, faults>>

\* The handlers look the user up and store the roles of the event; a user
\* without a row is ignored.
onGuildMemberUpdate(w) == w.kind = "update" /\ HandleWrite(w)
onGuildMemberRemove(w) == w.kind = "remove" /\ HandleWrite(w)

\* An event that the gateway lost, or whose handler met an error.
LoseWrite(w) ==
    /\ w \in writes
    /\ Fault
    /\ writes' = writes \ {w}
    /\ UNCHANGED <<guildVars, rowVars, pending, syncVars, steady, failed, changes>>

-----------------------------------------------------------------------------
(* UpsertUser and its callers.                                             *)

\* An empty list keeps the roles the row has.
UpsertedRoles(m, R) == IF R = {} /\ m \in known THEN stored[m] ELSE R

UpsertUser(m, R) ==
    /\ known' = known \cup {m}
    /\ stored' = [stored EXCEPT ![m] = UpsertedRoles(m, R)]

Ask(m, R) ==
    /\ Cardinality(pending) < MaxPending
    /\ pending' = pending \cup {[who |-> m, roles |-> R]}
    /\ Disturb
    /\ UNCHANGED <<guildVars, rowVars, writes, syncVars, steady, failed, changes, faults>>

\* A slash command carries the roles of the member; outside the guild it
\* carries none.
onInteraction(m) == \E R \in {guildRoles[m], {}} : Ask(m, R)

\* A web login asks Discord for the member and stops for anybody else.
handleOAuthCallback(m) == m \in inGuild /\ Ask(m, guildRoles[m])

FinishUpsert(p) ==
    /\ p \in pending
    /\ pending' = pending \ {p}
    /\ UpsertUser(p.who, p.roles)
    /\ UNCHANGED <<guildVars, writes, syncVars, steady, failed, quiet, changes, faults>>

LoseUpsert(p) ==
    /\ p \in pending
    /\ Fault
    /\ pending' = pending \ {p}
    /\ UNCHANGED <<guildVars, rowVars, writes, syncVars, steady, failed, changes>>

\* The import of a backup row upserts the user and then sets the roles of
\* the row, which are as old as the backup.
importConfigBackup(m, R) ==
    /\ Change
    /\ UpsertUser(m, R)
    /\ writes' = writes \cup {[kind |-> "import", who |-> m, roles |-> R]}
    /\ UNCHANGED <<guildVars, pending, syncVars, steady, failed, faults>>

ImportSetRoles(w) == w.kind = "import" /\ HandleWrite(w)

-----------------------------------------------------------------------------
(* syncMemberRoles, one pass at a time (syncMu).                           *)

\* Mutant of WorthAPass: the loop of the ticker ends with the first error.
WorthAPassOnce == known # {} /\ faults = 0

\* With nobody to look for there is no pass.
WorthAPass == known # {}

ListUsersForRoleSync ==
    /\ pc = "idle"
    /\ pc' = IF WorthAPass THEN "fetch" ELSE "idle"
    /\ byDiscord' = known
    /\ steady' = known \cap inGuild
    /\ quiet' = (known # {} /\ writes = {} /\ pending = {})
    /\ UNCHANGED <<guildVars, rowVars, writes, pending, after, todo, page, lastPage,
                   failed, changes, faults>>

\* The pass returns and its variables are gone.
EndPass ==
    /\ pc' = "idle"
    /\ byDiscord' = {} /\ after' = 0 /\ todo' = {}
    /\ page' = NoRoles /\ lastPage' = FALSE
    /\ steady' = {} /\ failed' = {} /\ quiet' = FALSE

\* GuildMembers(after, PageSize): the PageSize smallest ids above after, or
\* all of them when they are fewer.
IsPage(P) ==
    LET rest == {m \in inGuild : m > after} IN
    /\ P \subseteq rest
    /\ \A m \in P, n \in rest \ P : m < n
    /\ Cardinality(P) <= PageSize
    /\ P # rest => Cardinality(P) = PageSize

\* Where the loop over a page goes when nothing of it is left.
AfterPage(left, short) == IF left # {} THEN "set" ELSE IF short THEN "clear" ELSE "fetch"

\* Mutant of NextAfter: the cursor moves past the member after the last one.
NextAfterSkips(last) == last + 1

\* after = members[len(members)-1].User.ID
NextAfter(last) == last

\* len(members) < 1000, or no member at all
ShortPage(P) == Cardinality(P) < PageSize

\* Mutant of KnownOf: members without a row are stored as well.
KnownOfAll(P) == P

\* The members of a page that are among the listed users.
KnownOf(P) == P \cap byDiscord

FetchPage(P) ==
    /\ pc = "fetch"
    /\ IsPage(P)
    /\ \/ P = {} /\ after' = after
       \/ \E last \in P : (\A n \in P : n <= last) /\ after' = NextAfter(last)
    /\ todo' = KnownOf(P)
    /\ page' = [m \in Members |-> IF m \in todo' THEN guildRoles[m] ELSE {}]
    /\ lastPage' = ShortPage(P)
    /\ pc' = AfterPage(todo', lastPage')
    /\ UNCHANGED <<guildVars, rowVars, writes, pending, byDiscord,
                   steady, failed, quiet, changes, faults>>

\* A page that cannot be fetched ends the pass and clears nobody.
FetchFails ==
    /\ pc = "fetch"
    /\ Fault
    /\ EndPass
    /\ UNCHANGED <<guildVars, rowVars, writes, pending, changes>>

First(m) == m \in todo /\ \A n \in todo : m <= n

SetMember(m) ==
    /\ pc = "set" /\ First(m)
    /\ SetUserRoles(m, page[m])
    /\ todo' = todo \ {m}
    /\ byDiscord' = byDiscord \ {m}
    /\ pc' = AfterPage(todo', lastPage)
    /\ UNCHANGED <<guildVars, known, writes, pending, after, page, lastPage,
                   steady, failed, quiet, changes, faults>>

\* A failed statement skips the member, who stays in byDiscord.
SetMemberFails(m) ==
    /\ pc = "set" /\ First(m)
    /\ Fault
    /\ todo' = todo \ {m}
    /\ failed' = failed \cup {m}
    /\ pc' = AfterPage(todo', lastPage)
    /\ UNCHANGED <<guildVars, rowVars, writes, pending, byDiscord, after, page, lastPage,
                   steady, changes>>

\* What is left of byDiscord, in the order of a Go map.
ClearNonMember(m) ==
    /\ pc = "clear" /\ m \in byDiscord
    /\ SetUserRoles(m, {})
    /\ byDiscord' = byDiscord \ {m}
    /\ UNCHANGED <<guildVars, known, writes, pending, pc, after, todo, page, lastPage,
                   steady, failed, quiet, changes, faults>>

ClearFails(m) ==
    /\ pc = "clear" /\ m \in byDiscord
    /\ Fault
    /\ byDiscord' = byDiscord \ {m}
    /\ UNCHANGED <<guildVars, rowVars, writes, pending, pc, after, todo, page, lastPage,
                   steady, failed, changes>>

FinishSync ==
    /\ pc = "clear" /\ byDiscord = {}
    /\ EndPass
    /\ UNCHANGED <<guildVars, rowVars, writes, pending, changes, faults>>

\* The bot is stopped or dies: the pass and the handlers under way are gone.
Restart ==
    /\ Fault
    /\ EndPass
    /\ writes' = {} /\ pending' = {}
    /\ UNCHANGED <<guildVars, rowVars, changes>>

-----------------------------------------------------------------------------
SyncStep ==
    \/ ListUsersForRoleSync
    \/ \E P \in SUBSET Members : FetchPage(P)
    \/ \E m \in Members : SetMember(m) \/ ClearNonMember(m)
    \/ FinishSync

HandlerStep ==
    \/ \E w \in writes : onGuildMemberUpdate(w) \/ onGuildMemberRemove(w) \/ ImportSetRoles(w)
    \/ \E p \in pending : FinishUpsert(p)

GuildStep ==
    \E m \in Members :
        \/ Leave(m)
        \/ onInteraction(m)
        \/ handleOAuthCallback(m)
        \/ \E R \in SUBSET Roles :
              Join(m, R) \/ SetGuildRoles(m, R) \/ importConfigBackup(m, R)

FaultStep ==
    \/ \E w \in writes : LoseWrite(w)
    \/ \E p \in pending : LoseUpsert(p)
    \/ \E m \in Members : SetMemberFails(m) \/ ClearFails(m)
    \/ FetchFails
    \/ Restart

Next == SyncStep \/ HandlerStep \/ GuildStep \/ FaultStep
Spec == Init /\ [][Next]_vars

\* The ticker starts a pass again and again and every call of it returns;
\* handlers run to their end. Nothing is assumed of the guild or of faults
\* but the bounds above.
FairSpec == Spec /\ WF_vars(SyncStep) /\ WF_vars(HandlerStep)

-----------------------------------------------------------------------------
(* Properties.                                                             *)

\* syncMemberRoles clears "non-members" from what the pages left over
\* (bot.go:215). A known user who was in the guild during the whole pass is
\* never among them, however members around it join and leave while the
\* pages are fetched, unless storing its own roles failed in this pass.
SteadyMembersAreCovered == pc = "clear" => byDiscord \cap steady \subseteq failed

\* A pass during which nobody else touched the guild or the table ends with
\* exactly the roles of the guild for every known user (bot.go:164
\* "refreshes role_ids_json for every known DB user").
QuietPassIsExact ==
    quiet /\ pc = "clear" /\ byDiscord = {} => \A m \in known : stored[m] = guildRoles[m]

\* When the guild stays as it is and calls succeed again, every cached row
\* ends up with the roles of the guild and keeps them, whatever was lost,
\* reordered or overwritten by an older reading before (bot.go:105-128).
RolesConverge == <>[](\A m \in known : stored[m] = guildRoles[m])

-----------------------------------------------------------------------------
(* The inductive invariant of RoleSyncProofs.                              *)

\* A pass starts with the first page, and has members to store only while it
\* stores a page.
TodoInv ==
    /\ pc = "idle" => after = 0
    /\ pc # "set" => todo = {}
    /\ pc # "idle" => steady \subseteq inGuild

\* A listed user who never left is on a page still to come, waits on this
\* page, or could not be stored.
CoverInv ==
    pc # "idle" => \A m \in byDiscord \cap steady \cap (Members \ failed) :
        m \in todo \/ (m > after /\ (pc = "set" => ~lastPage) /\ pc # "clear")

RoleSyncIInv == TypeOK /\ TodoInv /\ CoverInv

\* Nobody has roles outside the guild, and no failure outlives its pass.
OutsideInv ==
    /\ \A m \in Members \ inGuild : guildRoles[m] = {}
    /\ pc = "idle" => failed = {}

\* In a pass that nothing disturbed, nothing else is under way, the page is
\* what the guild holds, and whoever is no longer in byDiscord is exact.
QuietInv ==
    quiet =>
        /\ pc # "idle"
        /\ writes = {} /\ pending = {} /\ failed = {}
        /\ byDiscord \cap inGuild \subseteq steady
        /\ \A m \in todo : page[m] = guildRoles[m]
        /\ \A m \in known \ byDiscord : stored[m] = guildRoles[m]
=============================================================================
