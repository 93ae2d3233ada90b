--------------------------- MODULE RoleSyncProofs ---------------------------
(***************************************************************************)
(* Proofs about RoleSync, for every set of members and roles, every page   *)
(* size and any number of changes, faults and calls under way.             *)
(***************************************************************************)
EXTENDS RoleSync, TLAPS

\* Steps of the guild keep the invariant: who leaves is no longer steady.
LEMMA GuildKeeps ==
  RoleSyncIInv /\ GuildStep => RoleSyncIInv'
<1> SUFFICES ASSUME RoleSyncIInv, NEW m \in Members, NEW R \in SUBSET Roles,
                    Leave(m) \/ onInteraction(m) \/ handleOAuthCallback(m) \/
                    Join(m, R) \/ SetGuildRoles(m, R) \/ importConfigBackup(m, R)
             PROVE  RoleSyncIInv'
    BY SMT DEF GuildStep
<1>0. quiet' \in BOOLEAN
    BY DEF Leave, onInteraction, handleOAuthCallback, Join, SetGuildRoles,
           importConfigBackup, Ask, Change, Disturb
<1> USE RoleSyncAssumption DEF RoleSyncIInv, TypeOK, TodoInv, CoverInv, guildVars, rowVars,
        syncVars, Change, Disturb, Write, Upsert
<1>1. CASE Leave(m)
    BY <1>0, <1>1 DEF Leave
<1>2. ASSUME NEW S \in SUBSET Roles, Ask(m, S) PROVE RoleSyncIInv'
    BY <1>0, <1>2 DEF Ask
<1>3. CASE onInteraction(m) \/ handleOAuthCallback(m)
    BY <1>2, <1>3 DEF onInteraction, handleOAuthCallback
<1>4. CASE Join(m, R)
    BY <1>0, <1>4 DEF Join
<1>5. CASE SetGuildRoles(m, R)
    BY <1>0, <1>5 DEF SetGuildRoles
<1>6. CASE importConfigBackup(m, R)
    BY <1>0, <1>6 DEF importConfigBackup, UpsertUser, UpsertedRoles
<1>7. QED
    BY <1>1, <1>3, <1>4, <1>5, <1>6

\* Handlers write rows of users and nothing of the pass.
LEMMA HandlerKeeps ==
  RoleSyncIInv /\ HandlerStep => RoleSyncIInv'
<1> SUFFICES ASSUME RoleSyncIInv, HandlerStep
             PROVE  RoleSyncIInv'
    OBVIOUS
<1> USE RoleSyncAssumption DEF RoleSyncIInv, TypeOK, TodoInv, CoverInv, guildVars, rowVars,
        syncVars, Write, Upsert
<1>1. ASSUME NEW w \in writes, HandleWrite(w) PROVE RoleSyncIInv'
    BY <1>1 DEF HandleWrite, SetUserRoles
<1>2. ASSUME NEW p \in pending, FinishUpsert(p) PROVE RoleSyncIInv'
    BY <1>2 DEF FinishUpsert, UpsertUser, UpsertedRoles
<1>3. QED
    BY <1>1, <1>2 DEF HandlerStep, onGuildMemberUpdate, onGuildMemberRemove, ImportSetRoles

\* The end of a pass leaves nothing to cover.
LEMMA EndKeeps ==
  ASSUME RoleSyncIInv, EndPass, UNCHANGED <<guildVars, rowVars>>,
         writes' \in SUBSET writes, pending' \in SUBSET pending,
         changes' \in 0..MaxChanges, faults' \in 0..MaxFaults
  PROVE  RoleSyncIInv'
BY DEF RoleSyncIInv, TypeOK, TodoInv, CoverInv, EndPass, NoRoles, guildVars, rowVars

\* Faults end the pass, lose a write or leave a member among the failed.
LEMMA FaultKeeps ==
  RoleSyncIInv /\ FaultStep => RoleSyncIInv'
<1> SUFFICES ASSUME RoleSyncIInv, FaultStep
             PROVE  RoleSyncIInv'
    OBVIOUS
<1> USE RoleSyncAssumption DEF Fault, Disturb
<1>0. quiet' \in BOOLEAN
    BY DEF FaultStep, LoseWrite, LoseUpsert, SetMemberFails, ClearFails, FetchFails, Restart
<1>1. CASE FetchFails
    BY <1>1, EndKeeps DEF FetchFails, RoleSyncIInv, TypeOK
<1>2. CASE Restart
    BY <1>2, EndKeeps DEF Restart, RoleSyncIInv, TypeOK
<1> USE DEF RoleSyncIInv, TypeOK, TodoInv, CoverInv, guildVars, rowVars, syncVars
<1>3. ASSUME NEW w \in writes, LoseWrite(w) PROVE RoleSyncIInv'
    BY <1>0, <1>3 DEF LoseWrite
<1>4. ASSUME NEW p \in pending, LoseUpsert(p) PROVE RoleSyncIInv'
    BY <1>0, <1>4 DEF LoseUpsert
<1>5. ASSUME NEW m \in Members, SetMemberFails(m) PROVE RoleSyncIInv'
    BY <1>0, <1>5 DEF SetMemberFails, First, AfterPage
<1>6. ASSUME NEW m \in Members, ClearFails(m) PROVE RoleSyncIInv'
    BY <1>0, <1>6 DEF ClearFails
<1>7. QED
    BY <1>1, <1>2, <1>3, <1>4, <1>5, <1>6 DEF FaultStep

\* A page holds everybody above the cursor up to its last member, and
\* everybody above the cursor when it is short.
LEMMA PageCovers ==
  ASSUME TypeOK, NEW P \in SUBSET Members, IsPage(P), NEW m \in inGuild \ P, m > after
  PROVE  ~ShortPage(P) /\ \A n \in P : n < m
BY RoleSyncAssumption DEF TypeOK, IsPage, ShortPage

\* Steps of the pass itself.
LEMMA SyncKeeps ==
  RoleSyncIInv /\ SyncStep => RoleSyncIInv'
<1> SUFFICES ASSUME RoleSyncIInv, SyncStep
             PROVE  RoleSyncIInv'
    OBVIOUS
<1> USE RoleSyncAssumption DEF RoleSyncIInv, guildVars, rowVars, syncVars
<1>1. CASE ListUsersForRoleSync
    BY <1>1 DEF ListUsersForRoleSync, WorthAPass, TypeOK, TodoInv, CoverInv
<1>2. ASSUME NEW P \in SUBSET Members, FetchPage(P) PROVE RoleSyncIInv'
  <2> USE <1>2 DEF FetchPage
  <2>1. after' \in Nat /\ TypeOK'
      BY DEF TypeOK, NextAfter, KnownOf, ShortPage, AfterPage
  <2>2. TodoInv'
      BY DEF TodoInv, TypeOK, AfterPage
  <2>3. ASSUME NEW m \in byDiscord \cap steady \cap (Members \ failed), m \notin todo'
        PROVE  m > after' /\ ~lastPage'
    <3>1. m \in inGuild /\ m > after /\ m \notin P
        BY <2>3 DEF TodoInv, CoverInv, TypeOK, KnownOf
    <3>2. ~ShortPage(P) /\ \A n \in P : n < m
        BY <3>1, PageCovers
    <3>3. m > after'
        BY <3>1, <3>2 DEF NextAfter
    <3>4. QED
        BY <3>2, <3>3
  <2>4. CoverInv'
      BY <2>3 DEF CoverInv, AfterPage, TypeOK
  <2>5. QED
      BY <2>1, <2>2, <2>4
<1>3. ASSUME NEW m \in Members, SetMember(m) PROVE RoleSyncIInv'
    BY <1>3 DEF SetMember, First, SetUserRoles, AfterPage, TypeOK, TodoInv, CoverInv
<1>4. ASSUME NEW m \in Members, ClearNonMember(m) PROVE RoleSyncIInv'
    BY <1>4 DEF ClearNonMember, SetUserRoles, TypeOK, TodoInv, CoverInv
<1>5. CASE FinishSync
    BY <1>5, EndKeeps DEF FinishSync, TypeOK
<1>6. QED
    BY <1>1, <1>2, <1>3, <1>4, <1>5 DEF SyncStep

\* The inductive invariant.
LEMMA Inductive == Spec => []RoleSyncIInv
<1>1. Init => RoleSyncIInv
  <2>1. Init => quiet \in BOOLEAN /\ lastPage \in BOOLEAN
      BY DEF Init
  <2>2. QED
      BY <2>1, RoleSyncAssumption
         DEF Init, RoleSyncIInv, TypeOK, TodoInv, CoverInv, NoRoles
<1>2. RoleSyncIInv /\ [Next]_vars => RoleSyncIInv'
  <2>1. RoleSyncIInv /\ UNCHANGED vars => RoleSyncIInv'
      BY DEF vars, guildVars, rowVars, syncVars, RoleSyncIInv, TypeOK, TodoInv, CoverInv
  <2>2. QED
      BY <2>1, GuildKeeps, HandlerKeeps, FaultKeeps, SyncKeeps DEF Next
<1>3. QED
    BY <1>1, <1>2, PTL DEF Spec

\* The rows, the pass and the calls under way keep their types; the pass only
\* ever works on users that exist.
THEOREM TypeCorrect == Spec => []TypeOK
<1>1. RoleSyncIInv => TypeOK
    BY DEF RoleSyncIInv
<1>2. QED
    BY <1>1, Inductive, PTL

\* However members join and leave between the pages of a pass, a known user
\* who stayed in the guild is not taken for a non-member (bot.go:215), unless
\* storing its roles failed in this pass.
THEOREM SteadyCovered == Spec => []SteadyMembersAreCovered
<1>1. RoleSyncIInv => SteadyMembersAreCovered
    BY DEF RoleSyncIInv, TypeOK, TodoInv, CoverInv, SteadyMembersAreCovered
<1>2. QED
    BY <1>1, Inductive, PTL

-----------------------------------------------------------------------------
(* A pass that nothing disturbed.                                          *)

\* Whatever disturbs a pass says so; handlers have nothing to do in a quiet one.
LEMMA DisturbKeeps ==
  ASSUME RoleSyncIInv, QuietInv, GuildStep \/ HandlerStep \/ FaultStep
  PROVE  QuietInv'
<1>1. CASE GuildStep \/ FaultStep
  <2>1. quiet' = FALSE
      BY <1>1 DEF GuildStep, FaultStep, Leave, onInteraction, handleOAuthCallback, Join,
         SetGuildRoles, importConfigBackup, Ask, Change, LoseWrite, LoseUpsert, SetMemberFails,
         ClearFails, FetchFails, Restart, Fault, Disturb
  <2>2. QED
      BY <2>1 DEF QuietInv
<1>2. CASE HandlerStep
  <2>1. writes # {} \/ pending # {}
      BY <1>2 DEF HandlerStep
  <2>2. quiet' = quiet
      BY <1>2 DEF HandlerStep, onGuildMemberUpdate, onGuildMemberRemove, ImportSetRoles,
         HandleWrite, FinishUpsert
  <2>3. QED
      BY <2>1, <2>2 DEF QuietInv
<1>3. QED
    BY <1>1, <1>2

\* Only the guild changes who is in it, and only a pass its failures.
LEMMA OutsideKeeps ==
  ASSUME RoleSyncIInv, OutsideInv, Next
  PROVE  OutsideInv'
<1> USE DEF OutsideInv, RoleSyncIInv, TypeOK
<1>1. CASE SyncStep
    BY <1>1 DEF SyncStep, ListUsersForRoleSync, FetchPage, SetMember, ClearNonMember, FinishSync,
       EndPass, AfterPage, guildVars
<1>2. CASE HandlerStep
    BY <1>2 DEF HandlerStep, onGuildMemberUpdate, onGuildMemberRemove, ImportSetRoles,
       HandleWrite, FinishUpsert, guildVars, syncVars
<1>3. CASE FaultStep
    BY <1>3 DEF FaultStep, LoseWrite, LoseUpsert, SetMemberFails, ClearFails, FetchFails, Restart,
       EndPass, AfterPage, guildVars, syncVars
<1>4. CASE GuildStep
    BY <1>4 DEF GuildStep, Leave, onInteraction, handleOAuthCallback, Join, SetGuildRoles,
       importConfigBackup, Ask, guildVars, syncVars
<1>5. QED
    BY <1>1, <1>2, <1>3, <1>4 DEF Next

\* Steps of the pass: it stores what the guild holds, and clears only those
\* who are not in it.
LEMMA QuietKeeps ==
  ASSUME RoleSyncIInv, OutsideInv, QuietInv, SyncStep
  PROVE  QuietInv'
<1> SUFFICES ASSUME quiet' PROVE QuietInv'
    BY DEF QuietInv
<1> USE DEF guildVars, rowVars
<1>1. CASE ListUsersForRoleSync
  <2>1. known # {} /\ writes = {} /\ pending = {}
      BY <1>1 DEF ListUsersForRoleSync
  <2>2. QED
      BY <1>1, <2>1 DEF ListUsersForRoleSync, WorthAPass, RoleSyncIInv, TypeOK, TodoInv,
         OutsideInv, QuietInv
<1>2. ASSUME NEW P \in SUBSET Members, FetchPage(P) PROVE QuietInv'
    BY <1>2 DEF FetchPage, KnownOf, AfterPage, RoleSyncIInv, TypeOK, QuietInv
<1>3. ASSUME NEW m \in Members, SetMember(m) PROVE QuietInv'
  <2>1. /\ quiet /\ m \in todo /\ m \in known
        /\ stored' = [stored EXCEPT ![m] = guildRoles[m]]
      BY <1>3 DEF SetMember, First, SetUserRoles, RoleSyncIInv, TypeOK, QuietInv
  <2>2. QED
      BY <1>3, <2>1 DEF SetMember, AfterPage, RoleSyncIInv, TypeOK, QuietInv
<1>4. ASSUME NEW m \in Members, ClearNonMember(m) PROVE QuietInv'
  <2>1. quiet /\ m \in byDiscord /\ m \in known /\ pc = "clear"
      BY <1>4 DEF ClearNonMember, RoleSyncIInv, TypeOK
  <2>2. m \notin inGuild
      BY <2>1 DEF RoleSyncIInv, TypeOK, TodoInv, CoverInv, QuietInv
  <2>3. guildRoles[m] = {} /\ stored' = [stored EXCEPT ![m] = guildRoles[m]]
      BY <1>4, <2>1, <2>2 DEF ClearNonMember, SetUserRoles, OutsideInv
  <2>4. QED
      BY <1>4, <2>1, <2>3 DEF ClearNonMember, RoleSyncIInv, TypeOK, QuietInv
<1>5. CASE FinishSync
    BY <1>5 DEF FinishSync, EndPass
<1>6. QED
    BY <1>1, <1>2, <1>3, <1>4, <1>5 DEF SyncStep

\* A pass that nothing disturbed leaves every known user with exactly the roles
\* of the guild: members of a page get the page's, and whoever no page held is
\* not in the guild and has none (bot.go:164-228).
THEOREM QuietExact == Spec => []QuietPassIsExact
<1>1. Init => OutsideInv /\ QuietInv
    BY DEF Init, OutsideInv, QuietInv
<1>2. RoleSyncIInv /\ OutsideInv /\ QuietInv /\ [Next]_vars => OutsideInv' /\ QuietInv'
  <2>1. RoleSyncIInv /\ OutsideInv /\ QuietInv /\ UNCHANGED vars => OutsideInv' /\ QuietInv'
      BY DEF vars, guildVars, rowVars, syncVars, OutsideInv, QuietInv
  <2>2. QED
      BY <2>1, DisturbKeeps, OutsideKeeps, QuietKeeps DEF Next
<1>3. QuietInv => QuietPassIsExact
    BY DEF QuietInv, QuietPassIsExact
<1>4. QED
    BY <1>1, <1>2, <1>3, Inductive, PTL DEF Spec
=============================================================================
