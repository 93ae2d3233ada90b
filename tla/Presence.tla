------------------------------ MODULE Presence ------------------------------
(***************************************************************************)
(* The presence tracker (internal/presence) and the handlers that use it:  *)
(* heartbeats, the choice of an account at login, account deletion and the *)
(* status views.                                                           *)
(*                                                                         *)
(* An action is one section under Tracker.mu, or the database read that    *)
(* precedes it: a handler makes several calls of the tracker and other     *)
(* connections run between them. Time is counted in ticks of which TTL     *)
(* make PRESENCE_TTL_SECONDS; the tracker keeps LastSeen, and the model    *)
(* keeps the age of the entry, which is all that is ever computed from it. *)
(***************************************************************************)
EXTENDS Naturals, FiniteSets

CONSTANTS
    Accounts,    \* ids of eq_accounts, in the order the queries return them
    Users,
    Conns,       \* authenticated connections
    UserOf,      \* the user of each connection
    TTL,         \* lifetime of an entry in ticks
    NoUser, NoAccount

ASSUME PresenceAssumption ==
    /\ Accounts \subseteq Nat
    /\ UserOf \in [Conns -> Users]
    /\ NoUser \notin Users
    /\ NoAccount \notin Accounts
    /\ TTL \in Nat \ {0}

VARIABLES
    owner,     \* UserID of the entry in Tracker.m, NoUser when there is none
    age,       \* time since LastSeen, at most TTL; TTL when there is no entry
    lastLook,  \* accounts that the last Online, Snapshot or Count saw
    allowed,   \* what AllowedAccountIDs returns for each user
    gone,      \* accounts whose row is deleted
    clearing,  \* deleted accounts for which Presence.Clear is still to run
    pc, target, pool,  \* the handler that a connection is in
    idleThroughout     \* history: accounts of the pool that have been offline
                       \* ever since the scan of the pool began

trackerVars == <<owner, age>>
aclVars == <<allowed, gone, clearing>>
handlerVars == <<pc, target, pool>>
vars == <<trackerVars, lastLook, aclVars, handlerVars, idleThroughout>>

TypeOK ==
    /\ owner \in [Accounts -> Users \cup {NoUser}]
    /\ age \in [Accounts -> 0..TTL]
    /\ lastLook \subseteq Accounts
    /\ allowed \in [Users -> SUBSET Accounts]
    /\ gone \subseteq Accounts
    /\ clearing \subseteq gone
    /\ pc \in [Conns -> {"idle", "clear", "touch", "offline", "scan", "chosen"}]
    /\ target \in [Conns -> Accounts \cup {NoAccount}]
    /\ pool \in [Conns -> SUBSET Accounts]
    /\ idleThroughout \in [Conns -> SUBSET Accounts]

Init ==
    /\ owner = [a \in Accounts |-> NoUser]
    /\ age = [a \in Accounts |-> TTL]
    /\ lastLook = {}
    /\ allowed \in [Users -> SUBSET Accounts]
    /\ gone = {}
    /\ clearing = {}
    /\ pc = [c \in Conns |-> "idle"]
    /\ target = [c \in Conns |-> NoAccount]
    /\ pool = [c \in Conns |-> {}]
    /\ idleThroughout = [c \in Conns |-> {}]

\* A reader that runs now finds the account online.
Visible(a) == age[a] < TTL

\* The history variable follows every step.
Watch ==
    idleThroughout' =
        [c \in Conns |->
            IF pc'[c] # "scan" THEN {}
            ELSE {a \in IF pc[c] = "scan" THEN idleThroughout[c] ELSE pool'[c] :
                    age'[a] >= TTL}]

-----------------------------------------------------------------------------
(* The operations of the tracker.                                          *)

\* Mutant of expireLocked: the comparison is strict, so that an entry whose age
\* has reached TTL stays.
ExpireLate == [a \in Accounts |-> owner[a]]

\* expireLocked: the entries that are left after the expired ones are deleted.
expireLocked == [a \in Accounts |-> IF age[a] >= TTL THEN NoUser ELSE owner[a]]

Touch(a, u) ==
    /\ owner' = [owner EXCEPT ![a] = u]
    /\ age' = [age EXCEPT ![a] = 0]

Clear(a) ==
    /\ owner' = [owner EXCEPT ![a] = NoUser]
    /\ age' = [age EXCEPT ![a] = TTL]

\* Mutant of ClearUserExcept: only expired entries are deleted.
ClearNothing(u, keep) == owner' = expireLocked /\ UNCHANGED age

ClearUserExcept(u, keep) ==
    LET cleared == {a \in Accounts : expireLocked[a] = u /\ a # keep} IN
    /\ owner' = [a \in Accounts |-> IF a \in cleared THEN NoUser ELSE expireLocked[a]]
    /\ age' = [a \in Accounts |-> IF a \in cleared THEN TTL ELSE age[a]]

\* Online, Snapshot and Count: delete what is expired and return the rest.
Online ==
    /\ owner' = expireLocked
    /\ lastLook' = {a \in Accounts : expireLocked[a] # NoUser}
    /\ UNCHANGED <<age, aclVars, handlerVars>>
    /\ Watch

-----------------------------------------------------------------------------
(* heartbeat.                                                              *)

Return(c) ==
    /\ pc' = [pc EXCEPT ![c] = "idle"]
    /\ target' = [target EXCEPT ![c] = NoAccount]
    /\ UNCHANGED pool

\* Mutant of Heartbeat: the account is not looked up in AllowedAccountIDs.
HeartbeatUnchecked(c, a, next) ==
    /\ pc[c] = "idle"
    /\ pc' = [pc EXCEPT ![c] = next]
    /\ target' = [target EXCEPT ![c] = a]
    /\ UNCHANGED <<trackerVars, lastLook, aclVars, pool>>
    /\ Watch

\* The character names account a, and a is in AllowedAccountIDs of the user.
Heartbeat(c, a, next) ==
    /\ pc[c] = "idle"
    /\ a \in allowed[UserOf[c]]
    /\ pc' = [pc EXCEPT ![c] = next]
    /\ target' = [target EXCEPT ![c] = a]
    /\ UNCHANGED <<trackerVars, lastLook, aclVars, pool>>
    /\ Watch

HeartbeatClear(c) ==
    /\ pc[c] = "clear"
    /\ ClearUserExcept(UserOf[c], target[c])
    /\ pc' = [pc EXCEPT ![c] = "touch"]
    /\ UNCHANGED <<lastLook, aclVars, target, pool>>
    /\ Watch

HeartbeatTouch(c) ==
    /\ pc[c] = "touch"
    /\ Touch(target[c], UserOf[c])
    /\ Return(c)
    /\ UNCHANGED <<lastLook, aclVars>>
    /\ Watch

\* An offline heartbeat deletes the entry, whoever put it there.
HeartbeatOffline(c) ==
    /\ pc[c] = "offline"
    /\ Clear(target[c])
    /\ Return(c)
    /\ UNCHANGED <<lastLook, aclVars>>
    /\ Watch

-----------------------------------------------------------------------------
(* login_auth, login_relay_up and login_splice: pickLoginCandidate.        *)

\* A direct match, or a tag that names one account, is taken busy or not.
PickOnly(c, a) ==
    /\ pc[c] = "idle"
    /\ a \in allowed[UserOf[c]]
    /\ pc' = [pc EXCEPT ![c] = "chosen"]
    /\ target' = [target EXCEPT ![c] = a]
    /\ UNCHANGED <<trackerVars, lastLook, aclVars, pool>>
    /\ Watch

\* The tag names several accounts: they are asked for one after the other.
PickFromPool(c, P) ==
    /\ pc[c] = "idle"
    /\ P \subseteq allowed[UserOf[c]] /\ Cardinality(P) > 1
    /\ pc' = [pc EXCEPT ![c] = "scan"]
    /\ pool' = [pool EXCEPT ![c] = P]
    /\ UNCHANGED <<trackerVars, lastLook, aclVars, target>>
    /\ Watch

First(P, a) == a \in P /\ \A b \in P : a <= b

\* IsBusy answers false: the account is the choice.
PoolFree(c) ==
    /\ pc[c] = "scan"
    /\ \E a \in Accounts :
        /\ First(pool[c], a) /\ expireLocked[a] = NoUser
        /\ target' = [target EXCEPT ![c] = a]
    /\ owner' = expireLocked
    /\ pool' = [pool EXCEPT ![c] = {}]
    /\ pc' = [pc EXCEPT ![c] = "chosen"]
    /\ UNCHANGED <<age, lastLook, aclVars>>
    /\ Watch

\* Mutant of PoolBusy: the scan gives up at the first busy account.
PoolBusyStops(c) ==
    /\ pc[c] = "scan"
    /\ \E a \in Accounts : First(pool[c], a) /\ expireLocked[a] # NoUser
    /\ pool' = [pool EXCEPT ![c] = {}]
    /\ owner' = expireLocked
    /\ pc' = [pc EXCEPT ![c] = "idle"]
    /\ UNCHANGED <<age, lastLook, aclVars, target>>
    /\ Watch

\* IsBusy answers true: the next one, or the answer all_busy.
PoolBusy(c) ==
    /\ pc[c] = "scan"
    /\ \E a \in Accounts :
        /\ First(pool[c], a) /\ expireLocked[a] # NoUser
        /\ pool' = [pool EXCEPT ![c] = @ \ {a}]
        /\ pc' = [pc EXCEPT ![c] = IF pool[c] = {a} THEN "idle" ELSE "scan"]
    /\ owner' = expireLocked
    /\ UNCHANGED <<age, lastLook, aclVars, target>>
    /\ Watch

\* login_auth only answers; a splice whose credentials fail returns as well.
LoginReturns(c) ==
    /\ pc[c] = "chosen"
    /\ Return(c)
    /\ UNCHANGED <<trackerVars, lastLook, aclVars>>
    /\ Watch

\* The credentials are spliced: the user's other accounts go offline.
Splice(c) ==
    /\ pc[c] = "chosen"
    /\ ClearUserExcept(UserOf[c], target[c])
    /\ Return(c)
    /\ UNCHANGED <<lastLook, aclVars>>
    /\ Watch

-----------------------------------------------------------------------------
(* Accounts, grants and time.                                              *)

\* An admin changes who may use an account, or disables it for all.
SetAccess(u, a) ==
    /\ a \notin gone
    /\ \/ allowed' = [allowed EXCEPT ![u] = @ \cup {a}]
       \/ allowed' = [allowed EXCEPT ![u] = @ \ {a}]
    /\ UNCHANGED <<trackerVars, lastLook, gone, clearing, handlerVars>>
    /\ Watch

\* Mutant of DeleteAccount: the error of DeleteEQAccount is dropped and the
\* entry is cleared although the row is still there.
DeleteFailsUnseen(a) ==
    /\ a \notin gone
    /\ clearing' = clearing \cup {a}
    /\ UNCHANGED <<trackerVars, lastLook, allowed, gone, handlerVars>>
    /\ Watch

\* DeleteEQAccount by admin_remove_account or the web UI, Presence.Clear to
\* follow; unshare_account deletes the row and clears nothing.
DeleteAccount(a) ==
    /\ a \notin gone
    /\ gone' = gone \cup {a}
    /\ allowed' = [u \in Users |-> allowed[u] \ {a}]
    /\ clearing' \in {clearing, clearing \cup {a}}
    /\ UNCHANGED <<trackerVars, lastLook, handlerVars>>
    /\ Watch

ClearDeleted(a) ==
    /\ a \in clearing
    /\ Clear(a)
    /\ clearing' = clearing \ {a}
    /\ UNCHANGED <<lastLook, allowed, gone, handlerVars>>
    /\ Watch

Tick ==
    /\ \E a \in Accounts : age[a] < TTL
    /\ age' = [a \in Accounts |-> IF age[a] < TTL THEN age[a] + 1 ELSE TTL]
    /\ UNCHANGED <<owner, lastLook, aclVars, handlerVars>>
    /\ Watch

-----------------------------------------------------------------------------
HandlerStep(c) ==
    \/ HeartbeatClear(c) \/ HeartbeatTouch(c) \/ HeartbeatOffline(c)
    \/ PoolFree(c) \/ PoolBusy(c) \/ LoginReturns(c) \/ Splice(c)

Request(c) ==
    \/ \E a \in Accounts :
        \/ Heartbeat(c, a, "clear")
        \/ Heartbeat(c, a, "offline")
        \/ PickOnly(c, a)
    \/ \E P \in SUBSET Accounts : PickFromPool(c, P)

Next ==
    \/ \E c \in Conns : Request(c) \/ HandlerStep(c)
    \/ Online
    \/ \E u \in Users, a \in Accounts : SetAccess(u, a)
    \/ \E a \in Accounts : DeleteAccount(a) \/ ClearDeleted(a)
    \/ Tick

\* Handlers run to their end and time passes.
Fairness ==
    /\ \A c \in Conns : WF_vars(HandlerStep(c))
    /\ WF_vars(Tick)

Spec == Init /\ [][Next]_vars
FairSpec == Spec /\ Fairness

-----------------------------------------------------------------------------
(* Properties.                                                             *)

\* Deleting expired entries only when somebody looks is as good as deleting
\* them in time: the tracker implements the board.
Board == INSTANCE PresenceBoard WITH
    board <- [a \in Accounts |-> IF Visible(a) THEN owner[a] ELSE NoUser],
    left <- [a \in Accounts |-> TTL - age[a]]

BoardSpec == Board!BoardSpec

Solo(u) == \A c, d \in Conns : UserOf[c] = u /\ UserOf[d] = u => c = d

\* A user with one connection has at most one account online: ClearUserExcept
\* and Touch are two sections, and no step of anybody else comes between them
\* that would put a second account of this user online.
OneBoxPerSoloUser ==
    \A u \in Users, a, b \in Accounts :
        Solo(u) /\ owner[a] = u /\ owner[b] = u => a = b

\* pickLoginCandidate answers all_busy only when no account of the pool was
\* free during the whole scan, although IsBusy is asked at different times.
AllBusyIsJust ==
    [][\A c \in Conns :
        pc[c] = "scan" /\ pc'[c] = "idle" => idleThroughout[c] = {}]_vars

\* A user who may no longer use an account, because the grant was withdrawn
\* or the account deleted, goes offline on it for good, even when a heartbeat
\* that passed the check is still to touch the entry.
WithdrawnGoesOffline ==
    \A u \in Users, a \in Accounts :
        <>[](a \notin allowed[u]) => <>[]~(Visible(a) /\ owner[a] = u)

-----------------------------------------------------------------------------
(* The parts of the inductive invariant.                                   *)

\* A handler knows its account; an account without an entry has age TTL.
HandlersInv ==
    /\ \A c \in Conns :
        /\ pc[c] \in {"clear", "touch", "offline", "chosen"} => target[c] \in Accounts
    /\ \A a \in Accounts : owner[a] = NoUser => age[a] = TTL

\* Between the two sections of a heartbeat the user has no other account.
ClearedInv ==
    \A c \in Conns, a \in Accounts :
        pc[c] = "touch" /\ Solo(UserOf[c]) /\ owner[a] = UserOf[c] => a = target[c]

\* An account that stayed offline has not been passed over.
ScanInv ==
    \A c \in Conns :
        /\ idleThroughout[c] \subseteq pool[c]
        /\ \A a \in idleThroughout[c] : age[a] = TTL

PresenceIInv ==
    TypeOK /\ HandlersInv /\ ClearedInv /\ OneBoxPerSoloUser /\ ScanInv
=============================================================================
