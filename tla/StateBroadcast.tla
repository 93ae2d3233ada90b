--------------------------- MODULE StateBroadcast ---------------------------
(***************************************************************************)
(* How a change reaches the screens: the desktop clients of the hub get    *)
(* full_state, the tabs of the web UI get state on /admin/ws, and both are *)
(* built for the user behind the socket.                                   *)
(*                                                                         *)
(* Three kinds of goroutine push: the one of a desktop connection, the one *)
(* of a web request, and the one of a tab when it opens. Each collects its *)
(* sockets under a mutex and then reads the database, builds and writes    *)
(* outside it, so pushes overlap. Sockets are used once: Conns and Tabs    *)
(* are the ones that are ever opened.                                      *)
(*                                                                         *)
(* A user row is reduced to access_revoked and the admin role, which also  *)
(* opens the web UI; the other ways in are those of Groups. Everything     *)
(* else that a payload shows is one version number. Tokens and a second    *)
(* auth of a connection are in SsoSession.                                 *)
(***************************************************************************)
EXTENDS Naturals, FiniteSets

CONSTANTS
    Users,
    Conns, Tabs,       \* desktop connections, tabs of the web UI
    UserOf,            \* whose connection or tab it is
    Reqs,              \* changes at a time, by web requests or by messages of
                       \* desktop clients
    MaxEvents,         \* bound on changes, role writes and failures
    None

Sockets == Conns \cup Tabs
Routines == Sockets \cup Reqs

ASSUME BroadcastAssumption ==
    /\ Conns \cap Tabs = {} /\ Sockets \cap Reqs = {}
    /\ UserOf \in [Sockets -> Users]
    /\ MaxEvents \in Nat
    /\ None \notin Users \cup Routines

VARIABLES
    events, version,  \* events so far, and changes that the screens should show
    due, dueTabs,     \* the last one whose handler owes a full_state, and the
                      \* last one of which it owes the tabs a state
    role, revoked,    \* users: holds the admin role, access_revoked
    clients, copy,    \* Hub.clients, and whether each client's user is an admin
    live,             \* Server.live, the open tabs
    open,             \* sockets that are open
    seen,             \* newest version that reached the socket
    missed,           \* newest version whose push to the socket failed
    pc, row,          \* a goroutine, and whether the user it serves was an admin
                      \* when it began; Server.live keeps that row for a tab
    at, todo,         \* the user or socket it is at, the sockets ahead of it
    got, pay,         \* the row it read for that client, the payload it built
    back, next,       \* where it goes on after a full_state, after the tabs
    lately            \* history: the users who held the role since all was quiet

dues == <<due, dueTabs>>
userVars == <<role, revoked>>
hubVars == <<clients, copy>>
screenVars == <<seen, missed>>
pushVars == <<at, todo, got, pay, back>>
localVars == <<row, pushVars, next>>
baseVars == <<events, version, dues, userVars, hubVars, live, open, screenVars, pc, localVars>>
vars == <<baseVars, lately>>

\* whole: no query behind the payload failed.
Payload == [v : 0..MaxEvents, admin : BOOLEAN, fresh : BOOLEAN, whole : BOOLEAN]
NoPay == [v |-> 0, admin |-> FALSE, fresh |-> TRUE, whole |-> TRUE]

TypeOK ==
    /\ events \in 0..MaxEvents /\ version \in 0..events /\ due \in 0..version
    /\ dueTabs \in 0..version
    /\ role \in [Users -> BOOLEAN] /\ revoked \in [Users -> BOOLEAN]
    /\ clients \subseteq Conns /\ copy \in [Conns -> BOOLEAN]
    /\ live \subseteq Tabs
    /\ open \subseteq Sockets
    /\ seen \in [Sockets -> 0..version] /\ missed \in [Sockets -> 0..version]
    /\ pc \in [Routines -> {"new", "idle", "accept", "register", "greet", "serve",
                            "kick", "close",
                            "broadcast", "clients", "assign", "build", "send", "live",
                            "tabs", "push", "gone"}]
    /\ row \in [Routines -> BOOLEAN]
    /\ at \in [Routines -> Users \cup Sockets \cup {None}]
    /\ todo \in [Routines -> SUBSET Sockets]
    /\ got \in [Routines -> BOOLEAN \cup {None}]
    /\ pay \in [Routines -> Payload]
    /\ back \in [Routines -> {"clients", "serve"}]
    /\ next \in [Routines -> {"greet", "serve", "idle", "broadcast", "gone"}]
    /\ lately \subseteq Users

\* Where a goroutine waits for its peer.
Home(g) == IF g \in Reqs THEN "idle" ELSE "serve"
Quiet == \A g \in Routines : pc[g] \in {"new", "idle", "serve", "gone"}

Init ==
    /\ events = 0 /\ version = 0 /\ due = 0 /\ dueTabs = 0
    /\ role \in [Users -> BOOLEAN]
    /\ revoked = [u \in Users |-> FALSE]
    /\ clients = {} /\ copy = [c \in Conns |-> FALSE]
    /\ live = {}
    /\ open = {}
    /\ seen = [s \in Sockets |-> 0] /\ missed = [s \in Sockets |-> 0]
    /\ pc = [g \in Routines |-> IF g \in Reqs THEN "idle" ELSE "new"]
    /\ row = [g \in Routines |-> FALSE]
    /\ at = [g \in Routines |-> None]
    /\ todo = [g \in Routines |-> {}]
    /\ got = [g \in Routines |-> None]
    /\ pay = [g \in Routines |-> NoPay]
    /\ back = [g \in Routines |-> "clients"]
    /\ next = [g \in Routines |-> Home(g)]
    /\ lately = {u \in Users : role[u]}

Go(g, p) == pc' = [pc EXCEPT ![g] = p]

\* An event, a change that the screens should show, one that owes a full_state.
Event == events < MaxEvents /\ events' = events + 1
Change == Event /\ version' = version + 1
DueChange == Change /\ due' = version' /\ dueTabs' = version'

-----------------------------------------------------------------------------
(* broadcastFullState: collect the clients, then serve one after another.  *)

broadcastFullState(g) ==
    /\ pc[g] = "broadcast"
    /\ todo' = [todo EXCEPT ![g] = clients]
    /\ Go(g, IF clients = {} THEN "live" ELSE "clients")
    /\ UNCHANGED <<events, version, dues, userVars, hubVars, live, open, screenVars,
                   row, at, got, pay, back, next>>

\* The row that UserByID returns for the client, or None when the read fails.
UserByID(g, c) ==
    \/ got' = [got EXCEPT ![g] = role[UserOf[c]]] /\ UNCHANGED events
    \/ got' = [got EXCEPT ![g] = None] /\ Event

RefreshUser(g, c) ==
    /\ pc[g] = "clients" /\ c \in todo[g]
    /\ at' = [at EXCEPT ![g] = c]
    /\ todo' = [todo EXCEPT ![g] = @ \ {c}]
    /\ UserByID(g, c)
    /\ Go(g, "assign")
    /\ UNCHANGED <<version, dues, userVars, hubVars, live, open, screenVars,
                   row, pay, back, next>>

\* Mutants of Refreshed: the row is read and not kept; it is kept although
\* the read failed.
RefreshedNot(c, r) == copy[c]
RefreshedAlways(c, r) == r

\* cl.user = u, unless the read failed.
Refreshed(c, r) == IF r = None THEN copy[c] ELSE r

AssignUser(g) ==
    /\ pc[g] = "assign"
    /\ copy' = [copy EXCEPT ![at[g]] = Refreshed(at[g], got[g])]
    /\ Go(g, "build")
    /\ UNCHANGED <<events, version, dues, userVars, clients, live, open, screenVars, localVars>>

\* After a client: the next one, the tabs, or back to reading the socket.
Served(g) ==
    /\ at' = [at EXCEPT ![g] = None]
    /\ got' = [got EXCEPT ![g] = None]
    /\ pay' = [pay EXCEPT ![g] = NoPay]
    /\ back' = [back EXCEPT ![g] = "clients"]
    /\ Go(g, IF back[g] = "serve" THEN "serve"
             ELSE IF todo[g] = {} THEN "live" ELSE "clients")

\* sendFullState reads the tables. When the first query fails the client is
\* told "state error", when a later one does it gets a full_state without that
\* part; in both cases something is written, and no error is reported.
BuildFullState(g) ==
    /\ pc[g] = "build"
    /\ \E whole \in BOOLEAN, admin \in {copy[at[g]], FALSE} :
        /\ IF whole THEN admin = copy[at[g]] /\ UNCHANGED events ELSE Event
        /\ pay' = [pay EXCEPT ![g] = [v |-> version, admin |-> admin,
                                      fresh |-> got[g] # None, whole |-> whole]]
    /\ Go(g, "send")
    /\ UNCHANGED <<version, dues, userVars, hubVars, live, open, screenVars, row, at, todo, got,
                   back, next>>

Newer(a, b) == IF a < b THEN b ELSE a

\* A payload that lacks a part does not show the version it is of.
Delivered(g, s) ==
    /\ s \in open
    /\ IF pay[g].whole
       THEN seen' = [seen EXCEPT ![s] = Newer(@, pay[g].v)] /\ UNCHANGED missed
       ELSE missed' = [missed EXCEPT ![s] = Newer(@, pay[g].v)] /\ UNCHANGED seen

ForgetScreen(s) == seen' = [seen EXCEPT ![s] = 0] /\ missed' = [missed EXCEPT ![s] = 0]

\* The write under writeMu. One deadline of 5 s covers a whole broadcast:
\* once it has passed, a write fails, and the library may close the socket.
\* Nothing bounds the wait for writeMu, which the pings and the replies hold
\* while they write without a deadline to a peer that does not read.
SendFullState(g) ==
    /\ pc[g] = "send"
    /\ \/ Delivered(g, at[g]) /\ UNCHANGED <<events, open>>
       \/ /\ Event \/ (at[g] \notin open /\ UNCHANGED events)
          /\ missed' = [missed EXCEPT ![at[g]] = Newer(@, pay[g].v)]
          /\ open' \in {open, open \ {at[g]}}
          /\ UNCHANGED seen
    /\ Served(g)
    /\ UNCHANGED <<version, dues, userVars, hubVars, live, row, todo, next>>

-----------------------------------------------------------------------------
(* broadcastLiveState, the listener of the hub: one payload for each user  *)
(* with tabs, built from the row that one of the tabs was opened with.     *)

AfterTabs(g, rest) ==
    /\ todo' = [todo EXCEPT ![g] = rest]
    /\ next' = IF rest = {} THEN [next EXCEPT ![g] = Home(g)] ELSE next
    /\ Go(g, IF rest = {} THEN next[g] ELSE "tabs")

broadcastLiveState(g) ==
    /\ pc[g] = "live"
    /\ AfterTabs(g, live)
    /\ UNCHANGED <<events, version, dues, userVars, hubVars, live, open, screenVars,
                   row, at, got, pay, back>>

\* buildState; a user whose state cannot be built is skipped, and the lists that
\* it reads may come short without an error, as those of full_state.
BuildState(g, t) ==
    LET u == UserOf[t]
        sockets == {s \in todo[g] : UserOf[s] = u} IN
    /\ pc[g] = "tabs" /\ t \in todo[g]
    /\ \/ /\ \E whole \in BOOLEAN :
                /\ IF whole THEN UNCHANGED events ELSE Event
                /\ pay' = [pay EXCEPT ![g] =
                      [v |-> version, admin |-> row[t], fresh |-> TRUE, whole |-> whole]]
          /\ at' = [at EXCEPT ![g] = u]
          /\ Go(g, "push")
          /\ UNCHANGED <<todo, next, missed>>
       \/ /\ Event
          /\ missed' = [s \in Sockets |-> IF s \in sockets THEN version ELSE missed[s]]
          /\ AfterTabs(g, todo[g] \ sockets)
          /\ UNCHANGED <<at, pay>>
    /\ UNCHANGED <<version, dues, userVars, hubVars, live, open, seen, row, got, back>>

\* A tab that cannot be written to is dropped; pushStateTo, which greets the
\* goroutine's own tab, only ignores the error.
PushState(g, t) ==
    LET rest == todo[g] \ {t}
        more == {s \in rest : UserOf[s] = at[g]} IN
    /\ pc[g] = "push" /\ t \in todo[g] /\ UserOf[t] = at[g]
    /\ \/ Delivered(g, t) /\ UNCHANGED <<events, open, live>>
       \/ /\ Event \/ (t \notin open /\ UNCHANGED events)
          /\ missed' = [missed EXCEPT ![t] = Newer(@, pay[g].v)]
          /\ IF g = t THEN UNCHANGED <<open, live>>
             ELSE open' = open \ {t} /\ live' = live \ {t}
          /\ UNCHANGED seen
    /\ IF more # {}
       THEN /\ todo' = [todo EXCEPT ![g] = rest]
            /\ UNCHANGED <<pc, next, at, pay>>
       ELSE /\ AfterTabs(g, rest)
            /\ at' = [at EXCEPT ![g] = None]
            /\ pay' = [pay EXCEPT ![g] = NoPay]
    /\ UNCHANGED <<version, dues, userVars, hubVars, row, got, back>>

-----------------------------------------------------------------------------
(* A desktop connection.                                                   *)

Auth(c) ==
    /\ pc[c] = "new" /\ ~revoked[UserOf[c]]
    /\ row' = [row EXCEPT ![c] = role[UserOf[c]]]
    /\ open' = open \cup {c}
    /\ Go(c, "register")
    /\ UNCHANGED <<events, version, dues, userVars, hubVars, live, screenVars, pushVars, next>>

register(c) ==
    /\ pc[c] = "register"
    /\ clients' = clients \cup {c}
    /\ copy' = [copy EXCEPT ![c] = row[c]]
    /\ next' = [next EXCEPT ![c] = "greet"]
    /\ Go(c, "live")
    /\ UNCHANGED <<events, version, dues, userVars, live, open, screenVars, row, pushVars>>

\* The first full_state is built from the row that came with the token.
Greet(c) ==
    /\ pc[c] = "greet"
    /\ at' = [at EXCEPT ![c] = c]
    /\ got' = [got EXCEPT ![c] = row[c]]
    /\ back' = [back EXCEPT ![c] = "serve"]
    /\ Go(c, "build")
    /\ UNCHANGED <<events, version, dues, userVars, hubVars, live, open, screenVars,
                   row, todo, pay, next>>

\* get_state refreshes the user and sends a full_state.
GetState(c) ==
    /\ pc[c] = "serve" /\ c \in open
    /\ at' = [at EXCEPT ![c] = c]
    /\ UserByID(c, c)
    /\ back' = [back EXCEPT ![c] = "serve"]
    /\ Go(c, "assign")
    /\ UNCHANGED <<version, dues, userVars, hubVars, live, open, screenVars,
                   row, todo, pay, next>>

\* Mutant of Heartbeat: the listeners are not told.
HeartbeatUntold(c) ==
    /\ pc[c] = "serve" /\ c \in open
    /\ Change /\ dueTabs' = version'
    /\ UNCHANGED <<due, userVars, hubVars, live, open, screenVars, pc, localVars>>

\* A heartbeat changes the presence and is shown to the tabs only.
Heartbeat(c) ==
    /\ pc[c] = "serve" /\ c \in open
    /\ Change /\ dueTabs' = version'
    /\ Go(c, "live")
    /\ UNCHANGED <<due, userVars, hubVars, live, open, screenVars, localVars>>

\* disconnectUser takes the sessions out of the map, and closes them later.
disconnectUser(g) ==
    LET list == {c \in clients : UserOf[c] = at[g]} IN
    /\ pc[g] = "kick"
    /\ clients' = clients \ list
    /\ todo' = [todo EXCEPT ![g] = list]
    /\ at' = [at EXCEPT ![g] = None]
    /\ Go(g, IF list = {} THEN "broadcast" ELSE "close")
    /\ UNCHANGED <<events, version, dues, userVars, copy, live, open, screenVars,
                   row, got, pay, back, next>>

\* The error message, written without a deadline, and the close.
CloseSession(g, c) ==
    LET rest == todo[g] \ {c} IN
    /\ pc[g] = "close" /\ c \in todo[g]
    /\ open' = open \ {c}
    /\ todo' = [todo EXCEPT ![g] = rest]
    /\ next' = IF rest = {} THEN [next EXCEPT ![g] = "broadcast"] ELSE next
    /\ Go(g, IF rest = {} THEN "live" ELSE "close")
    /\ UNCHANGED <<events, version, dues, userVars, hubVars, live, screenVars,
                   row, at, got, pay, back>>

unregister(c) ==
    /\ pc[c] = "serve" /\ c \notin open
    /\ clients' = clients \ {c}
    /\ next' = IF c \in clients THEN [next EXCEPT ![c] = "gone"] ELSE next
    /\ Go(c, IF c \in clients THEN "live" ELSE "gone")
    /\ row' = [row EXCEPT ![c] = FALSE]
    /\ ForgetScreen(c)
    /\ UNCHANGED <<events, version, dues, userVars, copy, live, open, pushVars>>

PeerCloses(s) ==
    /\ s \in open
    /\ open' = open \ {s}
    /\ UNCHANGED <<events, version, dues, userVars, hubVars, live, screenVars, pc, localVars>>

-----------------------------------------------------------------------------
(* Changes by others, the tabs, and the role sync.                         *)

\* Mutant of ChangeState: the handler forgets BroadcastFullState.
ChangeStateUnsent(r) ==
    /\ pc[r] = "idle"
    /\ DueChange
    /\ Go(r, "idle")
    /\ UNCHANGED <<userVars, hubVars, live, open, screenVars, localVars>>

\* A web request of an admin, or an admin_* message, that changes something.
ChangeState(r) ==
    /\ pc[r] = "idle"
    /\ DueChange
    /\ Go(r, "broadcast")
    /\ UNCHANGED <<userVars, hubVars, live, open, screenVars, localVars>>

\* A handler of several statements that fails after the first one answers with
\* an error and broadcasts nothing, although what it wrote stays.
ChangeHalf(r) ==
    /\ pc[r] = "idle"
    /\ Change
    /\ UNCHANGED <<dues, userVars, hubVars, live, open, screenVars, pc, localVars>>

SetUserAccess(r, u, b) ==
    /\ pc[r] = "idle"
    /\ DueChange
    /\ revoked' = [revoked EXCEPT ![u] = b]
    /\ at' = [at EXCEPT ![r] = IF b THEN u ELSE None]
    /\ Go(r, IF b THEN "kick" ELSE "broadcast")
    /\ UNCHANGED <<role, hubVars, live, open, screenVars, row, todo, got, pay, back, next>>

\* handleLiveWS reads the row once; a revoked user or one without web access
\* is turned away ...
OpenTab(t) ==
    /\ pc[t] = "new"
    /\ ~revoked[UserOf[t]] /\ role[UserOf[t]]
    /\ row' = [row EXCEPT ![t] = role[UserOf[t]]]
    /\ Go(t, "accept")
    /\ UNCHANGED <<events, version, dues, userVars, hubVars, live, open, screenVars, pushVars, next>>

\* ... and the tab enters the map before it gets its first state.
AcceptTab(t) ==
    /\ pc[t] = "accept"
    /\ open' = open \cup {t}
    /\ live' = live \cup {t}
    /\ todo' = [todo EXCEPT ![t] = {t}]
    /\ Go(t, "tabs")
    /\ UNCHANGED <<events, version, dues, userVars, hubVars, screenVars, row, at, got, pay, back, next>>

TabLeaves(t) ==
    /\ pc[t] = "serve" /\ t \notin open
    /\ live' = live \ {t}
    /\ Go(t, "gone")
    /\ ForgetScreen(t)
    /\ UNCHANGED <<events, version, dues, userVars, hubVars, open, localVars>>

\* The role sync of the bot, another process, broadcasts nothing.
SetUserRoles(u) ==
    /\ Event
    /\ role' = [role EXCEPT ![u] = ~@]
    /\ UNCHANGED <<version, dues, revoked, hubVars, live, open, screenVars, pc, localVars>>

-----------------------------------------------------------------------------
\* The steps of a goroutine that wait for no message.
Push(g) ==
    \/ broadcastFullState(g) \/ AssignUser(g) \/ BuildFullState(g) \/ SendFullState(g)
    \/ broadcastLiveState(g) \/ disconnectUser(g)
    \/ \E c \in Conns : RefreshUser(g, c) \/ CloseSession(g, c)
    \/ \E t \in Tabs : BuildState(g, t) \/ PushState(g, t)

HubStep(c) ==
    register(c) \/ Greet(c) \/ unregister(c)

TabStep(t) == AcceptTab(t) \/ TabLeaves(t)

Step(g) ==
    \/ Push(g)
    \/ g \in Conns /\ HubStep(g)
    \/ g \in Tabs /\ TabStep(g)

\* What peers, admins and Discord start.
Environment ==
    \/ \E c \in Conns : Auth(c) \/ GetState(c) \/ Heartbeat(c)
    \/ \E t \in Tabs : OpenTab(t)
    \/ \E s \in Sockets : PeerCloses(s)
    \/ \E r \in Reqs :
        \/ ChangeState(r) \/ ChangeHalf(r)
        \/ \E u \in Users, b \in BOOLEAN : SetUserAccess(r, u, b)
    \/ \E u \in Users : SetUserRoles(u)

Track == lately' = {u \in Users : role'[u] \/ (u \in lately /\ ~Quiet')}

Next == (Environment \/ \E g \in Routines : Step(g)) /\ Track

Spec == Init /\ [][Next]_vars

\* The goroutine writes to an open desktop connection, or waits for its writeMu.
AtPeer(g) ==
    \/ pc[g] = "send" /\ at[g] \in open
    \/ pc[g] = "close" /\ todo[g] \cap open # {}

\* Any other goroutine goes on: queries and the writes to tabs have deadlines,
\* and a write to a closed socket fails.
FairSpec == Spec /\ \A g \in Routines : WF_vars(~AtPeer(g) /\ Step(g) /\ Track)

\* No desktop peer stops reading for ever without its connection failing.
PeersRead == \A g \in Routines : WF_vars(AtPeer(g) /\ Step(g) /\ Track)

-----------------------------------------------------------------------------
\* A full_state with the admin object goes to a desktop client only if its
\* user held the role since the hub was last quiet (hub.go:1112, "Refresh user
\* for admin flag / ACL"): overlapping pushes may hand an older row to each
\* other, a row from before all of them only if the refresh failed.
AdminStateNeedsRole ==
    \A g \in Routines :
        pc[g] = "send" /\ pay[g].admin /\ pay[g].fresh => UserOf[at[g]] \in lately

\* docs/web-admin.md:54: whenever the changes pause, every connected desktop
\* client comes to have a full_state with all of them whose handler answered ok,
\* also one that connected meanwhile, unless the push of that state to it failed
\* or lacked a part. One desktop peer that does not read can hold up the rest.
ChangesReachClients ==
    PeersRead => []<>(\A c \in clients : seen[c] >= due \/ missed[c] >= due)

\* docs/web-admin.md:55: the same for the open tabs, heartbeats included; the
\* tabs are told after the desktop clients and wait for these.
ChangesReachTabs ==
    PeersRead => []<>(\A t \in live : seen[t] >= dueTabs \/ missed[t] >= dueTabs)

\* docs/web-admin.md:42, "Revoked SSO users (access_revoked) cannot use the web
\* UI": once the requests have returned, no tab of such a user is fed.
RevokedHaveNoTab ==
    Quiet => \A t \in live : ~revoked[UserOf[t]]

-----------------------------------------------------------------------------
(* The inductive invariant of StateBroadcastProofs.                        *)

\* The hub's copy of a row says admin only of a user who held the role lately.
FreshCopy(c) == copy[c] => UserOf[c] \in lately

\* Where a goroutine stands between reading a client's row and the write.
SendingInv(g) ==
    /\ pay[g].v <= version
    /\ pc[g] \in {"assign", "build", "send"} => at[g] \in Conns
    /\ pc[g] = "assign" /\ got[g] # None => (got[g] => UserOf[at[g]] \in lately)
    /\ pc[g] = "build" /\ got[g] # None => FreshCopy(at[g])

\* The row that came with the token is as fresh, from the authentication to
\* the first full_state: until then the connection is not quiet.
GreetingInv(c) ==
    /\ pc[c] = "register" => (row[c] => UserOf[c] \in lately)
    /\ next[c] = "greet" => pc[c] \in {"live", "tabs", "push"}
    /\ pc[c] = "greet" \/ next[c] = "greet" => FreshCopy(c)

BroadcastIInv ==
    /\ TypeOK /\ AdminStateNeedsRole
    /\ \A g \in Routines : SendingInv(g)
    /\ \A c \in Conns : GreetingInv(c)
=============================================================================
