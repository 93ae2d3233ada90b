----------------------------- MODULE SsoSession -----------------------------
(***************************************************************************)
(* Tokens, access revocation and the life of a WebSocket session.          *)
(*                                                                         *)
(* Four kinds of actor share the database rows users.access_revoked and    *)
(* api_tokens and the hub's clients map:                                   *)
(*   - issuers: /sso get of the Discord bot and cmd/seedtoken;             *)
(*   - connection goroutines: Hub.ServeHTTP, one per WebSocket;            *)
(*   - executors of admin_set_user_access: a connection goroutine or a     *)
(*     request of the web UI (the backup import sets the flag as well);    *)
(*   - the peer and the process, which may go away at any time.            *)
(*                                                                         *)
(* An action is one SQL statement or one section under clientsMu, the      *)
(* granularity at which goroutines and processes interleave.               *)
(***************************************************************************)
EXTENDS Naturals, FiniteSets

CONSTANTS
    Users, AdminUsers,   \* users; the ones the hub or the web UI lets administer
    Tokens,              \* secrets that can ever be minted (names the bound)
    Readable,            \* tokens whose token_cipher still opens
    Issuers,             \* concurrent /sso get interactions
    Conns,               \* WebSocket connections the hub serves at a time
    WebReqs,             \* concurrent requests of the web UI
    DBFails,             \* whether a statement whose error is dropped may fail
    NoUser, NoToken

ASSUME SessionAssumption ==
    /\ AdminUsers \subseteq Users
    /\ NoUser \notin Users
    /\ NoToken \notin Tokens
    /\ Conns \cap WebReqs = {}
    /\ DBFails \in BOOLEAN

VARIABLES
    accessRevoked,  \* users.access_revoked
    tokenUser,      \* api_tokens.user_id, NoUser while the row does not exist
    live,           \* rows of api_tokens with revoked_at IS NULL
    issuerPc, issuerUser,
    pc,             \* where the goroutine of a connection is
    found,          \* user id that the token lookup of UserByToken returned
    authUser,       \* ServeHTTP's user, NoUser while authed is false
    clients,        \* user of the connection's entry in Hub.clients
    open,           \* the socket is open
    opPc, opUser,   \* an execution of SetUserAccessRevoked and what follows
    closing,        \* sessions disconnectUser collected and has not closed yet
    missed          \* history: the revocation in force was written when
                    \* disconnectUser could not find this session

dbVars == <<accessRevoked, tokenUser, live>>
issuerVars == <<issuerPc, issuerUser>>
connVars == <<pc, found, authUser, clients, open>>
opVars == <<opPc, opUser, closing>>
vars == <<dbVars, issuerVars, connVars, opVars, missed>>

Exec == Conns \cup WebReqs
MaybeUser == Users \cup {NoUser}

TypeOK ==
    /\ accessRevoked \in [Users -> BOOLEAN]
    /\ tokenUser \in [Tokens -> MaybeUser]
    /\ live \in SUBSET {t \in Tokens : tokenUser[t] # NoUser}
    /\ issuerPc \in [Issuers -> {"idle", "check", "rotate", "insert"}]
    /\ issuerUser \in [Issuers -> MaybeUser]
    /\ pc \in [Conns -> {"idle", "reading", "lookup", "admitted", "replaced",
                         "handling", "leaving"}]
    /\ found \in [Conns -> MaybeUser]
    /\ authUser \in [Conns -> MaybeUser]
    /\ clients \in [Conns -> MaybeUser]
    /\ open \in [Conns -> BOOLEAN]
    /\ opPc \in [Exec -> {"none", "flagged", "killed", "closing", "import"}]
    /\ opUser \in [Exec -> MaybeUser]
    /\ closing \in [Exec -> SUBSET Conns]
    /\ missed \in [Conns -> BOOLEAN]

Init ==
    /\ accessRevoked = [u \in Users |-> FALSE]
    /\ tokenUser = [t \in Tokens |-> NoUser]
    /\ live = {}
    /\ issuerPc = [i \in Issuers |-> "idle"]
    /\ issuerUser = [i \in Issuers |-> NoUser]
    /\ pc = [c \in Conns |-> "idle"]
    /\ found = [c \in Conns |-> NoUser]
    /\ authUser = [c \in Conns |-> NoUser]
    /\ clients = [c \in Conns |-> NoUser]
    /\ open = [c \in Conns |-> FALSE]
    /\ opPc = [e \in Exec |-> "none"]
    /\ opUser = [e \in Exec |-> NoUser]
    /\ closing = [e \in Exec |-> {}]
    /\ missed = [c \in Conns |-> FALSE]

LiveTokens(u) == {t \in live : tokenUser[t] = u}

IssuerReturns(i) ==
    /\ issuerPc' = [issuerPc EXCEPT ![i] = "idle"]
    /\ issuerUser' = [issuerUser EXCEPT ![i] = NoUser]

-----------------------------------------------------------------------------
(* Issuing and revoking tokens.                                            *)

\* resolveSSOTokenSecret found no active token whose secret it can decrypt.
GetToken(i, u) ==
    /\ issuerPc[i] = "idle"
    /\ LiveTokens(u) \cap Readable = {}
    /\ issuerPc' = [issuerPc EXCEPT ![i] = "check"]
    /\ issuerUser' = [issuerUser EXCEPT ![i] = u]
    /\ UNCHANGED <<dbVars, connVars, opVars, missed>>

\* cmd/seedtoken calls CreateToken whether or not there is an active token.
SeedToken(i, u) ==
    /\ issuerPc[i] = "idle"
    /\ issuerPc' = [issuerPc EXCEPT ![i] = "check"]
    /\ issuerUser' = [issuerUser EXCEPT ![i] = u]
    /\ UNCHANGED <<dbVars, connVars, opVars, missed>>

\* CreateToken reads the user and refuses a revoked one.
CreateTokenCheck(i) ==
    /\ issuerPc[i] = "check"
    /\ \/ accessRevoked[issuerUser[i]] /\ IssuerReturns(i)
       \/ /\ ~accessRevoked[issuerUser[i]]
          /\ issuerPc' = [issuerPc EXCEPT ![i] = "rotate"]
          /\ UNCHANGED issuerUser
    /\ UNCHANGED <<dbVars, connVars, opVars, missed>>

\* CreateToken revokes the active tokens of the user.
CreateTokenRotate(i) ==
    /\ issuerPc[i] = "rotate"
    /\ live' = live \ LiveTokens(issuerUser[i])
    /\ issuerPc' = [issuerPc EXCEPT ![i] = "insert"]
    /\ UNCHANGED <<accessRevoked, tokenUser, issuerUser, connVars, opVars, missed>>

\* Mutant of IndexAccepts: migration 003 is missing.
NoUniqueIndex(u) == u \in Users

\* The unique index api_tokens_one_active_per_user accepts the new row.
IndexAccepts(u) == LiveTokens(u) = {}

\* Mutant of CreateTokenInsert: the row is inserted without its user_id.
InsertWithoutUser(i) ==
    /\ issuerPc[i] = "insert"
    /\ \E t \in Tokens : tokenUser[t] = NoUser /\ live' = live \cup {t}
    /\ IssuerReturns(i)
    /\ UNCHANGED <<accessRevoked, tokenUser, connVars, opVars, missed>>

\* CreateToken inserts the new row, or fails on the unique index.
CreateTokenInsert(i) ==
    /\ issuerPc[i] = "insert"
    /\ \/ /\ IndexAccepts(issuerUser[i])
          /\ \E t \in Tokens :
                /\ tokenUser[t] = NoUser
                /\ tokenUser' = [tokenUser EXCEPT ![t] = issuerUser[i]]
                /\ live' = live \cup {t}
       \/ /\ ~IndexAccepts(issuerUser[i])
          /\ UNCHANGED <<tokenUser, live>>
    /\ IssuerReturns(i)
    /\ UNCHANGED <<accessRevoked, connVars, opVars, missed>>

\* A statement of CreateToken fails, or the issuing process dies.
IssuerAborts(i) ==
    /\ issuerPc[i] # "idle"
    /\ IssuerReturns(i)
    /\ UNCHANGED <<dbVars, connVars, opVars, missed>>

\* /sso revoke: one statement, for the given token or for all of the user's.
RevokeToken(u, which) ==
    /\ LiveTokens(u) \cap which # {}
    /\ live' = live \ (LiveTokens(u) \cap which)
    /\ UNCHANGED <<accessRevoked, tokenUser, issuerVars, connVars, opVars, missed>>

-----------------------------------------------------------------------------
(* A connection: accept, the auth handshake, and the end.                  *)

Accept(c) ==
    /\ pc[c] = "idle"
    /\ pc' = [pc EXCEPT ![c] = "reading"]
    /\ open' = [open EXCEPT ![c] = TRUE]
    /\ UNCHANGED <<dbVars, issuerVars, found, authUser, clients, opVars, missed>>

\* First query of UserByToken: the token is active.
AuthLookup(c, t) ==
    /\ pc[c] = "reading" /\ open[c]
    /\ t \in live
    /\ found' = [found EXCEPT ![c] = tokenUser[t]]
    /\ pc' = [pc EXCEPT ![c] = "lookup"]
    /\ UNCHANGED <<dbVars, issuerVars, authUser, clients, open, opVars, missed>>

\* A bad protocol version or a token with no active row: close and return.
AuthReject(c) ==
    /\ pc[c] = "reading" /\ open[c]
    /\ pc' = [pc EXCEPT ![c] = "leaving"]
    /\ open' = [open EXCEPT ![c] = FALSE]
    /\ UNCHANGED <<dbVars, issuerVars, found, authUser, clients, opVars, missed>>

\* Mutant of AuthAdmit: UserByToken does not look at AccessRevoked.
AdmitUnchecked(c) ==
    /\ pc[c] = "lookup"
    /\ authUser' = [authUser EXCEPT ![c] = found[c]]
    /\ found' = [found EXCEPT ![c] = NoUser]
    /\ pc' = [pc EXCEPT ![c] = "admitted"]
    /\ missed' = [missed EXCEPT ![c] = FALSE]
    /\ UNCHANGED <<dbVars, issuerVars, clients, open, opVars>>

\* Second query of UserByToken: the user row decides; then user and authed
\* are assigned.
AuthAdmit(c) ==
    /\ pc[c] = "lookup"
    /\ ~accessRevoked[found[c]]
    /\ authUser' = [authUser EXCEPT ![c] = found[c]]
    /\ found' = [found EXCEPT ![c] = NoUser]
    /\ pc' = [pc EXCEPT ![c] = "admitted"]
    /\ missed' = [missed EXCEPT ![c] = FALSE]
    /\ UNCHANGED <<dbVars, issuerVars, clients, open, opVars>>

AuthRefuse(c) ==
    /\ pc[c] = "lookup"
    /\ accessRevoked[found[c]]
    /\ found' = [found EXCEPT ![c] = NoUser]
    /\ pc' = [pc EXCEPT ![c] = "leaving"]
    /\ open' = [open EXCEPT ![c] = FALSE]
    /\ UNCHANGED <<dbVars, issuerVars, authUser, clients, opVars, missed>>

\* A repeated auth first unregisters the connection's previous client.
AuthReplace(c) ==
    /\ pc[c] = "admitted"
    /\ clients' = [clients EXCEPT ![c] = NoUser]
    /\ pc' = [pc EXCEPT ![c] = "replaced"]
    /\ UNCHANGED <<dbVars, issuerVars, found, authUser, open, opVars, missed>>

\* register: the connection appears in Hub.clients.
AuthRegister(c) ==
    /\ pc[c] = "replaced"
    /\ clients' = [clients EXCEPT ![c] = authUser[c]]
    /\ pc' = [pc EXCEPT ![c] = "reading"]
    /\ UNCHANGED <<dbVars, issuerVars, found, authUser, open, opVars, missed>>

\* The peer or the network ends the connection.
PeerGone(c) ==
    /\ pc[c] # "idle" /\ open[c]
    /\ open' = [open EXCEPT ![c] = FALSE]
    /\ UNCHANGED <<dbVars, issuerVars, pc, found, authUser, clients, opVars, missed>>

\* c.Read returns an error and the loop ends.
ReadFails(c) ==
    /\ pc[c] = "reading" /\ ~open[c]
    /\ pc' = [pc EXCEPT ![c] = "leaving"]
    /\ UNCHANGED <<dbVars, issuerVars, found, authUser, clients, open, opVars, missed>>

\* Mutant of Unregister: the entry stays in Hub.clients.
LeaveEntryBehind(c) ==
    /\ pc[c] = "leaving"
    /\ pc' = [pc EXCEPT ![c] = "idle"]
    /\ authUser' = [authUser EXCEPT ![c] = NoUser]
    /\ closing' = [e \in Exec |-> closing[e] \ {c}]
    /\ missed' = [missed EXCEPT ![c] = FALSE]
    /\ UNCHANGED <<dbVars, issuerVars, found, clients, open, opPc, opUser>>

\* The deferred unregister; closing a connection that is gone does nothing,
\* so the slot leaves the closing sets as well.
Unregister(c) ==
    /\ pc[c] = "leaving"
    /\ clients' = [clients EXCEPT ![c] = NoUser]
    /\ pc' = [pc EXCEPT ![c] = "idle"]
    /\ authUser' = [authUser EXCEPT ![c] = NoUser]
    /\ closing' = [e \in Exec |-> closing[e] \ {c}]
    /\ missed' = [missed EXCEPT ![c] = FALSE]
    /\ UNCHANGED <<dbVars, issuerVars, found, open, opPc, opUser>>

-----------------------------------------------------------------------------
(* admin_set_user_access, from the socket or from the web UI, and the      *)
(* backup import.                                                          *)

\* Sessions of u that passed the access check and are not in Hub.clients.
Unseen(u) == {c \in Conns : pc[c] \in {"admitted", "replaced"} /\ authUser[c] = u}

\* First statement of SetUserAccessRevoked(u, true), run by e.
SetFlag(e, u, next) ==
    /\ opPc[e] = "none"
    /\ accessRevoked' = [accessRevoked EXCEPT ![u] = TRUE]
    /\ opPc' = [opPc EXCEPT ![e] = next]
    /\ opUser' = [opUser EXCEPT ![e] = u]
    /\ UNCHANGED <<tokenUser, live, issuerVars, found, authUser, clients, open,
                   closing>>

\* A web admin other than u revokes u. requireAuth looked at the flag of the
\* admin when the request came in; it may have been set since.
WebRevoke(w, u) ==
    /\ AdminUsers \ {u} # {}
    /\ SetFlag(w, u, "flagged")
    /\ missed' = [c \in Conns |-> missed[c] \/ c \in Unseen(u)]
    /\ UNCHANGED pc

\* An admin session revokes another user; its goroutine is busy meanwhile.
WsRevoke(c, u) ==
    /\ pc[c] = "reading" /\ open[c]
    /\ authUser[c] \in AdminUsers \ {u}
    /\ SetFlag(c, u, "flagged")
    /\ missed' = [d \in Conns |-> missed[d] \/ d \in Unseen(u)]
    /\ pc' = [pc EXCEPT ![c] = "handling"]

\* The backup import of an admin revokes u, whoever that is, and closes nothing.
ImportRevoke(w, u) ==
    /\ AdminUsers # {}
    /\ SetFlag(w, u, "import")
    /\ missed' = [c \in Conns |-> missed[c] \/ authUser[c] = u]
    /\ UNCHANGED pc

\* Second statement of SetUserAccessRevoked; its error is dropped.
KillTokens(e) ==
    /\ opPc[e] \in {"flagged", "import"}
    /\ \/ live' = live \ LiveTokens(opUser[e])
       \/ DBFails /\ UNCHANGED live
    /\ opPc' = [opPc EXCEPT ![e] = IF @ = "import" THEN "none" ELSE "killed"]
    /\ opUser' = [opUser EXCEPT ![e] = IF opPc[e] = "import" THEN NoUser ELSE @]
    /\ UNCHANGED <<accessRevoked, tokenUser, issuerVars, connVars, closing, missed>>

\* disconnectUser under clientsMu: take the user's clients out of the map.
Collect(e) ==
    /\ opPc[e] = "killed"
    /\ LET mine == {c \in Conns : clients[c] = opUser[e]} IN
        /\ closing' = [closing EXCEPT ![e] = mine]
        /\ clients' = [c \in Conns |-> IF c \in mine THEN NoUser ELSE clients[c]]
        /\ missed' = [c \in Conns |->
                        missed[c] /\ ~(c \in mine /\ authUser[c] = opUser[e])]
    /\ opPc' = [opPc EXCEPT ![e] = "closing"]
    /\ UNCHANGED <<dbVars, issuerVars, pc, found, authUser, open, opUser>>

\* Mutant of CloseOne: the error frame is sent and the socket stays open.
ForgetClose(e, c) ==
    /\ opPc[e] = "closing" /\ c \in closing[e]
    /\ closing' = [closing EXCEPT ![e] = @ \ {c}]
    /\ UNCHANGED <<dbVars, issuerVars, connVars, opPc, opUser, missed>>

\* disconnectUser closes the sockets it collected, one after the other: the
\* relay, then the error frame, then the socket. The frame is written without
\* a deadline, so while the peer does not read this step is not taken.
CloseOne(e, c) ==
    /\ opPc[e] = "closing" /\ c \in closing[e]
    /\ open' = [open EXCEPT ![c] = FALSE]
    /\ closing' = [closing EXCEPT ![e] = @ \ {c}]
    /\ UNCHANGED <<dbVars, issuerVars, pc, found, authUser, clients, opPc, opUser,
                   missed>>

\* The reply is written and the handler returns.
OpDone(e) ==
    /\ opPc[e] = "closing" /\ closing[e] = {}
    /\ opPc' = [opPc EXCEPT ![e] = "none"]
    /\ opUser' = [opUser EXCEPT ![e] = NoUser]
    /\ pc' = [c \in Conns |-> IF c = e THEN "reading" ELSE pc[c]]
    /\ UNCHANGED <<dbVars, issuerVars, found, authUser, clients, open, closing, missed>>

\* SetUserAccessRevoked(u, false) is one statement; an admin session or a web
\* admin may send it, for itself too.
Restore(u) ==
    /\ accessRevoked[u]
    /\ \/ AdminUsers # {} /\ \E w \in WebReqs : opPc[w] = "none"
       \/ \E c \in Conns : pc[c] = "reading" /\ open[c] /\ authUser[c] \in AdminUsers
    /\ accessRevoked' = [accessRevoked EXCEPT ![u] = FALSE]
    /\ missed' = [c \in Conns |-> missed[c] /\ authUser[c] # u]
    /\ UNCHANGED <<tokenUser, live, issuerVars, connVars, opVars>>

\* The web process dies: every connection and every running handler is lost,
\* the database stays as it is.
Crash ==
    /\ pc' = [c \in Conns |-> "idle"]
    /\ found' = [c \in Conns |-> NoUser]
    /\ authUser' = [c \in Conns |-> NoUser]
    /\ clients' = [c \in Conns |-> NoUser]
    /\ open' = [c \in Conns |-> FALSE]
    /\ opPc' = [e \in Exec |-> "none"]
    /\ opUser' = [e \in Exec |-> NoUser]
    /\ closing' = [e \in Exec |-> {}]
    /\ missed' = [c \in Conns |-> FALSE]
    /\ UNCHANGED <<dbVars, issuerVars>>

-----------------------------------------------------------------------------
ConnStep(c) ==
    \/ AuthAdmit(c) \/ AuthRefuse(c) \/ AuthReplace(c) \/ AuthRegister(c)
    \/ ReadFails(c) \/ Unregister(c)

OpStep(e) ==
    \/ KillTokens(e) \/ Collect(e) \/ OpDone(e)
    \/ \E c \in Conns : CloseOne(e, c)

\* Issuing and revoking tokens.
TokenNext ==
    \/ \E i \in Issuers :
        \/ \E u \in Users : GetToken(i, u) \/ SeedToken(i, u)
        \/ CreateTokenCheck(i) \/ CreateTokenRotate(i) \/ CreateTokenInsert(i)
        \/ IssuerAborts(i)
    \/ \E u \in Users : \/ \E t \in Tokens : RevokeToken(u, {t})
                        \/ RevokeToken(u, Tokens)

\* Everything but the backup import and the death of the process.
ServeNext ==
    \/ TokenNext
    \/ \E c \in Conns :
        \/ Accept(c) \/ AuthReject(c) \/ PeerGone(c) \/ ConnStep(c)
        \/ \E t \in Tokens : AuthLookup(c, t)
        \/ \E u \in Users : WsRevoke(c, u)
    \/ \E w \in WebReqs, u \in Users : WebRevoke(w, u)
    \/ \E e \in Exec : OpStep(e)
    \/ \E u \in Users : Restore(u)

Next ==
    \/ ServeNext
    \/ \E w \in WebReqs, u \in Users : ImportRevoke(w, u)
    \/ Crash

\* What a goroutine does without waiting for a peer. writeJSON has no deadline
\* here: a write to an open socket may block, one to a closed socket fails.
ConnRuns(c) ==
    \/ AuthAdmit(c) \/ AuthReplace(c) \/ AuthRegister(c)
    \/ ReadFails(c) \/ Unregister(c)
    \/ ~open[c] /\ AuthRefuse(c)

OpRuns(e) ==
    \/ KillTokens(e) \/ Collect(e)
    \/ (e \in Conns => ~open[e]) /\ OpDone(e)
    \/ \E c \in Conns : ~open[c] /\ CloseOne(e, c)

\* The scheduler runs every goroutine that waits for nobody; messages, admins
\* and peers owe nothing, not even to read what is sent to them.
Fairness ==
    /\ \A c \in Conns : WF_vars(ConnRuns(c))
    /\ \A e \in Exec : WF_vars(OpRuns(e))

\* The peers of the sessions that are being closed read the error frame, or
\* go away: the write in disconnectUser returns.
PeersRead == \A e \in Exec : WF_vars(\E c \in Conns : CloseOne(e, c))

Spec == Init /\ [][Next]_vars
FairSpec == Spec /\ Fairness

\* Behaviours in which nobody imports a backup and the process stays up.
ServeSpec == Init /\ [][ServeNext]_vars

-----------------------------------------------------------------------------
(* Properties.                                                             *)

\* The slot of the abstract vault that a set of live rows fills.
Slot(rows) == IF rows = {} THEN NoToken ELSE CHOOSE t \in rows : TRUE
Current == [u \in Users |-> Slot(LiveTokens(u))]
Minted == {t \in Tokens : tokenUser[t] # NoUser}
Vault == INSTANCE TokenVault WITH current <- Current, minted <- Minted

\* The rows of api_tokens behave as one slot per user, whatever the order in
\* which CreateToken, RevokeToken and SetUserAccessRevoked interleave.
VaultSpec == Vault!VaultSpec

OpOn(u) == \E e \in Exec : opUser[e] = u

\* A session acts for u: its goroutine is authenticated as u and its socket
\* still delivers messages.
Serves(c, u) == pc[c] \notin {"idle", "leaving"} /\ open[c] /\ authUser[c] = u

\* When no revocation of u is under way and u is revoked, the only sessions
\* that still act for u are those that disconnectUser could not see when the
\* flag was written: between UserByToken and register, or under an import.
RevokedSessionsAreMissed ==
    \A c \in Conns, u \in Users :
        Serves(c, u) /\ accessRevoked[u] /\ ~OpOn(u) => missed[c]

\* Hub.clients holds no entry of a goroutine that has returned, and an entry
\* names the user its goroutine is authenticated as, except while a repeated
\* auth is about to replace it.
ClientsAreServed ==
    \A c \in Conns :
        clients[c] # NoUser =>
            /\ pc[c] # "idle"
            /\ pc[c] # "admitted" => clients[c] = authUser[c]

ActsForNobodyRevoked(c) == authUser[c] # NoUser => ~accessRevoked[authUser[c]]

\* If the peers that are told of it read, a session that is registered when
\* the revocation of its user is written, and is not past the access check of a
\* repeated auth, loses its authentication, unless access is restored meanwhile
\* or the session has become another user's, who is not revoked, by then.
\* Without the premise it need not: one peer that does not read keeps
\* disconnectUser from closing its session and the ones after it.
RevokedSessionEnds ==
    PeersRead =>
        \A c \in Conns :
            /\ clients[c] # NoUser /\ pc[c] # "admitted"
            /\ \E e \in Exec : opUser[e] = clients[c] /\ opPc[e] = "flagged"
            ~> ActsForNobodyRevoked(c)

-----------------------------------------------------------------------------
(* The inductive invariant behind RevokedSessionsAreMissed.                *)

\* What the program counters say about the locals.
LocalsInv ==
    /\ \A i \in Issuers : issuerPc[i] # "idle" => issuerUser[i] \in Users
    /\ \A c \in Conns :
        /\ pc[c] = "idle" => authUser[c] = NoUser
        /\ pc[c] = "lookup" => found[c] \in Users
        /\ pc[c] \in {"admitted", "replaced"} => authUser[c] \in Users
        /\ opPc[c] # "none" => pc[c] = "handling"
    /\ \A e \in Exec :
        /\ opPc[e] # "none" => opUser[e] \in Users
        /\ opPc[e] # "closing" => closing[e] = {}

\* c was collected by a disconnectUser for u and is about to be closed.
Doomed(c, u) ==
    \E e \in Exec : opPc[e] = "closing" /\ opUser[e] = u /\ c \in closing[e]

\* An authenticated session that is not inside a handshake can be found: it
\* is in Hub.clients, or disconnectUser already holds it.
SessionsAreFindable ==
    \A c \in Conns, u \in Users :
        pc[c] \in {"reading", "lookup", "handling"} /\ open[c] /\ authUser[c] = u
            => clients[c] = u \/ Doomed(c, u)

\* A session of a revoked user that was not missed is about to be collected
\* or about to be closed.
RevocationReaches ==
    \A c \in Conns, u \in Users :
        Serves(c, u) /\ accessRevoked[u] /\ ~missed[c] =>
            \/ Doomed(c, u)
            \/ /\ pc[c] \notin {"admitted", "replaced"} /\ clients[c] = u
               /\ \E e \in Exec : opPc[e] \in {"flagged", "killed"} /\ opUser[e] = u

SessionIInv ==
    /\ TypeOK /\ LocalsInv /\ ClientsAreServed
    /\ SessionsAreFindable /\ RevocationReaches

\* At most one live row per user.
OneLiveToken ==
    \A t1, t2 \in live : tokenUser[t1] = tokenUser[t2] => t1 = t2

-----------------------------------------------------------------------------
(* What the documentation says and the code does not do.                   *)

\* docs/ws-api.md on admin_set_user_access: "When revoked is true, active
\* tokens are revoked and WS sessions for that user are closed". Here for the
\* sessions, with no exception.
RevokedSessionsClosed ==
    \A c \in Conns, u \in Users :
        Serves(c, u) /\ clients[c] = u /\ accessRevoked[u] => OpOn(u)
=============================================================================
