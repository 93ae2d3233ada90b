----------------------------- MODULE LoginRelay -----------------------------
(***************************************************************************)
(* The UDP login relay of one session (internal/sso/hub_relay.go): how a   *)
(* relay is created, used and closed, and when the login the user typed is *)
(* sent instead of the one of the vault.                                   *)
(*                                                                         *)
(* Three kinds of goroutine meet at client.relay and at the udpRelay it    *)
(* points to: the connection's (handleLoginRelayUp, and unregister when it *)
(* leaves), the one that runs disconnectUser, and relayReadLoop, one for   *)
(* each relay. client.relay is guarded by relayMu, the rest of a relay by  *)
(* its own mu, except that rel.conn is read without it.                    *)
(***************************************************************************)
EXTENDS Naturals

CONSTANTS
    Relays,      \* relays that the session can ever create (names the bound)
    MaxLogins,   \* bound on the spliced logins of the session
    NoRelay

ASSUME RelayAssumption ==
    /\ NoRelay \notin Relays
    /\ MaxLogins \in Nat

Logins == 1..MaxLogins

VARIABLES
    inMap,      \* the client's entry is in Hub.clients
    sock,       \* the WebSocket is open
    connPc,     \* the connection's goroutine
    discPc,     \* the goroutine that runs disconnectUser for this client
    relay,      \* client.relay
    held,       \* handleLoginRelayUp's rel
    out,        \* the login the handler is about to send, 0 for other packets
    connTook, discTook,  \* relay that closeRelay took out of client.relay
    status,     \* of each relay's socket
    loop,       \* where its relayReadLoop is
    fallback,   \* typedFallback: the login whose typed form it holds, or 0
    used,       \* typedRetryUsed
    retry,      \* the login whose typed form relayReadLoop is about to send
    logins,     \* logins spliced so far
    vaultSent,  \* logins sent upstream with the credentials of the vault
    typedSent,  \* how often each login was sent upstream as typed
    late        \* history: relays installed after disconnectUser's closeRelay

clientVars == <<inMap, sock, connPc, discPc>>
refVars == <<relay, held, connTook, discTook>>
relayVars == <<status, loop, late>>
typedVars == <<fallback, used, retry>>
wireVars == <<out, logins, vaultSent, typedSent>>
vars == <<clientVars, refVars, relayVars, typedVars, wireVars>>

MaybeRelay == Relays \cup {NoRelay}

TypeOK ==
    /\ inMap \in BOOLEAN /\ sock \in BOOLEAN
    /\ connPc \in {"reading", "install", "splice", "send", "leaving", "take",
                   "close", "done"}
    /\ discPc \in {"none", "take", "close", "shut", "done"}
    /\ relay \in MaybeRelay
    /\ held \in IF connPc \in {"install", "splice", "send"} THEN Relays ELSE {NoRelay}
    /\ connTook \in MaybeRelay /\ discTook \in MaybeRelay
    /\ status \in [Relays -> {"unborn", "bound", "open", "closed"}]
    /\ loop \in [Relays -> {"none", "check", "read", "retry", "ended"}]
    /\ late \subseteq Relays
    /\ fallback \in [Relays -> 0..MaxLogins]
    /\ used \in [Relays -> BOOLEAN]
    /\ retry \in [Relays -> 0..MaxLogins]
    /\ out \in 0..MaxLogins
    /\ logins \in 0..MaxLogins
    /\ vaultSent \subseteq Logins
    /\ typedSent \in [Logins -> 0..MaxLogins]

Init ==
    /\ inMap = TRUE /\ sock = TRUE
    /\ connPc = "reading" /\ discPc = "none"
    /\ relay = NoRelay /\ held = NoRelay
    /\ connTook = NoRelay /\ discTook = NoRelay
    /\ status = [r \in Relays |-> "unborn"]
    /\ loop = [r \in Relays |-> "none"]
    /\ late = {}
    /\ fallback = [r \in Relays |-> 0]
    /\ used = [r \in Relays |-> FALSE]
    /\ retry = [r \in Relays |-> 0]
    /\ out = 0 /\ logins = 0
    /\ vaultSent = {}
    /\ typedSent = [n \in Logins |-> 0]

-----------------------------------------------------------------------------
(* login_relay_up.                                                         *)

\* relayFor's condition: client.relay # nil and its conn # nil.
HasRelay == \E r \in Relays : relay = r /\ status[r] = "open"

\* relayFor finds the relay of the client.
RelayFound ==
    /\ connPc = "reading" /\ sock
    /\ HasRelay
    /\ held' = relay
    /\ connPc' = "splice"
    /\ UNCHANGED <<inMap, sock, discPc, relay, connTook, discTook, relayVars,
                   typedVars, wireVars>>

\* Mutant of RelayBind: an error of ListenUDP is dropped and the handler goes on.
RelayBindUnchecked(r) ==
    /\ connPc = "reading" /\ sock
    /\ ~HasRelay
    /\ connPc' = "install"
    /\ UNCHANGED <<inMap, sock, discPc, refVars, relayVars, typedVars, wireVars>>

\* relayFor finds none, releases relayMu and binds a socket.
RelayBind(r) ==
    /\ connPc = "reading" /\ sock
    /\ ~HasRelay
    /\ status[r] = "unborn"
    /\ status' = [status EXCEPT ![r] = "bound"]
    /\ held' = r
    /\ connPc' = "install"
    /\ UNCHANGED <<inMap, sock, discPc, relay, connTook, discTook, loop, late,
                   typedVars, wireVars>>

\* relayFor takes relayMu again and installs the relay. It looks for a relay
\* that another goroutine installed meanwhile, but only the connection's
\* goroutine calls relayFor.
RelayInstall ==
    /\ connPc = "install"
    /\ relay' = held
    /\ status' = [status EXCEPT ![held] = "open"]
    /\ loop' = [loop EXCEPT ![held] = "check"]
    /\ late' = IF discPc \in {"none", "take"} THEN late ELSE late \cup {held}
    /\ connPc' = "splice"
    /\ UNCHANGED <<inMap, sock, discPc, held, connTook, discTook, typedVars, wireVars>>

\* spliceLoginPacket drops the packet or fails: nothing is sent.
SpliceDrops ==
    /\ connPc = "splice"
    /\ held' = NoRelay
    /\ connPc' = "reading"
    /\ UNCHANGED <<inMap, sock, discPc, relay, connTook, discTook, relayVars,
                   typedVars, wireVars>>

\* The packet is no login or matches no account: it goes out as it is.
ForwardOriginal ==
    /\ connPc = "splice"
    /\ out' = 0
    /\ connPc' = "send"
    /\ UNCHANGED <<inMap, sock, discPc, refVars, relayVars, typedVars, logins,
                   vaultSent, typedSent>>

setTypedFallback(r, n) ==
    /\ fallback' = [fallback EXCEPT ![r] = n]
    /\ used' = [used EXCEPT ![r] = FALSE]

\* The packet gets the credentials of the vault; the typed one is kept when
\* its password differs.
SpliceLogin(differs) ==
    /\ connPc = "splice" /\ logins < MaxLogins
    /\ logins' = logins + 1
    /\ out' = logins'
    /\ IF differs THEN setTypedFallback(held, logins') ELSE UNCHANGED <<fallback, used>>
    /\ connPc' = "send"
    /\ UNCHANGED <<inMap, sock, discPc, refVars, relayVars, retry, vaultSent, typedSent>>

\* WriteToUDP. On a relay that was closed meanwhile it returns an error, or
\* panics when rel.conn is already nil: the HTTP server recovers and the
\* deferred unregister runs.
SendUp ==
    /\ connPc = "send"
    /\ \/ /\ status[held] = "open"
          /\ vaultSent' = vaultSent \cup ({out} \ {0})
          /\ connPc' = "reading"
       \/ /\ status[held] = "closed"
          /\ connPc' \in {"reading", "leaving"}
          /\ UNCHANGED vaultSent
    /\ held' = NoRelay /\ out' = 0
    /\ UNCHANGED <<inMap, sock, discPc, relay, connTook, discTook, relayVars,
                   typedVars, logins, typedSent>>

-----------------------------------------------------------------------------
(* The end of a session.                                                   *)

PeerGone ==
    /\ sock /\ connPc # "done"
    /\ sock' = FALSE
    /\ UNCHANGED <<inMap, connPc, discPc, refVars, relayVars, typedVars, wireVars>>

ReadFails ==
    /\ connPc = "reading" /\ ~sock
    /\ connPc' = "leaving"
    /\ UNCHANGED <<inMap, sock, discPc, refVars, relayVars, typedVars, wireVars>>

\* unregister closes the relay only when it finds the entry in Hub.clients.
Unregister ==
    /\ connPc = "leaving"
    /\ inMap' = FALSE
    /\ connPc' = IF inMap THEN "take" ELSE "done"
    /\ UNCHANGED <<sock, discPc, refVars, relayVars, typedVars, wireVars>>

\* closeRelay under relayMu, in unregister.
UnregisterTake ==
    /\ connPc = "take"
    /\ connTook' = relay
    /\ relay' = NoRelay
    /\ connPc' = "close"
    /\ UNCHANGED <<inMap, sock, discPc, held, discTook, relayVars, typedVars, wireVars>>

\* udpRelay.close: cancel the context, close the socket, forget it.
Closed(r) == [x \in Relays |-> IF x = r THEN "closed" ELSE status[x]]

\* Mutant of UnregisterClose: the relay is forgotten and not closed.
UnregisterForgets ==
    /\ connPc = "close"
    /\ connTook' = NoRelay
    /\ connPc' = "done"
    /\ UNCHANGED <<inMap, sock, discPc, relay, held, discTook, relayVars, typedVars,
                   wireVars>>

UnregisterClose ==
    /\ connPc = "close"
    /\ status' = Closed(connTook)
    /\ connTook' = NoRelay
    /\ connPc' = "done"
    /\ UNCHANGED <<inMap, sock, discPc, relay, held, discTook, loop, late, typedVars,
                   wireVars>>

\* disconnectUser takes the client out of Hub.clients.
Disconnect ==
    /\ discPc = "none" /\ inMap
    /\ inMap' = FALSE
    /\ discPc' = "take"
    /\ UNCHANGED <<sock, connPc, refVars, relayVars, typedVars, wireVars>>

DisconnectTake ==
    /\ discPc = "take"
    /\ discTook' = relay
    /\ relay' = NoRelay
    /\ discPc' = "close"
    /\ UNCHANGED <<inMap, sock, connPc, held, connTook, relayVars, typedVars, wireVars>>

\* Mutant of DisconnectClose: the relay is forgotten and not closed.
DisconnectForgets ==
    /\ discPc = "close"
    /\ discTook' = NoRelay
    /\ discPc' = "shut"
    /\ UNCHANGED <<inMap, sock, connPc, relay, held, connTook, relayVars, typedVars,
                   wireVars>>

DisconnectClose ==
    /\ discPc = "close"
    /\ status' = Closed(discTook)
    /\ discTook' = NoRelay
    /\ discPc' = "shut"
    /\ UNCHANGED <<inMap, sock, connPc, relay, held, connTook, loop, late, typedVars,
                   wireVars>>

\* The error frame is written and the WebSocket closed.
DisconnectShut ==
    /\ discPc = "shut"
    /\ sock' = FALSE
    /\ discPc' = "done"
    /\ UNCHANGED <<inMap, connPc, refVars, relayVars, typedVars, wireVars>>

-----------------------------------------------------------------------------
(* relayReadLoop.                                                          *)

\* The loop ends when its context is cancelled.
LoopCheck(r) ==
    /\ loop[r] = "check"
    /\ loop' = [loop EXCEPT ![r] = IF status[r] = "closed" THEN "ended" ELSE "read"]
    /\ UNCHANGED <<clientVars, refVars, status, late, typedVars, wireVars>>

\* The deadline passes, or a packet arrives that is no answer to a login:
\* the packet is written to the WebSocket. An error on the closed socket ends
\* the loop.
LoopRead(r) ==
    /\ loop[r] = "read"
    /\ loop' = [loop EXCEPT ![r] = IF status[r] = "closed" THEN "ended" ELSE "check"]
    /\ UNCHANGED <<clientVars, refVars, status, late, typedVars, wireVars>>

\* The upstream server has been asked something it can accept or refuse.
Asked == vaultSent # {} \/ \E n \in Logins : typedSent[n] > 0

\* A server list arrives: clearTypedFallback.
LoopSuccess(r) ==
    /\ loop[r] = "read" /\ status[r] = "open" /\ Asked
    /\ fallback' = [fallback EXCEPT ![r] = 0]
    /\ used' = [used EXCEPT ![r] = TRUE]
    /\ loop' = [loop EXCEPT ![r] = "check"]
    /\ UNCHANGED <<clientVars, refVars, status, late, retry, wireVars>>

\* Mutant of takeTypedRetry: the fallback stays and is not marked as used.
TakeAgain(r) ==
    /\ retry' = [retry EXCEPT ![r] = fallback[r]]
    /\ UNCHANGED <<fallback, used>>

takeTypedRetry(r) ==
    /\ retry' = [retry EXCEPT ![r] = fallback[r]]
    /\ used' = [used EXCEPT ![r] = TRUE]
    /\ fallback' = [fallback EXCEPT ![r] = 0]

\* A refusal arrives: the typed login is tried, once, or the refusal is
\* passed on to the client.
LoopFailure(r) ==
    /\ loop[r] = "read" /\ status[r] = "open" /\ Asked
    /\ \/ /\ ~used[r] /\ fallback[r] # 0
          /\ takeTypedRetry(r)
          /\ loop' = [loop EXCEPT ![r] = "retry"]
       \/ /\ used[r] \/ fallback[r] = 0
          /\ loop' = [loop EXCEPT ![r] = "check"]
          /\ UNCHANGED typedVars
    /\ UNCHANGED <<clientVars, refVars, status, late, wireVars>>

\* The typed login is written to the upstream server, or the write fails
\* because the relay was closed.
LoopRetry(r) ==
    /\ loop[r] = "retry"
    /\ typedSent' = IF status[r] = "open"
                    THEN [typedSent EXCEPT ![retry[r]] = @ + 1] ELSE typedSent
    /\ retry' = [retry EXCEPT ![r] = 0]
    /\ loop' = [loop EXCEPT ![r] = "check"]
    /\ UNCHANGED <<clientVars, refVars, status, late, fallback, used, out, logins,
                   vaultSent>>

\* close has set rel.conn to nil and the loop uses it: nothing recovers the
\* panic of this goroutine, and the process dies with everything in it.
LoopPanics(r) ==
    /\ loop[r] \in {"read", "retry"} /\ status[r] = "closed"
    /\ inMap' = FALSE /\ sock' = FALSE
    /\ connPc' = "done" /\ discPc' = "done"
    /\ relay' = NoRelay /\ held' = NoRelay
    /\ connTook' = NoRelay /\ discTook' = NoRelay
    /\ status' = [x \in Relays |-> "closed"]
    /\ loop' = [x \in Relays |-> "ended"]
    /\ UNCHANGED <<late, typedVars, wireVars>>

-----------------------------------------------------------------------------
HandlerStep ==
    \/ RelayInstall \/ SpliceDrops \/ ForwardOriginal
    \/ \E differs \in BOOLEAN : SpliceLogin(differs)
    \/ SendUp
ConnStep ==
    HandlerStep \/ ReadFails \/ Unregister \/ UnregisterTake \/ UnregisterClose
DiscStep == DisconnectTake \/ DisconnectClose \/ DisconnectShut
LoopStep(r) == LoopCheck(r) \/ LoopRead(r) \/ LoopRetry(r)

Next ==
    \/ RelayFound \/ (\E r \in Relays : RelayBind(r))
    \/ ConnStep \/ PeerGone \/ Disconnect \/ DiscStep
    \/ \E r \in Relays :
        LoopStep(r) \/ LoopSuccess(r) \/ LoopFailure(r) \/ LoopPanics(r)

\* Goroutines run; the peer, admins and the upstream server owe nothing.
Fairness ==
    /\ WF_vars(ConnStep) /\ WF_vars(DiscStep)
    /\ \A r \in Relays : WF_vars(LoopStep(r))

Spec == Init /\ [][Next]_vars
FairSpec == Spec /\ Fairness

-----------------------------------------------------------------------------
(* Properties.                                                             *)

\* When a session is over, a relay that is still open was installed after
\* disconnectUser had closed the client's relay: unregister then finds no
\* entry in Hub.clients and leaves the socket and its goroutine behind.
OrphansAreLate ==
    connPc = "done" /\ discPc \in {"none", "done"} =>
        \A r \in Relays : status[r] = "open" => r \in late

\* The relay loop of a session that ends is gone some time later, except for
\* the late relays.
RelayLoopEnds ==
    \A r \in Relays :
        connPc = "done" /\ loop[r] # "none" /\ r \notin late ~> loop[r] = "ended"

\* hub_relay_test.go: "retry must be single-shot". No login is sent as typed
\* more than once, however many refusals arrive.
RetryIsSingleShot == \A n \in Logins : typedSent[n] <= 1

-----------------------------------------------------------------------------
(* The parts of the inductive invariant.                                   *)

\* Every open relay is reachable from the client or from a closeRelay.
OpenRelaysAreHeld ==
    \A r \in Relays : status[r] = "open" => r \in {relay, connTook, discTook}

\* Who is to close the relay of the client.
CloserInv ==
    /\ inMap => discPc = "none" /\ connPc \notin {"take", "close", "done"}
    /\ ~inMap /\ connPc \notin {"take", "close", "done"} => discPc # "none"
    /\ connPc \in {"take", "close"} => discPc = "none"
    /\ connPc \in {"close", "done"} /\ discPc = "none" => relay = NoRelay
    /\ connPc = "install" => ~HasRelay
    /\ connPc # "close" => connTook = NoRelay
    /\ discPc # "close" => discTook = NoRelay
    /\ discPc \in {"close", "shut", "done"} /\ relay # NoRelay => relay \in late

\* A login is in one place only: kept as fallback, about to be retried, sent.
KeptLogins ==
    \A r \in Relays :
        /\ fallback[r] <= logins /\ retry[r] <= logins
        /\ loop[r] = "retry" => retry[r] # 0
KeptApart ==
    \A r, s \in Relays :
        /\ fallback[r] # 0 => fallback[r] # retry[s]
        /\ fallback[r] # 0 /\ fallback[r] = fallback[s] => r = s
        /\ retry[r] # 0 /\ retry[r] = retry[s] => r = s
KeptUnsent ==
    \A n \in Logins :
        n > logins \/ (\E r \in Relays : n \in {fallback[r], retry[r]}) => typedSent[n] = 0
TypedInv == KeptLogins /\ KeptApart /\ KeptUnsent

RelayIInv ==
    TypeOK /\ OpenRelaysAreHeld /\ CloserInv /\ TypedInv /\ RetryIsSingleShot

=============================================================================
