-------------------------- MODULE LoginRelayProofs --------------------------
(***************************************************************************)
(* Proofs about LoginRelay, for every number of relays and logins.         *)
(***************************************************************************)
EXTENDS LoginRelay, TLAPS

\* Every step keeps the types.
LEMMA TypeStep ==
  TypeOK /\ TypedInv /\ [Next]_vars => TypeOK'
<1> SUFFICES ASSUME TypeOK /\ TypedInv, [Next]_vars
             PROVE  TypeOK'
    OBVIOUS
<1> USE RelayAssumption DEF TypeOK, MaybeRelay, Logins, vars, clientVars, refVars, relayVars, typedVars,
        wireVars
<1>1. CASE RelayFound
    BY <1>1 DEF RelayFound, HasRelay
<1>2. CASE RelayInstall
    BY <1>2 DEF RelayInstall
<1>3. CASE SpliceDrops
    BY <1>3 DEF SpliceDrops
<1>4. CASE ForwardOriginal
    BY <1>4 DEF ForwardOriginal
<1>5. CASE SendUp
  <2>1. connPc' \in {"reading", "leaving"} /\ held' = NoRelay /\ out' = 0
      BY <1>5 DEF SendUp
  <2>2. {out} \ {0} \subseteq Logins /\ vaultSent \subseteq Logins
      OBVIOUS
  <2>3. vaultSent' = vaultSent \/ vaultSent' = vaultSent \cup ({out} \ {0})
      BY <1>5 DEF SendUp
  <2>4. vaultSent' \subseteq Logins
      BY <2>2, <2>3
  <2>5. /\ UNCHANGED <<inMap, sock, discPc, relay, connTook, discTook, status, loop, late>>
        /\ UNCHANGED <<fallback, used, retry, logins, typedSent>>
      BY <1>5 DEF SendUp
  <2>6. /\ out' \in 0..MaxLogins
        /\ held' \in IF connPc' \in {"install", "splice", "send"} THEN Relays ELSE {NoRelay}
      BY <2>1
  <2>7. /\ inMap' \in BOOLEAN /\ sock' \in BOOLEAN /\ used' \in [Relays -> BOOLEAN]
        /\ typedSent' \in [Logins -> 0..MaxLogins]
      BY <2>5
  <2> QED
      BY <2>1, <2>4, <2>5, <2>6, <2>7
<1>6. CASE ReadFails
    BY <1>6 DEF ReadFails
<1>7. CASE Unregister
    BY <1>7 DEF Unregister
<1>8. CASE UnregisterTake
    BY <1>8 DEF UnregisterTake
<1>9. CASE UnregisterClose
    BY <1>9 DEF UnregisterClose, Closed
<1>10. CASE PeerGone
    BY <1>10 DEF PeerGone
<1>11. CASE Disconnect
    BY <1>11 DEF Disconnect
<1>12. CASE DisconnectTake
    BY <1>12 DEF DisconnectTake
<1>13. CASE DisconnectClose
    BY <1>13 DEF DisconnectClose, Closed
<1>14. CASE DisconnectShut
    BY <1>14 DEF DisconnectShut
<1>15. ASSUME NEW r \in Relays, RelayBind(r) PROVE TypeOK'
    BY <1>15 DEF RelayBind, HasRelay
<1>16. ASSUME NEW differs \in BOOLEAN, SpliceLogin(differs)
      PROVE  TypeOK'
  <2>1. logins' \in 0..MaxLogins /\ out' \in 0..MaxLogins /\ held \in Relays
      BY <1>16 DEF SpliceLogin
  <2>2. fallback' \in [Relays -> 0..MaxLogins]
      BY <1>16, <2>1 DEF SpliceLogin, setTypedFallback
  <2>3. used' \in [Relays -> BOOLEAN]
      BY <1>16, <2>1, Zenon DEF SpliceLogin, setTypedFallback
  <2>4. /\ connPc' = "send" /\ held' = held
        /\ UNCHANGED <<inMap, sock, discPc, relay, connTook, discTook, status, loop, late,
                       retry, vaultSent, typedSent>>
      BY <1>16 DEF SpliceLogin
  <2> QED
      BY <2>1, <2>2, <2>3, <2>4
<1>17. ASSUME NEW r \in Relays, LoopCheck(r) PROVE TypeOK'
    BY <1>17 DEF LoopCheck
<1>18. ASSUME NEW r \in Relays, LoopRead(r) PROVE TypeOK'
    BY <1>18 DEF LoopRead
<1>19. ASSUME NEW r \in Relays, LoopRetry(r)
      PROVE  TypeOK'
  <2>1. retry[r] \in Logins /\ typedSent[retry[r]] = 0
    <3>1. retry[r] \in 1..MaxLogins
        BY <1>19 DEF LoopRetry, TypedInv, KeptLogins
    <3> QED
        BY <3>1 DEF TypedInv, KeptUnsent
  <2>2. 1 \in 0..MaxLogins
      BY <2>1
  <2>3. typedSent' \in [Logins -> 0..MaxLogins]
      BY <1>19, <2>1, <2>2 DEF LoopRetry
  <2>4. retry' \in [Relays -> 0..MaxLogins]
      BY <1>19 DEF LoopRetry
  <2> QED
      BY <1>19, <2>3, <2>4 DEF LoopRetry
<1>20. ASSUME NEW r \in Relays, LoopSuccess(r) PROVE TypeOK'
  <2>1. used' \in [Relays -> BOOLEAN]
      BY <1>20, Zenon DEF LoopSuccess
  <2>2. fallback' \in [Relays -> 0..MaxLogins]
      BY <1>20 DEF LoopSuccess
  <2> QED
      BY <1>20, <2>1, <2>2 DEF LoopSuccess
<1>21. ASSUME NEW r \in Relays, LoopFailure(r)
      PROVE  TypeOK'
  <2>1. fallback' \in [Relays -> 0..MaxLogins] /\ retry' \in [Relays -> 0..MaxLogins]
    <3>1. CASE takeTypedRetry(r)
        BY <3>1 DEF takeTypedRetry
    <3>2. CASE UNCHANGED typedVars
        BY <3>2
    <3> QED
        BY <1>21, <3>1, <3>2 DEF LoopFailure
  <2>2. used' \in [Relays -> BOOLEAN]
      BY <1>21, Zenon DEF LoopFailure, takeTypedRetry
  <2>3. loop' \in [Relays -> {"none", "check", "read", "retry", "ended"}]
      BY <1>21 DEF LoopFailure
  <2> QED
      BY <1>21, <2>1, <2>2, <2>3 DEF LoopFailure
<1>22. ASSUME NEW r \in Relays, LoopPanics(r) PROVE TypeOK'
    BY <1>22 DEF LoopPanics
<1>23. CASE UNCHANGED vars
    BY <1>23
<1> QED
    BY <1>1, <1>2, <1>3, <1>4, <1>5, <1>6, <1>7, <1>8, <1>9, <1>10, <1>11, <1>12,
       <1>13, <1>14, <1>15, <1>16, <1>17, <1>18, <1>19, <1>20, <1>21, <1>22, <1>23
       DEF Next, HandlerStep, ConnStep, DiscStep, LoopStep

\* A relay that is open stays reachable until it is closed.
LEMMA HeldStep ==
  TypeOK /\ OpenRelaysAreHeld /\ CloserInv /\ [Next]_vars => OpenRelaysAreHeld'
<1> SUFFICES ASSUME TypeOK /\ OpenRelaysAreHeld /\ CloserInv, [Next]_vars
             PROVE  OpenRelaysAreHeld'
    OBVIOUS
<1> USE RelayAssumption DEF TypeOK, MaybeRelay, OpenRelaysAreHeld, CloserInv, HasRelay, vars, clientVars, refVars, relayVars, typedVars,
        wireVars
<1>1. CASE RelayFound
    BY <1>1 DEF RelayFound, HasRelay
<1>2. CASE RelayInstall
    BY <1>2 DEF RelayInstall
<1>3. CASE SpliceDrops
    BY <1>3 DEF SpliceDrops
<1>4. CASE ForwardOriginal
    BY <1>4 DEF ForwardOriginal
<1>5. CASE SendUp
    BY <1>5 DEF SendUp
<1>6. CASE ReadFails
    BY <1>6 DEF ReadFails
<1>7. CASE Unregister
    BY <1>7 DEF Unregister
<1>8. CASE UnregisterTake
    BY <1>8 DEF UnregisterTake
<1>9. CASE UnregisterClose
    BY <1>9 DEF UnregisterClose, Closed
<1>10. CASE PeerGone
    BY <1>10 DEF PeerGone
<1>11. CASE Disconnect
    BY <1>11 DEF Disconnect
<1>12. CASE DisconnectTake
    BY <1>12 DEF DisconnectTake
<1>13. CASE DisconnectClose
    BY <1>13 DEF DisconnectClose, Closed
<1>14. CASE DisconnectShut
    BY <1>14 DEF DisconnectShut
<1>15. ASSUME NEW r \in Relays, RelayBind(r) PROVE OpenRelaysAreHeld'
    BY <1>15 DEF RelayBind, HasRelay
<1>16. ASSUME NEW differs \in BOOLEAN, SpliceLogin(differs) PROVE OpenRelaysAreHeld'
    BY <1>16 DEF SpliceLogin, setTypedFallback
<1>17. ASSUME NEW r \in Relays, LoopCheck(r) PROVE OpenRelaysAreHeld'
    BY <1>17 DEF LoopCheck
<1>18. ASSUME NEW r \in Relays, LoopRead(r) PROVE OpenRelaysAreHeld'
    BY <1>18 DEF LoopRead
<1>19. ASSUME NEW r \in Relays, LoopRetry(r) PROVE OpenRelaysAreHeld'
    BY <1>19 DEF LoopRetry
<1>20. ASSUME NEW r \in Relays, LoopSuccess(r) PROVE OpenRelaysAreHeld'
    BY <1>20 DEF LoopSuccess
<1>21. ASSUME NEW r \in Relays, LoopFailure(r) PROVE OpenRelaysAreHeld'
    BY <1>21 DEF LoopFailure, takeTypedRetry
<1>22. ASSUME NEW r \in Relays, LoopPanics(r) PROVE OpenRelaysAreHeld'
    BY <1>22 DEF LoopPanics
<1>23. CASE UNCHANGED vars
    BY <1>23
<1> QED
    BY <1>1, <1>2, <1>3, <1>4, <1>5, <1>6, <1>7, <1>8, <1>9, <1>10, <1>11, <1>12,
       <1>13, <1>14, <1>15, <1>16, <1>17, <1>18, <1>19, <1>20, <1>21, <1>22, <1>23
       DEF Next, HandlerStep, ConnStep, DiscStep, LoopStep

\* Unregister and disconnectUser agree on who closes the client's relay.
LEMMA CloserStep ==
  TypeOK /\ CloserInv /\ [Next]_vars => CloserInv'
<1> SUFFICES ASSUME TypeOK /\ CloserInv, [Next]_vars
             PROVE  CloserInv'
    OBVIOUS
<1> USE RelayAssumption DEF TypeOK, MaybeRelay, CloserInv, HasRelay, vars, clientVars, refVars, relayVars, typedVars,
        wireVars
<1>1. CASE RelayFound
    BY <1>1 DEF RelayFound, HasRelay
<1>2. CASE RelayInstall
    BY <1>2 DEF RelayInstall
<1>3. CASE SpliceDrops
    BY <1>3 DEF SpliceDrops
<1>4. CASE ForwardOriginal
    BY <1>4 DEF ForwardOriginal
<1>5. CASE SendUp
    BY <1>5 DEF SendUp
<1>6. CASE ReadFails
    BY <1>6 DEF ReadFails
<1>7. CASE Unregister
    BY <1>7 DEF Unregister
<1>8. CASE UnregisterTake
    BY <1>8 DEF UnregisterTake
<1>9. CASE UnregisterClose
    BY <1>9 DEF UnregisterClose, Closed
<1>10. CASE PeerGone
    BY <1>10 DEF PeerGone
<1>11. CASE Disconnect
    BY <1>11 DEF Disconnect
<1>12. CASE DisconnectTake
    BY <1>12 DEF DisconnectTake
<1>13. CASE DisconnectClose
    BY <1>13 DEF DisconnectClose, Closed
<1>14. CASE DisconnectShut
    BY <1>14 DEF DisconnectShut
<1>15. ASSUME NEW r \in Relays, RelayBind(r) PROVE CloserInv'
    BY <1>15 DEF RelayBind, HasRelay
<1>16. ASSUME NEW differs \in BOOLEAN, SpliceLogin(differs) PROVE CloserInv'
    BY <1>16 DEF SpliceLogin, setTypedFallback
<1>17. ASSUME NEW r \in Relays, LoopCheck(r) PROVE CloserInv'
    BY <1>17 DEF LoopCheck
<1>18. ASSUME NEW r \in Relays, LoopRead(r) PROVE CloserInv'
    BY <1>18 DEF LoopRead
<1>19. ASSUME NEW r \in Relays, LoopRetry(r) PROVE CloserInv'
    BY <1>19 DEF LoopRetry
<1>20. ASSUME NEW r \in Relays, LoopSuccess(r) PROVE CloserInv'
    BY <1>20 DEF LoopSuccess
<1>21. ASSUME NEW r \in Relays, LoopFailure(r) PROVE CloserInv'
    BY <1>21 DEF LoopFailure, takeTypedRetry
<1>22. ASSUME NEW r \in Relays, LoopPanics(r) PROVE CloserInv'
    BY <1>22 DEF LoopPanics
<1>23. CASE UNCHANGED vars
    BY <1>23
<1> QED
    BY <1>1, <1>2, <1>3, <1>4, <1>5, <1>6, <1>7, <1>8, <1>9, <1>10, <1>11, <1>12,
       <1>13, <1>14, <1>15, <1>16, <1>17, <1>18, <1>19, <1>20, <1>21, <1>22, <1>23
       DEF Next, HandlerStep, ConnStep, DiscStep, LoopStep

\* Every step keeps the kept logins in one place and sends each once at most.
LEMMA TypedStep ==
  TypeOK /\ TypedInv /\ RetryIsSingleShot /\ [Next]_vars
      => (TypedInv /\ RetryIsSingleShot)'
<1> SUFFICES ASSUME TypeOK, TypedInv, RetryIsSingleShot, [Next]_vars
             PROVE  (TypedInv /\ RetryIsSingleShot)'
    OBVIOUS
<1> DEFINE Goal == (TypedInv /\ RetryIsSingleShot)'
<1>t. /\ MaxLogins \in Nat /\ logins \in 0..MaxLogins
      /\ fallback \in [Relays -> 0..MaxLogins]
      /\ retry \in [Relays -> 0..MaxLogins]
      /\ typedSent \in [Logins -> 0..MaxLogins]
      /\ loop \in [Relays -> {"none", "check", "read", "retry", "ended"}]
    BY RelayAssumption DEF TypeOK
<1>i. KeptLogins /\ KeptApart /\ KeptUnsent /\ \A n \in Logins : typedSent[n] <= 1
    BY DEF TypedInv, RetryIsSingleShot
<1> USE <1>t DEF Logins
<1>1. CASE UNCHANGED <<fallback, retry, logins, typedSent>> /\
           \A s \in Relays : loop'[s] = "retry" => loop[s] = "retry"
    BY <1>1, <1>i DEF TypedInv, KeptLogins, KeptApart, KeptUnsent, RetryIsSingleShot
<1>2. ASSUME NEW differs \in BOOLEAN, SpliceLogin(differs), held \in Relays PROVE Goal
  <2>1. logins' = logins + 1 /\ UNCHANGED <<typedSent, retry, loop>> /\ logins < MaxLogins
      BY <1>2 DEF SpliceLogin, relayVars
  <2>2. \A s \in Relays :
            fallback'[s] = fallback[s] \/ (s = held /\ fallback'[s] = logins + 1)
      BY <1>2, <2>1 DEF SpliceLogin, setTypedFallback
  <2>3. \A s \in Relays : fallback[s] <= logins /\ retry[s] <= logins
      BY <1>i DEF KeptLogins
  <2>4. KeptLogins'
    <3>1. ASSUME NEW s \in Relays
          PROVE  fallback'[s] <= logins + 1 /\ retry'[s] <= logins + 1
        BY <2>1, <2>2, <2>3
    <3> QED
        BY <1>i, <2>1, <3>1 DEF KeptLogins
  <2>5. KeptApart'
      BY <1>i, <2>1, <2>2, <2>3 DEF KeptApart
  <2>6. typedSent[logins + 1] = 0
      BY <1>i, <2>1 DEF KeptUnsent
  <2>7. KeptUnsent'
      BY <1>i, <2>1, <2>2, <2>6 DEF KeptUnsent
  <2> QED
      BY <2>1, <2>4, <2>5, <2>7 DEF TypedInv, RetryIsSingleShot
<1>3. ASSUME NEW r \in Relays, LoopRetry(r) PROVE Goal
  <2>1. loop[r] = "retry" /\ UNCHANGED <<fallback, logins>>
      BY <1>3 DEF LoopRetry
  <2>2. retry[r] \in Logins
      BY <1>i, <2>1 DEF KeptLogins
  <2>3. typedSent[retry[r]] = 0
      BY <1>i, <2>2 DEF KeptUnsent
  <2>4. \A s \in Relays : /\ retry'[s] = IF s = r THEN 0 ELSE retry[s]
                          /\ loop'[s] = IF s = r THEN "check" ELSE loop[s]
      BY <1>3 DEF LoopRetry
  <2>5. \A n \in Logins :
            typedSent'[n] = typedSent[n] \/ (n = retry[r] /\ typedSent'[n] = 1)
      BY <1>3, <2>2, <2>3 DEF LoopRetry
  <2>6. KeptLogins'
      BY <1>i, <2>1, <2>4 DEF KeptLogins
  <2>7. KeptApart'
      BY <1>i, <2>1, <2>4 DEF KeptApart
  <2>8. \A s \in Relays : retry[r] # fallback[s] /\ retry[r] # retry'[s]
      BY <1>i, <2>2, <2>4 DEF KeptApart
  <2>9. retry[r] <= logins
      BY <1>i DEF KeptLogins
  <2>10. KeptUnsent'
      BY <1>i, <2>1, <2>2, <2>4, <2>5, <2>8, <2>9 DEF KeptUnsent
  <2>11. RetryIsSingleShot'
      BY <1>i, <2>5 DEF RetryIsSingleShot
  <2> QED
      BY <2>6, <2>7, <2>10, <2>11 DEF TypedInv
<1>4. ASSUME NEW r \in Relays, LoopSuccess(r) PROVE Goal
  <2>1. UNCHANGED <<retry, logins, typedSent>>
      BY <1>4 DEF LoopSuccess, wireVars
  <2>2. \A s \in Relays : /\ fallback'[s] = IF s = r THEN 0 ELSE fallback[s]
                          /\ loop'[s] = IF s = r THEN "check" ELSE loop[s]
      BY <1>4 DEF LoopSuccess
  <2>3. KeptLogins'
      BY <1>i, <2>1, <2>2 DEF KeptLogins
  <2>4. KeptApart'
      BY <1>i, <2>1, <2>2 DEF KeptApart
  <2>5. KeptUnsent'
      BY <1>i, <2>1, <2>2 DEF KeptUnsent
  <2> QED
      BY <2>1, <2>3, <2>4, <2>5 DEF TypedInv, RetryIsSingleShot
<1>5. ASSUME NEW r \in Relays, LoopFailure(r) PROVE Goal
  <2>1. UNCHANGED <<logins, typedSent>>
      BY <1>5 DEF LoopFailure, wireVars
  <2>2. CASE UNCHANGED typedVars /\ loop' = [loop EXCEPT ![r] = "check"]
      BY <1>1, <2>1, <2>2 DEF typedVars
  <2>3. CASE fallback[r] # 0 /\ takeTypedRetry(r) /\ loop' = [loop EXCEPT ![r] = "retry"]
    <3>1. \A s \in Relays : /\ fallback'[s] = IF s = r THEN 0 ELSE fallback[s]
                            /\ retry'[s] = IF s = r THEN fallback[r] ELSE retry[s]
                            /\ loop'[s] = IF s = r THEN "retry" ELSE loop[s]
        BY <2>3 DEF takeTypedRetry
    <3>2. KeptLogins'
        BY <1>i, <2>1, <2>3, <3>1 DEF KeptLogins
    <3>3. KeptApart'
        BY <1>i, <2>3, <3>1 DEF KeptApart
    <3>4. KeptUnsent'
        BY <1>i, <2>1, <2>3, <3>1 DEF KeptUnsent
    <3> QED
        BY <2>1, <3>2, <3>3, <3>4 DEF TypedInv, RetryIsSingleShot
  <2> QED
      BY <1>5, <2>2, <2>3 DEF LoopFailure
<1>6. ASSUME NEW r \in Relays, LoopCheck(r) \/ LoopRead(r) \/ LoopPanics(r) PROVE Goal
    BY <1>1, <1>6 DEF LoopCheck, LoopRead, LoopPanics, typedVars, wireVars
<1>7. CASE RelayInstall
    BY <1>1, <1>7 DEF RelayInstall, typedVars, wireVars
<1>8. CASE \/ RelayFound \/ (\E r \in Relays : RelayBind(r)) \/ SpliceDrops
           \/ ForwardOriginal \/ SendUp \/ ReadFails \/ Unregister \/ UnregisterTake
           \/ UnregisterClose \/ PeerGone \/ Disconnect \/ DiscStep
    BY <1>1, <1>8 DEF RelayFound, RelayBind, SpliceDrops, ForwardOriginal, SendUp,
       ReadFails, Unregister, UnregisterTake, UnregisterClose, PeerGone, Disconnect,
       DiscStep, DisconnectTake, DisconnectClose, DisconnectShut, relayVars, typedVars,
       wireVars
<1>9. CASE UNCHANGED vars
    BY <1>1, <1>9 DEF vars, relayVars, typedVars, wireVars
<1>10. ASSUME NEW differs \in BOOLEAN, SpliceLogin(differs) PROVE held \in Relays
    BY <1>10 DEF SpliceLogin, TypeOK
<1> HIDE DEF Goal
<1> QED
    BY <1>2, <1>3, <1>4, <1>5, <1>6, <1>7, <1>8, <1>9, <1>10
       DEF Next, ConnStep, HandlerStep, LoopStep, Goal

\* The invariant behind the theorems below.
THEOREM RelayInvariant == Spec => []RelayIInv
<1>1. Init => RelayIInv
    BY RelayAssumption DEF Init, RelayIInv, TypeOK, MaybeRelay, Logins, CloserInv,
       OpenRelaysAreHeld, TypedInv, KeptLogins, KeptApart, KeptUnsent,
       RetryIsSingleShot
<1>2. RelayIInv /\ [Next]_vars => RelayIInv'
    BY TypeStep, HeldStep, CloserStep, TypedStep DEF RelayIInv
<1> QED
    BY <1>1, <1>2, PTL DEF Spec

\* The sessions, the relays and their loops keep their types.
THEOREM TypeCorrect == Spec => []TypeOK
<1>1. RelayIInv => TypeOK
    BY DEF RelayIInv
<1> QED
    BY <1>1, RelayInvariant, PTL

\* A relay that is open when its session is over was installed after
\* disconnectUser had closed the client's relay.
THEOREM OnlyLateOrphans == Spec => []OrphansAreLate
<1>1. RelayIInv => OrphansAreLate
    BY RelayAssumption DEF RelayIInv, OrphansAreLate, CloserInv, OpenRelaysAreHeld
<1> QED
    BY <1>1, RelayInvariant, PTL

\* No login is sent as typed more than once.
THEOREM SingleShot == Spec => []RetryIsSingleShot
<1>1. RelayIInv => RetryIsSingleShot
    BY DEF RelayIInv
<1> QED
    BY <1>1, RelayInvariant, PTL
=============================================================================
