------------------------- MODULE SsoSessionProofs -------------------------
(* Proofs about SsoSession, for every number of users, tokens, connections, *)
(* requests and issuers.                                                    *)
EXTENDS SsoSession, TLAPS

\* Type correctness of the tables, the clients map and the goroutines' locals.
LEMMA TypeStep == TypeOK /\ LocalsInv /\ [Next]_vars => TypeOK'
  <1> SUFFICES ASSUME TypeOK, LocalsInv, [Next]_vars
               PROVE  TypeOK'
    OBVIOUS
  <1> USE SessionAssumption DEF TypeOK, LocalsInv, vars, dbVars, issuerVars, connVars, opVars, Exec, MaybeUser
  <1>1. ASSUME NEW i \in Issuers, NEW u \in Users, GetToken(i, u)
        PROVE  TypeOK'
    BY <1>1 DEF GetToken
  <1>2. ASSUME NEW i \in Issuers, NEW u \in Users, SeedToken(i, u)
        PROVE  TypeOK'
    BY <1>2 DEF SeedToken
  <1>3. ASSUME NEW i \in Issuers, CreateTokenCheck(i)
        PROVE  TypeOK'
    BY <1>3 DEF CreateTokenCheck, IssuerReturns
  <1>4. ASSUME NEW i \in Issuers, CreateTokenRotate(i)
        PROVE  TypeOK'
    BY <1>4 DEF CreateTokenRotate, LiveTokens
  <1>5. ASSUME NEW i \in Issuers, CreateTokenInsert(i)
        PROVE  TypeOK'
    BY <1>5 DEF CreateTokenInsert, IssuerReturns
  <1>6. ASSUME NEW i \in Issuers, IssuerAborts(i)
        PROVE  TypeOK'
    BY <1>6 DEF IssuerAborts, IssuerReturns
  <1>7. ASSUME NEW u \in Users, NEW which, RevokeToken(u, which)
        PROVE  TypeOK'
    BY <1>7 DEF RevokeToken, LiveTokens
  <1>8. ASSUME NEW u \in Users, Restore(u)
        PROVE  TypeOK'
    BY <1>8 DEF Restore
  <1>9. ASSUME NEW c \in Conns, Accept(c)
        PROVE  TypeOK'
    BY <1>9 DEF Accept
  <1>10. ASSUME NEW c \in Conns, NEW t \in Tokens, AuthLookup(c, t)
        PROVE  TypeOK'
    BY <1>10 DEF AuthLookup
  <1>11. ASSUME NEW c \in Conns, AuthReject(c)
        PROVE  TypeOK'
    BY <1>11 DEF AuthReject
  <1>12. ASSUME NEW c \in Conns, AuthAdmit(c)
        PROVE  TypeOK'
    BY <1>12 DEF AuthAdmit
  <1>13. ASSUME NEW c \in Conns, AuthRefuse(c)
        PROVE  TypeOK'
    BY <1>13 DEF AuthRefuse
  <1>14. ASSUME NEW c \in Conns, AuthReplace(c)
        PROVE  TypeOK'
    BY <1>14 DEF AuthReplace
  <1>15. ASSUME NEW c \in Conns, AuthRegister(c)
        PROVE  TypeOK'
    BY <1>15 DEF AuthRegister
  <1>16. ASSUME NEW c \in Conns, PeerGone(c)
        PROVE  TypeOK'
    BY <1>16 DEF PeerGone
  <1>17. ASSUME NEW c \in Conns, ReadFails(c)
        PROVE  TypeOK'
    BY <1>17 DEF ReadFails
  <1>18. ASSUME NEW c \in Conns, Unregister(c)
        PROVE  TypeOK'
    BY <1>18 DEF Unregister
  <1>19. ASSUME NEW w \in WebReqs, NEW u \in Users, WebRevoke(w, u)
        PROVE  TypeOK'
    BY <1>19 DEF WebRevoke, SetFlag, Unseen
  <1>20. ASSUME NEW c \in Conns, NEW u \in Users, WsRevoke(c, u)
        PROVE  TypeOK'
    BY <1>20 DEF WsRevoke, SetFlag, Unseen
  <1>21. ASSUME NEW w \in WebReqs, NEW u \in Users, ImportRevoke(w, u)
        PROVE  TypeOK'
    BY <1>21 DEF ImportRevoke, SetFlag
  <1>22. ASSUME NEW e \in Exec, KillTokens(e)
        PROVE  TypeOK'
    BY <1>22 DEF KillTokens, LiveTokens
  <1>23. ASSUME NEW e \in Exec, Collect(e)
        PROVE  TypeOK'
    BY <1>23 DEF Collect
  <1>24. ASSUME NEW e \in Exec, NEW c \in Conns, CloseOne(e, c)
        PROVE  TypeOK'
    BY <1>24 DEF CloseOne
  <1>25. ASSUME NEW e \in Exec, OpDone(e)
        PROVE  TypeOK'
    BY <1>25 DEF OpDone
  <1>26. ASSUME Crash
        PROVE  TypeOK'
    BY <1>26 DEF Crash
  <1>27. CASE UNCHANGED vars
    BY <1>27
  <1> QED
    BY <1>1, <1>2, <1>3, <1>4, <1>5, <1>6, <1>7, <1>8, <1>9, <1>10, <1>11, <1>12, <1>13, <1>14, <1>15, <1>16, <1>17, <1>18, <1>19, <1>20, <1>21, <1>22, <1>23, <1>24, <1>25, <1>26, <1>27
       DEF Next, ServeNext, TokenNext, ConnStep, OpStep

\* The locals of issuers, goroutines and handlers agree with their counters.
LEMMA LocalsStep == TypeOK /\ LocalsInv /\ [Next]_vars => LocalsInv'
  <1> SUFFICES ASSUME TypeOK, LocalsInv, [Next]_vars
               PROVE  LocalsInv'
    OBVIOUS
  <1> USE SessionAssumption DEF TypeOK, LocalsInv, vars, dbVars, issuerVars, connVars, opVars, Exec, MaybeUser
  <1>1. ASSUME NEW i \in Issuers, NEW u \in Users, GetToken(i, u)
        PROVE  LocalsInv'
    BY <1>1 DEF GetToken
  <1>2. ASSUME NEW i \in Issuers, NEW u \in Users, SeedToken(i, u)
        PROVE  LocalsInv'
    BY <1>2 DEF SeedToken
  <1>3. ASSUME NEW i \in Issuers, CreateTokenCheck(i)
        PROVE  LocalsInv'
    BY <1>3 DEF CreateTokenCheck, IssuerReturns
  <1>4. ASSUME NEW i \in Issuers, CreateTokenRotate(i)
        PROVE  LocalsInv'
    BY <1>4 DEF CreateTokenRotate, LiveTokens
  <1>5. ASSUME NEW i \in Issuers, CreateTokenInsert(i)
        PROVE  LocalsInv'
    BY <1>5 DEF CreateTokenInsert, IssuerReturns
  <1>6. ASSUME NEW i \in Issuers, IssuerAborts(i)
        PROVE  LocalsInv'
    BY <1>6 DEF IssuerAborts, IssuerReturns
  <1>7. ASSUME NEW u \in Users, NEW which, RevokeToken(u, which)
        PROVE  LocalsInv'
    BY <1>7 DEF RevokeToken, LiveTokens
  <1>8. ASSUME NEW u \in Users, Restore(u)
        PROVE  LocalsInv'
    BY <1>8 DEF Restore
  <1>9. ASSUME NEW c \in Conns, Accept(c)
        PROVE  LocalsInv'
    BY <1>9 DEF Accept
  <1>10. ASSUME NEW c \in Conns, NEW t \in Tokens, AuthLookup(c, t)
        PROVE  LocalsInv'
    BY <1>10 DEF AuthLookup
  <1>11. ASSUME NEW c \in Conns, AuthReject(c)
        PROVE  LocalsInv'
    BY <1>11 DEF AuthReject
  <1>12. ASSUME NEW c \in Conns, AuthAdmit(c)
        PROVE  LocalsInv'
    BY <1>12 DEF AuthAdmit
  <1>13. ASSUME NEW c \in Conns, AuthRefuse(c)
        PROVE  LocalsInv'
    BY <1>13 DEF AuthRefuse
  <1>14. ASSUME NEW c \in Conns, AuthReplace(c)
        PROVE  LocalsInv'
    BY <1>14 DEF AuthReplace
  <1>15. ASSUME NEW c \in Conns, AuthRegister(c)
        PROVE  LocalsInv'
    BY <1>15 DEF AuthRegister
  <1>16. ASSUME NEW c \in Conns, PeerGone(c)
        PROVE  LocalsInv'
    BY <1>16 DEF PeerGone
  <1>17. ASSUME NEW c \in Conns, ReadFails(c)
        PROVE  LocalsInv'
    BY <1>17 DEF ReadFails
  <1>18. ASSUME NEW c \in Conns, Unregister(c)
        PROVE  LocalsInv'
    BY <1>18 DEF Unregister
  <1>19. ASSUME NEW w \in WebReqs, NEW u \in Users, WebRevoke(w, u)
        PROVE  LocalsInv'
    BY <1>19 DEF WebRevoke, SetFlag, Unseen
  <1>20. ASSUME NEW c \in Conns, NEW u \in Users, WsRevoke(c, u)
        PROVE  LocalsInv'
    BY <1>20 DEF WsRevoke, SetFlag, Unseen
  <1>21. ASSUME NEW w \in WebReqs, NEW u \in Users, ImportRevoke(w, u)
        PROVE  LocalsInv'
    BY <1>21 DEF ImportRevoke, SetFlag
  <1>22. ASSUME NEW e \in Exec, KillTokens(e)
        PROVE  LocalsInv'
    BY <1>22 DEF KillTokens, LiveTokens
  <1>23. ASSUME NEW e \in Exec, Collect(e)
        PROVE  LocalsInv'
    BY <1>23 DEF Collect
  <1>24. ASSUME NEW e \in Exec, NEW c \in Conns, CloseOne(e, c)
        PROVE  LocalsInv'
    BY <1>24 DEF CloseOne
  <1>25. ASSUME NEW e \in Exec, OpDone(e)
        PROVE  LocalsInv'
    BY <1>25 DEF OpDone
  <1>26. ASSUME Crash
        PROVE  LocalsInv'
    BY <1>26 DEF Crash
  <1>27. CASE UNCHANGED vars
    BY <1>27
  <1> QED
    BY <1>1, <1>2, <1>3, <1>4, <1>5, <1>6, <1>7, <1>8, <1>9, <1>10, <1>11, <1>12, <1>13, <1>14, <1>15, <1>16, <1>17, <1>18, <1>19, <1>20, <1>21, <1>22, <1>23, <1>24, <1>25, <1>26, <1>27
       DEF Next, ServeNext, TokenNext, ConnStep, OpStep

\* Issuing and revoking tokens leaves the sessions and the handlers alone.
LEMMA TokenFrame ==
    TokenNext => UNCHANGED <<accessRevoked, connVars, opVars, missed>>
  BY DEF TokenNext, GetToken, SeedToken, CreateTokenCheck, CreateTokenRotate,
     CreateTokenInsert, IssuerAborts, RevokeToken, dbVars

\* register and unregister keep Hub.clients in step with the goroutines.
LEMMA ClientsStep ==
    TypeOK /\ LocalsInv /\ ClientsAreServed /\ [Next]_vars => ClientsAreServed'
  <1> SUFFICES ASSUME TypeOK, LocalsInv, ClientsAreServed, [Next]_vars
               PROVE  ClientsAreServed'
    OBVIOUS
  <1> USE SessionAssumption DEF TypeOK, LocalsInv, ClientsAreServed, vars, dbVars, issuerVars, connVars, opVars, Exec, MaybeUser
  <1>1. CASE TokenNext
    BY <1>1, TokenFrame
  <1>2. ASSUME NEW u \in Users, Restore(u)
        PROVE  ClientsAreServed'
    BY <1>2 DEF Restore
  <1>3. ASSUME NEW c \in Conns, Accept(c)
        PROVE  ClientsAreServed'
    BY <1>3 DEF Accept
  <1>4. ASSUME NEW c \in Conns, NEW t \in Tokens, AuthLookup(c, t)
        PROVE  ClientsAreServed'
    BY <1>4 DEF AuthLookup
  <1>5. ASSUME NEW c \in Conns, AuthReject(c)
        PROVE  ClientsAreServed'
    BY <1>5 DEF AuthReject
  <1>6. ASSUME NEW c \in Conns, AuthAdmit(c)
        PROVE  ClientsAreServed'
    BY <1>6 DEF AuthAdmit
  <1>7. ASSUME NEW c \in Conns, AuthRefuse(c)
        PROVE  ClientsAreServed'
    BY <1>7 DEF AuthRefuse
  <1>8. ASSUME NEW c \in Conns, AuthReplace(c)
        PROVE  ClientsAreServed'
    BY <1>8 DEF AuthReplace
  <1>9. ASSUME NEW c \in Conns, AuthRegister(c)
        PROVE  ClientsAreServed'
    BY <1>9 DEF AuthRegister
  <1>10. ASSUME NEW c \in Conns, PeerGone(c)
        PROVE  ClientsAreServed'
    BY <1>10 DEF PeerGone
  <1>11. ASSUME NEW c \in Conns, ReadFails(c)
        PROVE  ClientsAreServed'
    BY <1>11 DEF ReadFails
  <1>12. ASSUME NEW c \in Conns, Unregister(c)
        PROVE  ClientsAreServed'
    BY <1>12 DEF Unregister
  <1>13. ASSUME NEW w \in WebReqs, NEW u \in Users, WebRevoke(w, u)
        PROVE  ClientsAreServed'
    BY <1>13 DEF WebRevoke, SetFlag, Unseen
  <1>14. ASSUME NEW c \in Conns, NEW u \in Users, WsRevoke(c, u)
        PROVE  ClientsAreServed'
    BY <1>14 DEF WsRevoke, SetFlag, Unseen
  <1>15. ASSUME NEW w \in WebReqs, NEW u \in Users, ImportRevoke(w, u)
        PROVE  ClientsAreServed'
    BY <1>15 DEF ImportRevoke, SetFlag
  <1>16. ASSUME NEW e \in Exec, KillTokens(e)
        PROVE  ClientsAreServed'
    BY <1>16 DEF KillTokens, LiveTokens
  <1>17. ASSUME NEW e \in Exec, Collect(e)
        PROVE  ClientsAreServed'
    BY <1>17 DEF Collect
  <1>18. ASSUME NEW e \in Exec, NEW c \in Conns, CloseOne(e, c)
        PROVE  ClientsAreServed'
    BY <1>18 DEF CloseOne
  <1>19. ASSUME NEW e \in Exec, OpDone(e)
        PROVE  ClientsAreServed'
    BY <1>19 DEF OpDone
  <1>20. ASSUME Crash
        PROVE  ClientsAreServed'
    BY <1>20 DEF Crash
  <1>21. CASE UNCHANGED vars
    BY <1>21
  <1> QED
    BY <1>1, <1>2, <1>3, <1>4, <1>5, <1>6, <1>7, <1>8, <1>9, <1>10, <1>11, <1>12, <1>13, <1>14, <1>15, <1>16, <1>17, <1>18, <1>19, <1>20, <1>21
       DEF Next, ServeNext, ConnStep, OpStep
\* A session outside its handshake never escapes disconnectUser's sight.
LEMMA FindableStep ==
    SessionIInv /\ [Next]_vars => SessionsAreFindable'
  <1> SUFFICES ASSUME SessionIInv, [Next]_vars
               PROVE  SessionsAreFindable'
    OBVIOUS
  <1> USE SessionAssumption DEF SessionIInv, TypeOK, LocalsInv, ClientsAreServed,
        SessionsAreFindable, Doomed, vars, dbVars, issuerVars, connVars, opVars, Exec, MaybeUser
  <1>1. CASE TokenNext
    BY <1>1, TokenFrame
  <1>2. ASSUME NEW u \in Users, Restore(u)
        PROVE  SessionsAreFindable'
    BY <1>2 DEF Restore
  <1>3. ASSUME NEW c \in Conns, Accept(c)
        PROVE  SessionsAreFindable'
    BY <1>3 DEF Accept
  <1>4. ASSUME NEW c \in Conns, NEW t \in Tokens, AuthLookup(c, t)
        PROVE  SessionsAreFindable'
    BY <1>4 DEF AuthLookup
  <1>5. ASSUME NEW c \in Conns, AuthReject(c)
        PROVE  SessionsAreFindable'
    BY <1>5 DEF AuthReject
  <1>6. ASSUME NEW c \in Conns, AuthAdmit(c)
        PROVE  SessionsAreFindable'
    BY <1>6 DEF AuthAdmit
  <1>7. ASSUME NEW c \in Conns, AuthRefuse(c)
        PROVE  SessionsAreFindable'
    BY <1>7 DEF AuthRefuse
  <1>8. ASSUME NEW c \in Conns, AuthReplace(c)
        PROVE  SessionsAreFindable'
    BY <1>8 DEF AuthReplace
  <1>9. ASSUME NEW c \in Conns, AuthRegister(c)
        PROVE  SessionsAreFindable'
    BY <1>9 DEF AuthRegister
  <1>10. ASSUME NEW c \in Conns, PeerGone(c)
        PROVE  SessionsAreFindable'
    BY <1>10 DEF PeerGone
  <1>11. ASSUME NEW c \in Conns, ReadFails(c)
        PROVE  SessionsAreFindable'
    BY <1>11 DEF ReadFails
  <1>12. ASSUME NEW c \in Conns, Unregister(c)
        PROVE  SessionsAreFindable'
    <2> SUFFICES ASSUME NEW d \in Conns, NEW u \in Users,
                        pc'[d] \in {"reading", "lookup", "handling"},
                        open'[d], authUser'[d] = u
                 PROVE  clients'[d] = u \/ Doomed(d, u)'
      OBVIOUS
    <2>1. d # c
      BY <1>12 DEF Unregister
    <2>2. clients[d] = u \/ Doomed(d, u)
      BY <1>12, <2>1 DEF Unregister
    <2>3. Doomed(d, u) => Doomed(d, u)'
      BY <1>12, <2>1 DEF Unregister
    <2> QED
      BY <1>12, <2>1, <2>2, <2>3 DEF Unregister
  <1>13. ASSUME NEW w \in WebReqs, NEW u \in Users, WebRevoke(w, u)
        PROVE  SessionsAreFindable'
    BY <1>13 DEF WebRevoke, SetFlag, Unseen
  <1>14. ASSUME NEW c \in Conns, NEW u \in Users, WsRevoke(c, u)
        PROVE  SessionsAreFindable'
    BY <1>14 DEF WsRevoke, SetFlag, Unseen
  <1>15. ASSUME NEW w \in WebReqs, NEW u \in Users, ImportRevoke(w, u)
        PROVE  SessionsAreFindable'
    BY <1>15 DEF ImportRevoke, SetFlag
  <1>16. ASSUME NEW e \in Exec, KillTokens(e)
        PROVE  SessionsAreFindable'
    BY <1>16 DEF KillTokens, LiveTokens
  <1>17. ASSUME NEW e \in Exec, Collect(e)
        PROVE  SessionsAreFindable'
    BY <1>17 DEF Collect
  <1>18. ASSUME NEW e \in Exec, NEW c \in Conns, CloseOne(e, c)
        PROVE  SessionsAreFindable'
    BY <1>18 DEF CloseOne
  <1>19. ASSUME NEW e \in Exec, OpDone(e)
        PROVE  SessionsAreFindable'
    BY <1>19 DEF OpDone
  <1>20. ASSUME Crash
        PROVE  SessionsAreFindable'
    BY <1>20 DEF Crash
  <1>21. CASE UNCHANGED vars
    BY <1>21
  <1> QED
    BY <1>1, <1>2, <1>3, <1>4, <1>5, <1>6, <1>7, <1>8, <1>9, <1>10, <1>11, <1>12, <1>13, <1>14, <1>15, <1>16, <1>17, <1>18, <1>19, <1>20, <1>21
       DEF Next, ServeNext, ConnStep, OpStep

\* Every step keeps a revocation that was written on the way to the sessions
\* it must reach.
LEMMA ReachesStep ==
    SessionIInv /\ [Next]_vars => RevocationReaches'
  <1> SUFFICES ASSUME SessionIInv, [Next]_vars
               PROVE  RevocationReaches'
    OBVIOUS
  <1> USE SessionAssumption DEF SessionIInv, TypeOK, LocalsInv, ClientsAreServed,
        SessionsAreFindable, RevocationReaches, Doomed, Serves, vars, dbVars, issuerVars, connVars, opVars, Exec, MaybeUser
  <1>1. CASE TokenNext
    BY <1>1, TokenFrame
  <1>2. ASSUME NEW u \in Users, Restore(u)
        PROVE  RevocationReaches'
    BY <1>2 DEF Restore
  <1>3. ASSUME NEW c \in Conns, Accept(c)
        PROVE  RevocationReaches'
    BY <1>3 DEF Accept
  <1>4. ASSUME NEW c \in Conns, NEW t \in Tokens, AuthLookup(c, t)
        PROVE  RevocationReaches'
    BY <1>4 DEF AuthLookup
  <1>5. ASSUME NEW c \in Conns, AuthReject(c)
        PROVE  RevocationReaches'
    BY <1>5 DEF AuthReject
  <1>6. ASSUME NEW c \in Conns, AuthAdmit(c)
        PROVE  RevocationReaches'
    BY <1>6 DEF AuthAdmit
  <1>7. ASSUME NEW c \in Conns, AuthRefuse(c)
        PROVE  RevocationReaches'
    BY <1>7 DEF AuthRefuse
  <1>8. ASSUME NEW c \in Conns, AuthReplace(c)
        PROVE  RevocationReaches'
    BY <1>8 DEF AuthReplace
  <1>9. ASSUME NEW c \in Conns, AuthRegister(c)
        PROVE  RevocationReaches'
    BY <1>9 DEF AuthRegister
  <1>10. ASSUME NEW c \in Conns, PeerGone(c)
        PROVE  RevocationReaches'
    BY <1>10 DEF PeerGone
  <1>11. ASSUME NEW c \in Conns, ReadFails(c)
        PROVE  RevocationReaches'
    BY <1>11 DEF ReadFails
  <1>12. ASSUME NEW c \in Conns, Unregister(c)
        PROVE  RevocationReaches'
    <2> SUFFICES ASSUME NEW d \in Conns, NEW u \in Users,
                        Serves(d, u)', accessRevoked'[u], ~missed'[d]
                 PROVE  \/ Doomed(d, u)'
                        \/ /\ pc'[d] \notin {"admitted", "replaced"} /\ clients'[d] = u
                           /\ \E e \in Exec : /\ opPc'[e] \in {"flagged", "killed"}
                                           /\ opUser'[e] = u
      OBVIOUS
    <2>1. d # c
      BY <1>12 DEF Unregister
    <2>2. Serves(d, u) /\ accessRevoked[u] /\ ~missed[d]
      BY <1>12, <2>1 DEF Unregister
    <2>3. Doomed(d, u) => Doomed(d, u)'
      BY <1>12, <2>1 DEF Unregister
    <2>4. \/ Doomed(d, u)
          \/ /\ pc[d] \notin {"admitted", "replaced"} /\ clients[d] = u
             /\ \E e \in Exec : opPc[e] \in {"flagged", "killed"} /\ opUser[e] = u
      BY <2>2 DEF RevocationReaches
    <2>5. pc'[d] = pc[d] /\ clients'[d] = clients[d] /\ opPc' = opPc /\ opUser' = opUser
      BY <1>12, <2>1 DEF Unregister
    <2> QED
      BY <2>3, <2>4, <2>5
  <1>13. ASSUME NEW w \in WebReqs, NEW u \in Users, WebRevoke(w, u)
        PROVE  RevocationReaches'
    BY <1>13 DEF WebRevoke, SetFlag, Unseen
  <1>14. ASSUME NEW c \in Conns, NEW u \in Users, WsRevoke(c, u)
        PROVE  RevocationReaches'
    BY <1>14 DEF WsRevoke, SetFlag, Unseen
  <1>15. ASSUME NEW w \in WebReqs, NEW u \in Users, ImportRevoke(w, u)
        PROVE  RevocationReaches'
    BY <1>15 DEF ImportRevoke, SetFlag
  <1>16. ASSUME NEW e \in Exec, KillTokens(e)
        PROVE  RevocationReaches'
    BY <1>16 DEF KillTokens, LiveTokens
  <1>17. ASSUME NEW e \in Exec, Collect(e)
        PROVE  RevocationReaches'
    BY <1>17 DEF Collect
  <1>18. ASSUME NEW e \in Exec, NEW c \in Conns, CloseOne(e, c)
        PROVE  RevocationReaches'
    BY <1>18 DEF CloseOne
  <1>19. ASSUME NEW e \in Exec, OpDone(e)
        PROVE  RevocationReaches'
    BY <1>19 DEF OpDone
  <1>20. ASSUME Crash
        PROVE  RevocationReaches'
    BY <1>20 DEF Crash
  <1>21. CASE UNCHANGED vars
    BY <1>21
  <1> QED
    BY <1>1, <1>2, <1>3, <1>4, <1>5, <1>6, <1>7, <1>8, <1>9, <1>10, <1>11, <1>12, <1>13, <1>14, <1>15, <1>16, <1>17, <1>18, <1>19, <1>20, <1>21
       DEF Next, ServeNext, ConnStep, OpStep

\* Type correctness of the specification.
THEOREM TypeCorrect == Spec => []TypeOK
  <1>1. Init => TypeOK /\ LocalsInv
    BY SessionAssumption DEF Init, TypeOK, LocalsInv, Exec, MaybeUser
  <1>2. TypeOK /\ LocalsInv /\ [Next]_vars => (TypeOK /\ LocalsInv)'
    BY TypeStep, LocalsStep
  <1> QED
    BY <1>1, <1>2, PTL DEF Spec

\* The inductive invariant holds in every reachable state.
LEMMA SessionInvariant == Spec => []SessionIInv
  <1>1. Init => SessionIInv
    BY SessionAssumption DEF Init, SessionIInv, TypeOK, LocalsInv, ClientsAreServed,
       SessionsAreFindable, RevocationReaches, Serves, Doomed, Exec, MaybeUser
  <1>2. SessionIInv /\ [Next]_vars => SessionIInv'
    BY TypeStep, LocalsStep, ClientsStep, FindableStep, ReachesStep DEF SessionIInv
  <1> QED
    BY <1>1, <1>2, PTL DEF Spec

\* Hub.clients never names a goroutine that has returned or another user than
\* the one its goroutine serves.
THEOREM ClientsServed == Spec => []ClientsAreServed
  <1>1. SessionIInv => ClientsAreServed
    BY DEF SessionIInv
  <1> QED
    BY <1>1, SessionInvariant, PTL

\* Once no revocation of a revoked user is under way, only a session that
\* disconnectUser could not see when the flag was written still acts for it.
THEOREM RevocationIsComplete == Spec => []RevokedSessionsAreMissed
  <1>1. SessionIInv => RevokedSessionsAreMissed
    BY DEF SessionIInv, RevokedSessionsAreMissed, RevocationReaches, Doomed, OpOn
  <1> QED
    BY <1>1, SessionInvariant, PTL
-----------------------------------------------------------------------------
(* The token table implements TokenVault.                                  *)

\* The only steps that touch api_tokens, by what they do to it.
TokensGone(u) == live' = live \ LiveTokens(u) /\ tokenUser' = tokenUser
TokenMinted(u, t) ==
    /\ LiveTokens(u) = {} /\ tokenUser[t] = NoUser
    /\ tokenUser' = [tokenUser EXCEPT ![t] = u] /\ live' = live \cup {t}

\* With one live row per user, every step withdraws all live rows of one user,
\* mints one row for a user without one, or leaves the table alone.
LEMMA TableSteps ==
    ASSUME TypeOK, LocalsInv, OneLiveToken, [Next]_vars
    PROVE  \/ \E u \in Users : TokensGone(u)
           \/ \E u \in Users, t \in Tokens : TokenMinted(u, t)
           \/ UNCHANGED <<live, tokenUser>>
  <1>1. ASSUME NEW i \in Issuers, CreateTokenRotate(i)
        PROVE  TokensGone(issuerUser[i]) /\ issuerUser[i] \in Users
    BY <1>1 DEF CreateTokenRotate, TokensGone, LocalsInv
  <1>2. ASSUME NEW i \in Issuers, CreateTokenInsert(i)
        PROVE  \/ UNCHANGED <<live, tokenUser>>
               \/ \E t \in Tokens : TokenMinted(issuerUser[i], t)
    BY <1>2 DEF CreateTokenInsert, IndexAccepts, TokenMinted
  <1>3. ASSUME NEW i \in Issuers, CreateTokenInsert(i)
        PROVE  issuerUser[i] \in Users
    BY <1>3 DEF CreateTokenInsert, LocalsInv
  <1>4. ASSUME NEW u \in Users, NEW which, RevokeToken(u, which)
        PROVE  TokensGone(u)
    <2>1. LiveTokens(u) \cap which = LiveTokens(u)
      BY <1>4 DEF RevokeToken, LiveTokens, OneLiveToken
    <2> QED
      BY <1>4, <2>1 DEF RevokeToken, TokensGone
  <1>5. ASSUME NEW e \in Exec, KillTokens(e)
        PROVE  /\ opUser[e] \in Users
               /\ TokensGone(opUser[e]) \/ UNCHANGED <<live, tokenUser>>
    BY <1>5 DEF KillTokens, TokensGone, LocalsInv
  <1>6. ASSUME NEW i \in Issuers, NEW u \in Users, GetToken(i, u) \/ SeedToken(i, u)
        PROVE  UNCHANGED <<live, tokenUser>>
    BY <1>6 DEF GetToken, SeedToken, dbVars
  <1>7. ASSUME NEW i \in Issuers, CreateTokenCheck(i) \/ IssuerAborts(i)
        PROVE  UNCHANGED <<live, tokenUser>>
    BY <1>7 DEF CreateTokenCheck, IssuerAborts, dbVars
  <1>8. ASSUME NEW c \in Conns,
               \/ Accept(c) \/ AuthReject(c) \/ PeerGone(c) \/ ConnStep(c)
               \/ \E t \in Tokens : AuthLookup(c, t)
               \/ \E u \in Users : WsRevoke(c, u)
        PROVE  UNCHANGED <<live, tokenUser>>
    BY <1>8 DEF Accept, AuthReject, PeerGone, ConnStep, AuthLookup, WsRevoke, SetFlag,
       AuthAdmit, AuthRefuse, AuthReplace, AuthRegister, ReadFails, Unregister, dbVars
  <1>9. ASSUME NEW w \in WebReqs, NEW u \in Users, WebRevoke(w, u) \/ ImportRevoke(w, u)
        PROVE  UNCHANGED <<live, tokenUser>>
    BY <1>9 DEF WebRevoke, ImportRevoke, SetFlag
  <1>10. ASSUME NEW e \in Exec,
                Collect(e) \/ OpDone(e) \/ \E c \in Conns : CloseOne(e, c)
         PROVE  UNCHANGED <<live, tokenUser>>
    BY <1>10 DEF Collect, OpDone, CloseOne, dbVars
  <1>11. ASSUME NEW u \in Users, Restore(u)
         PROVE  UNCHANGED <<live, tokenUser>>
    BY <1>11 DEF Restore
  <1>12. CASE Crash \/ UNCHANGED vars
    BY <1>12 DEF Crash, vars, dbVars
  <1> QED
    BY <1>1, <1>2, <1>3, <1>4, <1>5, <1>6, <1>7, <1>8, <1>9, <1>10, <1>11, <1>12
       DEF Next, ServeNext, TokenNext, OpStep

\* The unique index keeps one live row per user under every interleaving of
\* CreateToken with itself.
LEMMA OneLiveStep ==
    TypeOK /\ LocalsInv /\ OneLiveToken /\ [Next]_vars => OneLiveToken'
  <1> SUFFICES ASSUME TypeOK, LocalsInv, OneLiveToken, [Next]_vars
               PROVE  OneLiveToken'
    OBVIOUS
  <1>1. ASSUME NEW u \in Users, TokensGone(u)
        PROVE  OneLiveToken'
    BY <1>1 DEF TokensGone, OneLiveToken
  <1>2. ASSUME NEW u \in Users, NEW t \in Tokens, TokenMinted(u, t)
        PROVE  OneLiveToken'
    BY <1>2 DEF TokenMinted, OneLiveToken, LiveTokens, TypeOK
  <1>3. CASE UNCHANGED <<live, tokenUser>>
    BY <1>3 DEF OneLiveToken
  <1> QED
    BY <1>1, <1>2, <1>3, TableSteps

\* One live row per user, always.
THEOREM OneTokenPerUser == Spec => []OneLiveToken
  <1>1. Init => TypeOK /\ LocalsInv /\ OneLiveToken
    BY SessionAssumption DEF Init, TypeOK, LocalsInv, OneLiveToken, Exec, MaybeUser
  <1>2. TypeOK /\ LocalsInv /\ OneLiveToken /\ [Next]_vars
            => (TypeOK /\ LocalsInv /\ OneLiveToken)'
    BY TypeStep, LocalsStep, OneLiveStep
  <1> QED
    BY <1>1, <1>2, PTL DEF Spec

\* A change of the table is a step of the abstract vault.
LEMMA VaultStep ==
    TypeOK /\ LocalsInv /\ OneLiveToken /\ [Next]_vars
        => [Vault!VaultNext]_(Vault!vaultVars)
  <1> SUFFICES ASSUME TypeOK, LocalsInv, OneLiveToken, [Next]_vars
               PROVE  [Vault!VaultNext]_(Vault!vaultVars)
    OBVIOUS
  <1>a. Slot({}) = NoToken /\ \A t \in Tokens : Slot({t}) = t
    BY DEF Slot
  <1>1. ASSUME NEW u \in Users, TokensGone(u)
        PROVE  Vault!Withdraw(u) \/ UNCHANGED <<Current, Minted>>
    <2>1. Minted' = Minted
      BY <1>1 DEF TokensGone, Minted
    <2>2. \A v \in Users : LiveTokens(v)' = IF v = u THEN {} ELSE LiveTokens(v)
      BY <1>1 DEF TokensGone, LiveTokens
    <2>3. CASE LiveTokens(u) = {}
      <3>1. \A v \in Users : LiveTokens(v)' = LiveTokens(v)
        BY <2>2, <2>3
      <3>2. Current' = Current
        BY <3>1 DEF Current
      <3> QED
        BY <2>1, <3>2
    <2>4. CASE LiveTokens(u) # {}
      <3>1. Current[u] \in LiveTokens(u)
        BY <2>4 DEF Current, Slot
      <3>2. Current[u] # NoToken
        BY <3>1, SessionAssumption DEF LiveTokens, TypeOK
      <3>3. Current' = [Current EXCEPT ![u] = NoToken]
        BY <2>2, <1>a DEF Current
      <3> QED
        BY <2>1, <3>2, <3>3 DEF Vault!Withdraw
    <2> QED
      BY <2>3, <2>4
  <1>2. ASSUME NEW u \in Users, NEW t \in Tokens, TokenMinted(u, t)
        PROVE  Vault!Issue(u)
    <2>1. t \notin Minted /\ Minted' = Minted \cup {t}
      BY <1>2, SessionAssumption DEF TokenMinted, Minted, TypeOK
    <2>2. \A v \in Users : LiveTokens(v)' = IF v = u THEN {t} ELSE LiveTokens(v)
      BY <1>2, SessionAssumption DEF TokenMinted, LiveTokens, TypeOK
    <2>3. Current[u] = NoToken
      BY <1>2, <1>a DEF TokenMinted, Current
    <2>4. Current' = [Current EXCEPT ![u] = t]
      BY <2>2, <1>a DEF Current
    <2> QED
      BY <2>1, <2>3, <2>4 DEF Vault!Issue
  <1>3. CASE UNCHANGED <<live, tokenUser>>
    BY <1>3 DEF Vault!vaultVars, Current, Minted, LiveTokens
  <1> QED
    BY <1>1, <1>2, <1>3, TableSteps DEF Vault!VaultNext, Vault!vaultVars

\* CreateToken, RevokeToken and SetUserAccessRevoked together implement the
\* one-slot vault, for any number of concurrent issuers and admins.
THEOREM VaultImplemented == Spec => VaultSpec
  <1>1. Init => Vault!VaultInit
    BY DEF Init, Vault!VaultInit, Current, Slot, Minted, LiveTokens
  <1>2. Spec => [](TypeOK /\ LocalsInv /\ OneLiveToken)
    BY SessionInvariant, OneTokenPerUser, PTL DEF SessionIInv
  <1> QED
    BY <1>1, <1>2, VaultStep, PTL DEF Spec, VaultSpec, Vault!VaultSpec
=============================================================================
