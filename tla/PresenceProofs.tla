--------------------------- MODULE PresenceProofs ---------------------------
(***************************************************************************)
(* Proofs about Presence, for every set of accounts, users and connections *)
(* and every lifetime of an entry.                                         *)
(***************************************************************************)
EXTENDS Presence, TLAPS

\* Every step keeps the types.
LEMMA TypeStep ==
  TypeOK /\ HandlersInv /\ [Next]_vars => TypeOK'
<1> SUFFICES ASSUME TypeOK /\ HandlersInv, [Next]_vars
             PROVE  TypeOK'
    OBVIOUS
<1> USE PresenceAssumption DEF TypeOK, HandlersInv, vars,
        trackerVars, aclVars, handlerVars, Watch
<1>1. ASSUME NEW c \in Conns, NEW a \in Accounts, NEW next \in {"clear", "offline"},
             Heartbeat(c, a, next) PROVE TypeOK'
    BY <1>1 DEF Heartbeat
<1>2. ASSUME NEW c \in Conns, NEW a \in Accounts, PickOnly(c, a) PROVE TypeOK'
    BY <1>2 DEF PickOnly
<1>3. ASSUME NEW c \in Conns, NEW P \in SUBSET Accounts, PickFromPool(c, P) PROVE TypeOK'
    BY <1>3 DEF PickFromPool
<1>4. ASSUME NEW c \in Conns, HeartbeatClear(c) PROVE TypeOK'
    BY <1>4 DEF HeartbeatClear, ClearUserExcept, expireLocked
<1>5. ASSUME NEW c \in Conns, HeartbeatTouch(c) PROVE TypeOK'
    BY <1>5 DEF HeartbeatTouch, Touch, Return
<1>6. ASSUME NEW c \in Conns, HeartbeatOffline(c) PROVE TypeOK'
    BY <1>6 DEF HeartbeatOffline, Clear, Return
<1>7. ASSUME NEW c \in Conns, PoolFree(c) PROVE TypeOK'
    BY <1>7 DEF PoolFree, expireLocked, First
<1>8. ASSUME NEW c \in Conns, PoolBusy(c) PROVE TypeOK'
    BY <1>8 DEF PoolBusy, expireLocked, First
<1>9. ASSUME NEW c \in Conns, LoginReturns(c) PROVE TypeOK'
    BY <1>9 DEF LoginReturns, Return
<1>10. ASSUME NEW c \in Conns, Splice(c) PROVE TypeOK'
    BY <1>10 DEF Splice, ClearUserExcept, expireLocked, Return
<1>11. CASE Online
    BY <1>11 DEF Online, expireLocked
<1>12. ASSUME NEW u \in Users, NEW a \in Accounts, SetAccess(u, a) PROVE TypeOK'
    BY <1>12 DEF SetAccess
<1>13. ASSUME NEW a \in Accounts, DeleteAccount(a) PROVE TypeOK'
    BY <1>13 DEF DeleteAccount
<1>14. ASSUME NEW a \in Accounts, ClearDeleted(a) PROVE TypeOK'
    BY <1>14 DEF ClearDeleted, Clear
<1>15. CASE Tick
    BY <1>15 DEF Tick
<1>16. CASE UNCHANGED vars
    BY <1>16
<1>17. QED
    BY <1>1, <1>2, <1>3, <1>4, <1>5, <1>6, <1>7, <1>8, <1>9, <1>10, <1>11, <1>12,
       <1>13, <1>14, <1>15, <1>16 DEF Next, Request, HandlerStep

\* A handler past its check knows its account, and an account without an entry
\* has the largest age, after every step.
LEMMA HandlersStep ==
  TypeOK /\ HandlersInv /\ [Next]_vars => HandlersInv'
<1> SUFFICES ASSUME TypeOK /\ HandlersInv, [Next]_vars
             PROVE  HandlersInv'
    OBVIOUS
<1> USE PresenceAssumption DEF TypeOK, HandlersInv, vars,
        trackerVars, aclVars, handlerVars, Watch
<1>1. ASSUME NEW c \in Conns, NEW a \in Accounts, NEW next \in {"clear", "offline"},
             Heartbeat(c, a, next) PROVE HandlersInv'
    BY <1>1 DEF Heartbeat
<1>2. ASSUME NEW c \in Conns, NEW a \in Accounts, PickOnly(c, a) PROVE HandlersInv'
    BY <1>2 DEF PickOnly
<1>3. ASSUME NEW c \in Conns, NEW P \in SUBSET Accounts, PickFromPool(c, P) PROVE HandlersInv'
    BY <1>3 DEF PickFromPool
<1>4. ASSUME NEW c \in Conns, HeartbeatClear(c) PROVE HandlersInv'
    BY <1>4 DEF HeartbeatClear, ClearUserExcept, expireLocked
<1>5. ASSUME NEW c \in Conns, HeartbeatTouch(c) PROVE HandlersInv'
    BY <1>5 DEF HeartbeatTouch, Touch, Return
<1>6. ASSUME NEW c \in Conns, HeartbeatOffline(c) PROVE HandlersInv'
    BY <1>6 DEF HeartbeatOffline, Clear, Return
<1>7. ASSUME NEW c \in Conns, PoolFree(c) PROVE HandlersInv'
    BY <1>7 DEF PoolFree, expireLocked, First
<1>8. ASSUME NEW c \in Conns, PoolBusy(c) PROVE HandlersInv'
    BY <1>8 DEF PoolBusy, expireLocked, First
<1>9. ASSUME NEW c \in Conns, LoginReturns(c) PROVE HandlersInv'
    BY <1>9 DEF LoginReturns, Return
<1>10. ASSUME NEW c \in Conns, Splice(c) PROVE HandlersInv'
    BY <1>10 DEF Splice, ClearUserExcept, expireLocked, Return
<1>11. CASE Online
    BY <1>11 DEF Online, expireLocked
<1>12. ASSUME NEW u \in Users, NEW a \in Accounts, SetAccess(u, a) PROVE HandlersInv'
    BY <1>12 DEF SetAccess
<1>13. ASSUME NEW a \in Accounts, DeleteAccount(a) PROVE HandlersInv'
    BY <1>13 DEF DeleteAccount
<1>14. ASSUME NEW a \in Accounts, ClearDeleted(a) PROVE HandlersInv'
    BY <1>14 DEF ClearDeleted, Clear
<1>15. CASE Tick
    BY <1>15 DEF Tick
<1>16. CASE UNCHANGED vars
    BY <1>16
<1>17. QED
    BY <1>1, <1>2, <1>3, <1>4, <1>5, <1>6, <1>7, <1>8, <1>9, <1>10, <1>11, <1>12,
       <1>13, <1>14, <1>15, <1>16 DEF Next, Request, HandlerStep

\* ClearUserExcept leaves a user one account at most, and nobody but the user's
\* only connection can add one before Touch.
LEMMA BoxStep ==
  TypeOK /\ HandlersInv /\ ClearedInv /\ OneBoxPerSoloUser /\ [Next]_vars => (ClearedInv /\ OneBoxPerSoloUser)'
<1> SUFFICES ASSUME TypeOK /\ HandlersInv /\ ClearedInv /\ OneBoxPerSoloUser, [Next]_vars
             PROVE  (ClearedInv /\ OneBoxPerSoloUser)'
    OBVIOUS
<1> USE PresenceAssumption DEF TypeOK, HandlersInv, ClearedInv, OneBoxPerSoloUser, Solo, vars,
        trackerVars, aclVars, handlerVars, Watch
<1>1. ASSUME NEW c \in Conns, NEW a \in Accounts, NEW next \in {"clear", "offline"},
             Heartbeat(c, a, next)
      PROVE  (ClearedInv /\ OneBoxPerSoloUser)'
    BY <1>1 DEF Heartbeat
<1>2. ASSUME NEW c \in Conns, NEW a \in Accounts, PickOnly(c, a)
      PROVE  (ClearedInv /\ OneBoxPerSoloUser)'
    BY <1>2 DEF PickOnly
<1>3. ASSUME NEW c \in Conns, NEW P \in SUBSET Accounts, PickFromPool(c, P)
      PROVE  (ClearedInv /\ OneBoxPerSoloUser)'
    BY <1>3 DEF PickFromPool
<1>4. ASSUME NEW c \in Conns, HeartbeatClear(c)
      PROVE  (ClearedInv /\ OneBoxPerSoloUser)'
    BY <1>4 DEF HeartbeatClear, ClearUserExcept, expireLocked
<1>5. ASSUME NEW c \in Conns, HeartbeatTouch(c)
      PROVE  (ClearedInv /\ OneBoxPerSoloUser)'
    BY <1>5 DEF HeartbeatTouch, Touch, Return
<1>6. ASSUME NEW c \in Conns, HeartbeatOffline(c)
      PROVE  (ClearedInv /\ OneBoxPerSoloUser)'
    BY <1>6 DEF HeartbeatOffline, Clear, Return
<1>7. ASSUME NEW c \in Conns, PoolFree(c)
      PROVE  (ClearedInv /\ OneBoxPerSoloUser)'
    BY <1>7 DEF PoolFree, expireLocked, First
<1>8. ASSUME NEW c \in Conns, PoolBusy(c)
      PROVE  (ClearedInv /\ OneBoxPerSoloUser)'
    BY <1>8 DEF PoolBusy, expireLocked, First
<1>9. ASSUME NEW c \in Conns, LoginReturns(c)
      PROVE  (ClearedInv /\ OneBoxPerSoloUser)'
    BY <1>9 DEF LoginReturns, Return
<1>10. ASSUME NEW c \in Conns, Splice(c)
      PROVE  (ClearedInv /\ OneBoxPerSoloUser)'
    BY <1>10 DEF Splice, ClearUserExcept, expireLocked, Return
<1>11. CASE Online
    BY <1>11 DEF Online, expireLocked
<1>12. ASSUME NEW u \in Users, NEW a \in Accounts, SetAccess(u, a)
      PROVE  (ClearedInv /\ OneBoxPerSoloUser)'
    BY <1>12 DEF SetAccess
<1>13. ASSUME NEW a \in Accounts, DeleteAccount(a)
      PROVE  (ClearedInv /\ OneBoxPerSoloUser)'
    BY <1>13 DEF DeleteAccount
<1>14. ASSUME NEW a \in Accounts, ClearDeleted(a)
      PROVE  (ClearedInv /\ OneBoxPerSoloUser)'
    BY <1>14 DEF ClearDeleted, Clear
<1>15. CASE Tick
    BY <1>15 DEF Tick
<1>16. CASE UNCHANGED vars
    BY <1>16
<1>17. QED
    BY <1>1, <1>2, <1>3, <1>4, <1>5, <1>6, <1>7, <1>8, <1>9, <1>10, <1>11, <1>12,
       <1>13, <1>14, <1>15, <1>16 DEF Next, Request, HandlerStep

\* The scan passes over an account only when it finds it online.
LEMMA ScanStep ==
  TypeOK /\ HandlersInv /\ ScanInv /\ [Next]_vars => ScanInv'
<1> SUFFICES ASSUME TypeOK, HandlersInv, ScanInv, Next PROVE ScanInv'
    BY DEF ScanInv, vars, handlerVars, trackerVars
<1>1. TypeOK'
    BY TypeStep
<1>2. Watch
    BY DEF Next, Request, HandlerStep, Heartbeat, PickOnly, PickFromPool,
       HeartbeatClear, HeartbeatTouch, HeartbeatOffline, PoolFree, PoolBusy,
       LoginReturns, Splice, Online, SetAccess, DeleteAccount, ClearDeleted, Tick
<1> SUFFICES ASSUME NEW d \in Conns, NEW x \in idleThroughout'[d]
             PROVE  x \in pool'[d] /\ age'[x] = TTL
    BY DEF ScanInv
<1>3. x \in Accounts /\ pc'[d] = "scan" /\ age'[x] = TTL
  <2>1. x \in Accounts /\ age'[x] \in 0..TTL
      BY <1>1 DEF TypeOK
  <2>2. pc'[d] = "scan" /\ age'[x] >= TTL
      BY <1>2 DEF Watch
  <2> QED
      BY <2>1, <2>2, PresenceAssumption
<1>4. CASE pc[d] # "scan"
    BY <1>2, <1>3, <1>4 DEF Watch
<1>5. CASE pc[d] = "scan"
  <2>1. x \in pool[d] /\ age[x] = TTL
      BY <1>2, <1>3, <1>5 DEF Watch, ScanInv
  <2> USE <1>3, <1>5, <2>1 DEF TypeOK
  <2>2. ASSUME NEW c \in Conns, Request(c) PROVE x \in pool'[d]
      BY <2>2 DEF Request, Heartbeat, PickOnly, PickFromPool
  <2>3. ASSUME NEW c \in Conns, PoolFree(c) PROVE x \in pool'[d]
      BY <2>3 DEF PoolFree
  <2>4. ASSUME NEW c \in Conns, PoolBusy(c) PROVE x \in pool'[d]
    <3>1. PICK a \in Accounts : /\ expireLocked[a] # NoUser
                                /\ pool' = [pool EXCEPT ![c] = @ \ {a}]
        BY <2>4 DEF PoolBusy
    <3>2. a # x
        BY <3>1, PresenceAssumption DEF expireLocked
    <3> QED
        BY <3>1, <3>2
  <2>5. ASSUME NEW c \in Conns, HandlerStep(c), ~PoolFree(c), ~PoolBusy(c)
        PROVE  x \in pool'[d]
      BY <2>5 DEF HandlerStep, HeartbeatClear, HeartbeatTouch, HeartbeatOffline,
         LoginReturns, Splice, Return
  <2>6. CASE Online \/ Tick
      BY <2>6 DEF Online, Tick, handlerVars
  <2>7. ASSUME NEW u \in Users, NEW a \in Accounts, SetAccess(u, a)
        PROVE  x \in pool'[d]
      BY <2>7 DEF SetAccess, handlerVars
  <2>8. ASSUME NEW a \in Accounts, DeleteAccount(a) \/ ClearDeleted(a)
        PROVE  x \in pool'[d]
      BY <2>8 DEF DeleteAccount, ClearDeleted, handlerVars
  <2> QED
      BY <1>3, <2>2, <2>3, <2>4, <2>5, <2>6, <2>7, <2>8 DEF Next
<1> QED
    BY <1>4, <1>5, <1>3

\* The invariant behind the theorems below.
THEOREM PresenceInvariant == Spec => []PresenceIInv
<1>1. Init => PresenceIInv
    BY PresenceAssumption DEF Init, PresenceIInv, TypeOK, HandlersInv, ClearedInv,
       OneBoxPerSoloUser, ScanInv
<1>2. PresenceIInv /\ [Next]_vars => PresenceIInv'
    BY TypeStep, HandlersStep, BoxStep, ScanStep DEF PresenceIInv
<1> QED
    BY <1>1, <1>2, PTL DEF Spec

\* Types of the tracker's map and of the locals of the handlers.
THEOREM TypeCorrect == Spec => []TypeOK
<1>1. PresenceIInv => TypeOK
    BY DEF PresenceIInv
<1> QED
    BY <1>1, PresenceInvariant, PTL

\* A user with one connection never has two accounts online.
THEOREM OneBox == Spec => []OneBoxPerSoloUser
<1>1. PresenceIInv => OneBoxPerSoloUser
    BY DEF PresenceIInv
<1> QED
    BY <1>1, PresenceInvariant, PTL

\* pickLoginCandidate answers all_busy only when no account of the pool was
\* free during the whole scan.
THEOREM AllBusyJustified == Spec => AllBusyIsJust
<1>1. PresenceIInv /\ [Next]_vars =>
        [\A c \in Conns :
            pc[c] = "scan" /\ pc'[c] = "idle" => idleThroughout[c] = {}]_vars
  <2> SUFFICES ASSUME PresenceIInv, Next, NEW c \in Conns,
                      pc[c] = "scan", pc'[c] = "idle"
               PROVE  idleThroughout[c] = {}
      OBVIOUS
  <2>1. PoolBusy(c)
      BY DEF PresenceIInv, TypeOK, Next, Request, HandlerStep, Heartbeat, PickOnly,
         PickFromPool, HeartbeatClear, HeartbeatTouch, HeartbeatOffline, PoolFree,
         PoolBusy, LoginReturns, Splice, Return, Online, SetAccess, DeleteAccount,
         ClearDeleted, Tick, handlerVars
  <2>2. PICK a \in Accounts : expireLocked[a] # NoUser /\ pool[c] = {a}
      BY <2>1 DEF PoolBusy, PresenceIInv, TypeOK
  <2>3. age[a] # TTL
      BY <2>2, PresenceAssumption DEF expireLocked, PresenceIInv, TypeOK
  <2> QED
      BY <2>2, <2>3 DEF PresenceIInv, ScanInv
<1> QED
    BY <1>1, PresenceInvariant, PTL DEF Spec, AllBusyIsJust

\* Every step of the tracker is a step of the board or leaves it alone.
LEMMA BoardStep ==
  TypeOK /\ HandlersInv /\ [Next]_vars => [Board!BoardNext]_(Board!boardVars)
<1> SUFFICES ASSUME TypeOK, HandlersInv, [Next]_vars
             PROVE  [Board!BoardNext]_(Board!boardVars)
    OBVIOUS
<1> DEFINE board == [a \in Accounts |-> IF Visible(a) THEN owner[a] ELSE NoUser]
           left == [a \in Accounts |-> TTL - age[a]]
<1>ty. TypeOK'
    BY TypeStep
<1> USE PresenceAssumption
<1>bd. board = expireLocked
    BY DEF TypeOK, Visible, expireLocked
<1>1. CASE UNCHANGED <<owner, age, lastLook>>
    BY <1>1 DEF Board!boardVars, Visible
<1>2. ASSUME NEW u \in Users, NEW keep, ClearUserExcept(u, keep), UNCHANGED lastLook
      PROVE  Board!BoardNext
  <2> DEFINE S == {a \in Accounts : expireLocked[a] = u /\ a # keep}
  <2>1. board' = [a \in Accounts |-> IF a \in S THEN NoUser ELSE board[a]]
      BY <1>2 DEF ClearUserExcept, Visible, expireLocked, TypeOK
  <2>2. left' = [a \in Accounts |-> IF a \in S THEN 0 ELSE left[a]]
      BY <1>2 DEF ClearUserExcept
  <2> QED
      BY <1>2, <2>1, <2>2 DEF Board!BoardNext, Board!TakeOff
<1>3. ASSUME NEW a \in Accounts, Clear(a), UNCHANGED lastLook
      PROVE  Board!BoardNext
  <2>1. board' = [b \in Accounts |-> IF b \in {a} THEN NoUser ELSE board[b]]
      BY <1>3 DEF Clear, Visible, TypeOK
  <2>2. left' = [b \in Accounts |-> IF b \in {a} THEN 0 ELSE left[b]]
      BY <1>3 DEF Clear, TypeOK
  <2> QED
      BY <1>3, <2>1, <2>2 DEF Board!BoardNext, Board!TakeOff
<1>4. ASSUME NEW a \in Accounts, NEW u \in Users, Touch(a, u), UNCHANGED lastLook
      PROVE  Board!BoardNext
  <2>1. /\ owner' = [owner EXCEPT ![a] = u] /\ owner'[a] = u
        /\ age' = [age EXCEPT ![a] = 0] /\ age'[a] = 0
      BY <1>4 DEF Touch, TypeOK
  <2>2. \A b \in Accounts : board'[b] = [board EXCEPT ![a] = u][b]
      BY <2>1 DEF Visible, TypeOK
  <2>3. board' = [board EXCEPT ![a] = u]
      BY <2>2
  <2>4. \A b \in Accounts : left'[b] = [left EXCEPT ![a] = TTL][b]
      BY <2>1 DEF TypeOK
  <2>5. left' = [left EXCEPT ![a] = TTL]
      BY <2>4
  <2> QED
      BY <1>4, <2>3, <2>5 DEF Board!BoardNext, Board!PutOnline
<1>5. CASE owner' = expireLocked /\ UNCHANGED <<age, lastLook>>
  <2>1. board' = board /\ left' = left
      BY <1>5 DEF expireLocked, Visible, TypeOK
  <2> QED
      BY <1>5, <2>1 DEF Board!boardVars
<1>6. CASE Online
  <2>1. board' = board /\ left' = left
      BY <1>6 DEF Online, expireLocked, Visible, TypeOK
  <2>2. lastLook' = {a \in Accounts : board[a] # NoUser}
      BY <1>6, <1>bd DEF Online
  <2> QED
      BY <2>1, <2>2 DEF Board!BoardNext, Board!Look
<1>7. CASE Tick
  <2>1. ASSUME NEW a \in Accounts
        PROVE  left'[a] = IF left[a] = 0 THEN 0 ELSE left[a] - 1
    <3>1. age[a] \in Nat /\ age[a] <= TTL /\ TTL \in Nat
        BY DEF TypeOK
    <3>2. age'[a] = IF age[a] < TTL THEN age[a] + 1 ELSE TTL
        BY <1>7 DEF Tick
    <3>3. left[a] = TTL - age[a] /\ left'[a] = TTL - age'[a]
        OBVIOUS
    <3> QED
        BY <3>1, <3>2, <3>3
  <2>2. left' = [a \in Accounts |-> IF left[a] = 0 THEN 0 ELSE left[a] - 1]
      BY <2>1
  <2>3. ASSUME NEW a \in Accounts
        PROVE  board'[a] = IF left'[a] = 0 THEN NoUser ELSE board[a]
    <3>1. age[a] \in Nat /\ age[a] <= TTL /\ TTL \in Nat
        BY DEF TypeOK
    <3>2. age'[a] = IF age[a] < TTL THEN age[a] + 1 ELSE TTL
        BY <1>7 DEF Tick
    <3>3. left'[a] = TTL - age'[a] /\ UNCHANGED owner
        BY <1>7 DEF Tick
    <3> QED
        BY <3>1, <3>2, <3>3 DEF Visible
  <2>4. board' = [a \in Accounts |-> IF left'[a] = 0 THEN NoUser ELSE board[a]]
      BY <2>3
  <2> QED
      BY <1>7, <2>2, <2>4 DEF Tick, Board!BoardNext, Board!Pass
<1>8. ASSUME NEW c \in Conns, Request(c) PROVE UNCHANGED <<owner, age, lastLook>>
    BY <1>8 DEF Request, Heartbeat, PickOnly, PickFromPool, trackerVars
<1>9. ASSUME NEW c \in Conns, HandlerStep(c) PROVE [Board!BoardNext]_(Board!boardVars)
  <2>1. UserOf[c] \in Users
      OBVIOUS
  <2>2. CASE HeartbeatClear(c) \/ Splice(c)
      BY <1>2, <2>1, <2>2 DEF HeartbeatClear, Splice
  <2>3. CASE HeartbeatTouch(c)
    <3>1. target[c] \in Accounts
        BY <2>3 DEF HeartbeatTouch, HandlersInv
    <3> QED
        BY <1>4, <2>1, <2>3, <3>1 DEF HeartbeatTouch
  <2>4. CASE HeartbeatOffline(c)
    <3>1. target[c] \in Accounts
        BY <2>4 DEF HeartbeatOffline, HandlersInv
    <3> QED
        BY <1>3, <2>4, <3>1 DEF HeartbeatOffline
  <2>5. CASE PoolFree(c) \/ PoolBusy(c)
      BY <1>5, <2>5 DEF PoolFree, PoolBusy
  <2>6. CASE LoginReturns(c)
      BY <1>1, <2>6 DEF LoginReturns, trackerVars
  <2> QED
      BY <1>9, <2>2, <2>3, <2>4, <2>5, <2>6 DEF HandlerStep
<1>10. ASSUME NEW u \in Users, NEW a \in Accounts, SetAccess(u, a)
       PROVE  UNCHANGED <<owner, age, lastLook>>
    BY <1>10 DEF SetAccess, trackerVars
<1>11. ASSUME NEW a \in Accounts, DeleteAccount(a)
       PROVE  UNCHANGED <<owner, age, lastLook>>
    BY <1>11 DEF DeleteAccount, trackerVars
<1>12. ASSUME NEW a \in Accounts, ClearDeleted(a) PROVE Board!BoardNext
    BY <1>3, <1>12 DEF ClearDeleted
<1>13. CASE UNCHANGED vars
    BY <1>1, <1>13 DEF vars, trackerVars
<1> HIDE DEF board, left
<1> QED
    BY <1>1, <1>6, <1>7, <1>8, <1>9, <1>10, <1>11, <1>12, <1>13 DEF Next

\* The tracker, which deletes an expired entry only when somebody looks,
\* implements the board, which drops it in time.
THEOREM BoardImplemented == Spec => BoardSpec
<1>1. Init => Board!BoardInit
    BY PresenceAssumption DEF Init, Board!BoardInit, Visible
<1>2. PresenceIInv /\ [Next]_vars => [Board!BoardNext]_(Board!boardVars)
    BY BoardStep DEF PresenceIInv
<1> QED
    BY <1>1, <1>2, PresenceInvariant, PTL DEF Spec, BoardSpec, Board!BoardSpec
=============================================================================
