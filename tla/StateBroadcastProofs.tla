------------------------ MODULE StateBroadcastProofs ------------------------
(***************************************************************************)
(* Proofs about StateBroadcast, for every set of users, connections, tabs  *)
(* and requests and every number of events.                                *)
(*                                                                         *)
(* A goroutine that holds a row is not quiet, so nobody leaves lately      *)
(* before its write. The hub's copy is shared, and another push may        *)
(* overwrite it between the refresh and the build, but only with a row     *)
(* that is fresh itself.                                                   *)
(***************************************************************************)
EXTENDS StateBroadcast, TLAPS

-----------------------------------------------------------------------------
(* Types.                                                                  *)

\* A read or a failed read leaves a row or None.
LEMMA ReadType ==
  ASSUME TypeOK, NEW g \in Routines, NEW c \in Conns, UserByID(g, c)
  PROVE  /\ got' \in [Routines -> BOOLEAN \cup {None}]
         /\ events' \in 0..MaxEvents /\ version \in 0..events'
<1> USE BroadcastAssumption DEF TypeOK, Sockets, Routines
<1>1. role[UserOf[c]] \in BOOLEAN
    OBVIOUS
<1>2. got' \in [Routines -> BOOLEAN \cup {None}]
    BY <1>1 DEF UserByID
<1>3. events' \in 0..MaxEvents /\ version \in 0..events'
    BY DEF UserByID, Event
<1>4. QED
    BY <1>2, <1>3

\* The end of a full_state, and of the tabs, keep the types of a goroutine.
LEMMA ServedType ==
  ASSUME TypeOK, NEW g \in Routines, Served(g)
  PROVE  /\ at' \in [Routines -> Users \cup Sockets \cup {None}]
         /\ got' \in [Routines -> BOOLEAN \cup {None}]
         /\ pay' \in [Routines -> Payload]
         /\ back' \in [Routines -> {"clients", "serve"}]
         /\ pc' = [pc EXCEPT ![g] = pc'[g]] /\ pc'[g] \in {"serve", "live", "clients"}
<1> USE BroadcastAssumption DEF TypeOK
<1>1. NoPay \in Payload
    BY DEF NoPay, Payload
<1>2. QED
    BY <1>1 DEF Served, Go

LEMMA AfterTabsType ==
  ASSUME TypeOK, NEW g \in Routines, NEW rest \in SUBSET Sockets, AfterTabs(g, rest)
  PROVE  /\ todo' \in [Routines -> SUBSET Sockets]
         /\ next' \in [Routines -> {"greet", "serve", "idle", "broadcast", "gone"}]
         /\ pc' \in [Routines -> {"new", "idle", "accept", "register", "greet", "serve",
                                 "kick", "close",
                                 "broadcast", "clients", "assign", "build", "send", "live",
                                 "tabs", "push", "gone"}]
<1>1. next[g] \in {"greet", "serve", "idle", "broadcast", "gone"}
    BY DEF TypeOK
<1>2. /\ todo' \in [Routines -> SUBSET Sockets]
      /\ next' \in [Routines -> {"greet", "serve", "idle", "broadcast", "gone"}]
    BY DEF TypeOK, AfterTabs, Home
<1>3. pc' \in [Routines -> {"new", "idle", "accept", "register", "greet", "serve",
                              "kick", "close",
                              "broadcast", "clients", "assign", "build", "send", "live",
                              "tabs", "push", "gone"}]
    BY <1>1 DEF TypeOK, AfterTabs, Go
<1>4. QED
    BY <1>2, <1>3

\* Every step keeps the types; a payload is no newer than the tables.
LEMMA TypeStep ==
  BroadcastIInv /\ [Next]_vars => TypeOK'
<1> SUFFICES ASSUME TypeOK, \A g \in Routines : SendingInv(g), [Next]_vars
             PROVE  TypeOK'
    BY DEF BroadcastIInv
<1> USE BroadcastAssumption DEF dues, userVars, hubVars, screenVars, pushVars, localVars,
        Sockets, Routines
<1>1. ASSUME NEW g \in Routines, Push(g), Track PROVE TypeOK'
  <2>1. CASE broadcastFullState(g)
      BY <2>1, <1>1 DEF TypeOK, broadcastFullState, Go, Track
  <2>2. CASE AssignUser(g)
      BY <2>2, <1>1 DEF TypeOK, AssignUser, Refreshed, Go, Track
  <2>3. CASE BuildFullState(g)
    <3>1. at[g] \in Conns
        BY <2>3 DEF BuildFullState, SendingInv
    <3>2. PICK whole \in BOOLEAN, admin \in {copy[at[g]], FALSE} :
            /\ Event \/ UNCHANGED events
            /\ pay' = [pay EXCEPT ![g] = [v |-> version, admin |-> admin,
                                          fresh |-> got[g] # None, whole |-> whole]]
        BY <2>3 DEF BuildFullState
    <3> DEFINE built == [v |-> version, admin |-> admin, fresh |-> got[g] # None, whole |-> whole]
    <3>3. built \in Payload
      <4>1. version \in 0..MaxEvents
          BY DEF TypeOK
      <4>2. admin \in BOOLEAN
          BY <3>1 DEF TypeOK
      <4>3. QED
          BY <4>1, <4>2 DEF Payload
    <3>4. pay' \in [Routines -> Payload]
        BY <3>2, <3>3 DEF TypeOK
    <3>5. events' \in 0..MaxEvents /\ version \in 0..events'
        BY <3>2 DEF TypeOK, Event
    <3>6. QED
        BY <2>3, <1>1, <3>4, <3>5 DEF TypeOK, BuildFullState, Go, Track
  <2>4. CASE SendFullState(g)
    <3>1. at[g] \in Conns /\ pay[g].v \in 0..version
        BY <2>4 DEF TypeOK, SendFullState, SendingInv, Payload
    <3>2. /\ seen' \in [Sockets -> 0..version] /\ missed' \in [Sockets -> 0..version]
          /\ open' \subseteq Sockets /\ events' \in 0..MaxEvents /\ version \in 0..events'
        BY <2>4, <3>1 DEF TypeOK, SendFullState, Delivered, Newer, Event
    <3>3. QED
      <4>1. /\ at' \in [Routines -> Users \cup Sockets \cup {None}]
            /\ got' \in [Routines -> BOOLEAN \cup {None}]
            /\ pay' \in [Routines -> Payload]
            /\ back' \in [Routines -> {"clients", "serve"}]
            /\ pc' = [pc EXCEPT ![g] = pc'[g]] /\ pc'[g] \in {"serve", "live", "clients"}
          BY <2>4, ServedType DEF SendFullState
      <4>2. UNCHANGED <<version, due, dueTabs, role, revoked, clients, copy, live, row, todo, next>>
          BY <2>4 DEF SendFullState
      <4>3. QED
          BY <1>1, <3>2, <4>1, <4>2 DEF TypeOK, Track
  <2>0. lately' \subseteq Users
      BY <1>1 DEF Track
  <2>5. CASE broadcastLiveState(g)
    <3>1. live \in SUBSET Sockets /\ AfterTabs(g, live)
        BY <2>5 DEF TypeOK, broadcastLiveState
    <3>2. UNCHANGED <<events, version, due, dueTabs, role, revoked, clients, copy, live, open,
                      seen, missed, row, at, got, pay, back>>
        BY <2>5 DEF broadcastLiveState
    <3>3. QED
        BY <2>0, <3>1, <3>2, AfterTabsType DEF TypeOK
  <2>6. CASE disconnectUser(g)
      BY <2>6, <1>1 DEF TypeOK, disconnectUser, Go, Track
  <2>7. ASSUME NEW c \in Conns, RefreshUser(g, c) PROVE TypeOK'
      BY <2>7, <1>1, ReadType DEF TypeOK, RefreshUser, Go, Track
  <2>8. ASSUME NEW c \in Conns, CloseSession(g, c) PROVE TypeOK'
      BY <2>8, <1>1 DEF TypeOK, CloseSession, Go, Track
  <2>9. ASSUME NEW t \in Tabs, BuildState(g, t) PROVE TypeOK'
    <3> DEFINE u == UserOf[t]
               sockets == {s \in todo[g] : UserOf[s] = u}
               built(w) == [v |-> version, admin |-> row[t], fresh |-> TRUE, whole |-> w]
    <3>1. /\ \A w \in BOOLEAN : built(w) \in Payload
          /\ u \in Users /\ todo[g] \ sockets \in SUBSET Sockets
        BY DEF TypeOK, Payload
    <3> HIDE DEF built, sockets, u
    <3>2. ASSUME NEW w \in BOOLEAN,
                 IF w THEN UNCHANGED events ELSE Event,
                 pay' = [pay EXCEPT ![g] = built(w)], at' = [at EXCEPT ![g] = u],
                 Go(g, "push"), UNCHANGED <<todo, next, missed>>
          PROVE  TypeOK'
      <4>1. events' \in 0..MaxEvents /\ version \in 0..events'
          BY <3>2 DEF TypeOK, Event
      <4>2. pay' \in [Routines -> Payload]
          BY <3>1, <3>2 DEF TypeOK
      <4>3. QED
          BY <2>9, <2>0, <3>1, <3>2, <4>1, <4>2 DEF TypeOK, BuildState, Go
    <3>3. CASE /\ Event
               /\ missed' = [s \in Sockets |-> IF s \in sockets THEN version ELSE missed[s]]
               /\ AfterTabs(g, todo[g] \ sockets) /\ UNCHANGED <<at, pay>>
      <4>1. UNCHANGED <<version, due, dueTabs, role, revoked, clients, copy, live, open, seen, row,
                        at, got, pay, back>>
          BY <2>9, <3>3 DEF BuildState
      <4>2. /\ missed' \in [Sockets -> 0..version]
            /\ events' \in 0..MaxEvents /\ version \in 0..events'
          BY <3>3 DEF TypeOK, Event
      <4>3. QED
          BY <2>0, <3>1, <3>3, <4>1, <4>2, AfterTabsType DEF TypeOK
    <3>4. QED
        BY <2>9, <3>2, <3>3 DEF BuildState, built, sockets, u
  <2>10. ASSUME NEW t \in Tabs, PushState(g, t) PROVE TypeOK'
    <3> DEFINE rest == todo[g] \ {t}
    <3>1. pay[g].v \in 0..version /\ rest \in SUBSET Sockets /\ NoPay \in Payload
        BY DEF TypeOK, SendingInv, Payload, NoPay
    <3>2. /\ seen' \in [Sockets -> 0..version] /\ missed' \in [Sockets -> 0..version]
          /\ open' \subseteq Sockets /\ live' \subseteq Tabs
          /\ events' \in 0..MaxEvents /\ version \in 0..events'
        BY <2>10, <3>1 DEF TypeOK, PushState, Delivered, Newer, Event
    <3> HIDE DEF rest
    <3>3. CASE todo' = [todo EXCEPT ![g] = rest] /\ UNCHANGED <<pc, next, at, pay>>
        BY <2>10, <1>1, <3>1, <3>2, <3>3 DEF TypeOK, PushState, Track
    <3>4. CASE /\ AfterTabs(g, rest) /\ at' = [at EXCEPT ![g] = None]
               /\ pay' = [pay EXCEPT ![g] = NoPay]
      <4>1. UNCHANGED <<version, due, dueTabs, role, revoked, clients, copy, row, got, back>>
          BY <2>10 DEF PushState
      <4>2. /\ at' \in [Routines -> Users \cup Sockets \cup {None}]
            /\ pay' \in [Routines -> Payload]
          BY <3>1, <3>4 DEF TypeOK
      <4>3. QED
          BY <2>0, <3>1, <3>2, <3>4, <4>1, <4>2, AfterTabsType DEF TypeOK
    <3>5. QED
        BY <2>10, <3>3, <3>4 DEF PushState, rest
  <2>11. QED
      BY <1>1, <2>1, <2>2, <2>3, <2>4, <2>5, <2>6, <2>7, <2>8, <2>9, <2>10 DEF Push
<1>2. ASSUME NEW c \in Conns, HubStep(c), Track PROVE TypeOK'
  <2>1. CASE register(c)
      BY <2>1, <1>2 DEF TypeOK, register, Go, Track
  <2>2. CASE Greet(c)
      BY <2>2, <1>2 DEF TypeOK, Greet, Go, Track
  <2>3. CASE unregister(c)
      BY <2>3, <1>2 DEF TypeOK, unregister, ForgetScreen, Go, Track
  <2>4. QED
      BY <1>2, <2>1, <2>2, <2>3 DEF HubStep
<1>3. ASSUME NEW t \in Tabs, TabStep(t), Track PROVE TypeOK'
    BY <1>3 DEF TypeOK, TabStep, AcceptTab, TabLeaves, ForgetScreen, Go, Track
<1>4. ASSUME Environment, Track PROVE TypeOK'
  <2>1. ASSUME NEW c \in Conns, Auth(c) PROVE TypeOK'
      BY <2>1, <1>4 DEF TypeOK, Auth, Go, Track
  <2>2. ASSUME NEW c \in Conns, GetState(c) PROVE TypeOK'
      BY <2>2, <1>4, ReadType DEF TypeOK, GetState, Go, Track
  <2>3. ASSUME NEW c \in Conns, Heartbeat(c) PROVE TypeOK'
      BY <2>3, <1>4 DEF TypeOK, Heartbeat, Change, Event, Go, Track
  <2>4. ASSUME NEW t \in Tabs, OpenTab(t) PROVE TypeOK'
      BY <2>4, <1>4 DEF TypeOK, OpenTab, Go, Track
  <2>5. ASSUME NEW s \in Sockets, PeerCloses(s) PROVE TypeOK'
      BY <2>5, <1>4 DEF TypeOK, PeerCloses, Track
  <2>6. ASSUME NEW r \in Reqs, ChangeState(r) PROVE TypeOK'
      BY <2>6, <1>4 DEF TypeOK, ChangeState, DueChange, Change, Event, Go, Track
  <2>10. ASSUME NEW r \in Reqs, ChangeHalf(r) PROVE TypeOK'
      BY <2>10, <1>4 DEF TypeOK, ChangeHalf, Change, Event, Track
  <2>7. ASSUME NEW r \in Reqs, NEW u \in Users, NEW b \in BOOLEAN, SetUserAccess(r, u, b)
        PROVE  TypeOK'
      BY <2>7, <1>4 DEF TypeOK, SetUserAccess, DueChange, Change, Event, Go, Track
  <2>8. ASSUME NEW u \in Users, SetUserRoles(u) PROVE TypeOK'
      BY <2>8, <1>4 DEF TypeOK, SetUserRoles, Event, Track
  <2>9. QED
      BY <1>4, <2>1, <2>2, <2>3, <2>4, <2>5, <2>6, <2>7, <2>8, <2>10 DEF Environment
<1>5. CASE UNCHANGED vars
    BY <1>5 DEF TypeOK, vars, baseVars
<1>6. QED
    BY <1>1, <1>2, <1>3, <1>4, <1>5 DEF Next, Step

-----------------------------------------------------------------------------
(* Nobody leaves lately while a goroutine is under way.                    *)

\* What AdminStateNeedsRole says of one goroutine, and all that is needed of it.
SafeSend(g) ==
    pc[g] = "send" /\ pay[g].admin /\ pay[g].fresh => UserOf[at[g]] \in lately
Sound(g) == SafeSend(g) /\ SendingInv(g) /\ (g \in Conns => GreetingInv(g))

\* A step that lets every holder of the role into lately and keeps those who
\* are there unless all becomes quiet.
Lasting ==
    /\ \A u \in Users : role'[u] => u \in lately'
    /\ ~Quiet' => lately \subseteq lately'

\* A step changes a copy only to a row that is fresh.
CopiesFresh == \A c \in Conns : copy'[c] = copy[c] \/ FreshCopy(c)'

\* A goroutine that the step is not of.
Untouched(h) ==
    /\ pc'[h] = pc[h] /\ at'[h] = at[h] /\ got'[h] = got[h] /\ pay'[h] = pay[h]
    /\ row'[h] = row[h] /\ next'[h] = next[h]

LEMMA TrackLasts ==
  TypeOK /\ Track => Lasting
    BY DEF TypeOK, Track, Lasting

\* A goroutine that does nothing stays sound, whatever the others do to the
\* copy it is going to use.
LEMMA UntouchedSound ==
  ASSUME TypeOK, TypeOK', Lasting, CopiesFresh, version' >= version,
         NEW h \in Routines, Untouched(h), Sound(h)
  PROVE  Sound(h)'
<1> USE BroadcastAssumption DEF Sockets, Routines
<1>1. ASSUME pc[h] \in {"register", "greet", "assign", "build", "send", "live", "tabs", "push"}
      PROVE  lately \subseteq lately'
  <2>1. ~Quiet'
      BY <1>1 DEF Quiet, Untouched
  <2>2. QED
      BY <2>1 DEF Lasting
<1>2. ASSUME NEW c \in Conns, FreshCopy(c), lately \subseteq lately'
      PROVE  FreshCopy(c)'
    BY <1>2 DEF CopiesFresh, FreshCopy
<1>3. SafeSend(h)'
    BY <1>1 DEF Sound, SafeSend, Untouched
<1>4. SendingInv(h)'
  <2>1. (pay[h].v <= version)'
      BY DEF Sound, SendingInv, Untouched, TypeOK, Payload
  <2>2. (pc[h] \in {"assign", "build", "send"} => at[h] \in Conns)'
      BY DEF Sound, SendingInv, Untouched
  <2>3. (pc[h] = "assign" /\ got[h] # None => (got[h] => UserOf[at[h]] \in lately))'
      BY <1>1 DEF Sound, SendingInv, Untouched
  <2>4. ASSUME pc[h] = "build", got[h] # None PROVE FreshCopy(at[h])'
    <3>1. at[h] \in Conns /\ FreshCopy(at[h]) /\ at'[h] = at[h]
        BY <2>4 DEF Sound, SendingInv, Untouched
    <3>2. QED
        BY <1>1, <2>4, <3>1 DEF CopiesFresh, FreshCopy
  <2>5. QED
      BY <2>1, <2>2, <2>3, <2>4 DEF SendingInv, Untouched
<1>5. ASSUME h \in Conns PROVE GreetingInv(h)'
  <2>1. GreetingInv(h)
      BY <1>5 DEF Sound
  <2>2. (pc[h] = "register" => (row[h] => UserOf[h] \in lately))'
      BY <1>1, <2>1 DEF GreetingInv, Untouched
  <2>3. (next[h] = "greet" => pc[h] \in {"live", "tabs", "push"})'
      BY <2>1 DEF GreetingInv, Untouched
  <2>4. ASSUME pc[h] = "greet" \/ next[h] = "greet" PROVE FreshCopy(h)'
    <3>1. pc[h] \in {"greet", "live", "tabs", "push"}
        BY <2>1, <2>4 DEF GreetingInv
    <3>2. QED
        BY <1>1, <1>2, <1>5, <2>1, <2>4, <3>1 DEF GreetingInv
  <2>5. QED
      BY <2>2, <2>3, <2>4 DEF GreetingInv, Untouched
<1>6. QED
    BY <1>3, <1>4, <1>5 DEF Sound

-----------------------------------------------------------------------------
(* The goroutine whose step it is.                                         *)

\* The tabs are served between register and the greeting: the copy stays fresh.
LEMMA TabsSound ==
  ASSUME TypeOK, Lasting, NEW g \in Routines, Sound(g),
         copy' = copy, pc[g] \in {"live", "tabs", "push"}, (pay[g].v <= version)',
         \/ pc'[g] \in {"tabs", "push"} /\ next'[g] = next[g]
         \/ pc'[g] = next[g] /\ next'[g] # "greet"
  PROVE  Sound(g)'
<1> USE BroadcastAssumption DEF Sockets, Routines
<1>1. next[g] \in {"greet", "serve", "idle", "broadcast", "gone"}
    BY DEF TypeOK
<1>2. SafeSend(g)' /\ SendingInv(g)'
    BY <1>1 DEF SafeSend, SendingInv
<1>3. ASSUME g \in Conns PROVE GreetingInv(g)'
  <2>1. (pc[g] # "register")' /\ (next[g] = "greet" => pc[g] \in {"live", "tabs", "push"})'
      BY <1>1
  <2>2. ASSUME pc'[g] = "greet" \/ next'[g] = "greet" PROVE FreshCopy(g)'
    <3>1. next[g] = "greet" /\ pc'[g] \in {"greet", "tabs", "push"}
        BY <1>1, <2>2
    <3>2. ~Quiet'
        BY <3>1 DEF Quiet
    <3>3. FreshCopy(g)
        BY <1>3, <3>1 DEF Sound, GreetingInv
    <3>4. QED
        BY <3>2, <3>3 DEF Lasting, FreshCopy
  <2>3. QED
      BY <2>1, <2>2 DEF GreetingInv
<1>4. QED
    BY <1>2, <1>3 DEF Sound

\* The step of a goroutine, and of nobody else.
OnlyStep(g) ==
    /\ \A h \in Routines \ {g} : Untouched(h)
    /\ CopiesFresh /\ version' >= version

\* After a refresh the goroutine stands before cl.user = u with a fresh row.
LEMMA ReadSound ==
  ASSUME TypeOK, Lasting, NEW g \in Routines, NEW c \in Conns, Sound(g),
         UserByID(g, c), role' = role, version' = version, pay' = pay, next' = next,
         g \in Conns => next[g] # "greet", at'[g] = c, pc'[g] = "assign"
  PROVE  Sound(g)'
<1> USE BroadcastAssumption DEF Sockets, Routines
<1>1. (pay[g].v <= version)'
    BY DEF Sound, SendingInv
<1>2. got'[g] = role[UserOf[c]] \/ got'[g] = None
    BY DEF TypeOK, UserByID
<1>3. UserOf[c] \in Users /\ (role[UserOf[c]] => UserOf[c] \in lately')
    BY DEF Lasting
<1>4. (pc[g] = "assign" /\ got[g] # None => (got[g] => UserOf[at[g]] \in lately))'
    BY <1>2, <1>3
<1>5. QED
    BY <1>1, <1>4 DEF Sound, SafeSend, SendingInv, GreetingInv

\* A step of broadcastFullState for one client.
LEMMA ClientSound ==
  ASSUME TypeOK, Lasting, NEW g \in Routines, Sound(g),
         \/ broadcastFullState(g) \/ AssignUser(g) \/ BuildFullState(g) \/ SendFullState(g)
         \/ \E c \in Conns : RefreshUser(g, c)
  PROVE  Sound(g)' /\ OnlyStep(g)
<1> USE BroadcastAssumption DEF dues, userVars, hubVars, screenVars, pushVars, localVars,
        Sockets, Routines
<1>1. (pay[g].v <= version) /\ version \in Nat
    BY DEF Sound, SendingInv, TypeOK
<1>2. pc[g] \in {"broadcast", "clients", "assign", "build", "send"}
    BY DEF broadcastFullState, AssignUser, BuildFullState, SendFullState, RefreshUser
<1>3. g \in Conns => next[g] # "greet"
    BY <1>2 DEF Sound, GreetingInv
<1>4. CASE broadcastFullState(g)
  <2>1. pc'[g] \in {"live", "clients"} /\ UNCHANGED <<copy, at, got, pay, row, next, version>>
      BY <1>4 DEF TypeOK, broadcastFullState, Go
  <2>2. Sound(g)'
      BY <1>1, <1>3, <2>1 DEF Sound, SafeSend, SendingInv, GreetingInv
  <2>3. OnlyStep(g)
      BY <1>1, <1>4 DEF TypeOK, broadcastFullState, Go, OnlyStep, Untouched, CopiesFresh
  <2>4. QED
      BY <2>2, <2>3
<1>5. CASE AssignUser(g)
  <2>1. pc'[g] = "build" /\ UNCHANGED <<at, got, pay, row, next, version>>
      BY <1>5 DEF TypeOK, AssignUser, Go
  <2>2. at[g] \in Conns /\ ~Quiet'
      BY <1>5, <2>1 DEF Sound, SendingInv, AssignUser, Quiet
  <2>3. \A c \in Conns : c # at[g] => copy'[c] = copy[c]
      BY <1>5 DEF TypeOK, AssignUser
  <2>4. CASE got[g] = None
    <3>1. copy'[at[g]] = copy[at[g]]
        BY <1>5, <2>2, <2>4 DEF TypeOK, AssignUser, Refreshed
    <3>2. CopiesFresh
        BY <2>3, <3>1 DEF CopiesFresh
    <3>3. QED
        BY <1>1, <1>3, <1>5, <2>1, <2>2, <2>4, <3>2 DEF TypeOK, AssignUser, Go, OnlyStep, Untouched,
           Sound, SafeSend, SendingInv, GreetingInv
  <2>5. CASE got[g] # None
    <3>1. copy'[at[g]] = got[g]
        BY <1>5, <2>2, <2>5 DEF TypeOK, AssignUser, Refreshed
    <3>2. got[g] => UserOf[at[g]] \in lately
        BY <1>5, <2>5 DEF Sound, SendingInv, AssignUser
    <3>3. copy'[at[g]] => UserOf[at[g]] \in lately'
        BY <2>2, <3>1, <3>2 DEF Lasting
    <3>4. CopiesFresh
        BY <2>3, <3>3 DEF CopiesFresh, FreshCopy
    <3>5. FreshCopy(at[g])'
        BY <2>1, <3>3 DEF FreshCopy
    <3>6. SendingInv(g)'
        BY <1>1, <2>1, <2>2, <3>5 DEF SendingInv
    <3>7. QED
        BY <1>1, <1>3, <1>5, <2>1, <3>4, <3>6 DEF TypeOK, AssignUser, Go, OnlyStep, Untouched,
           Sound, SafeSend, GreetingInv
  <2>6. QED
      BY <2>4, <2>5
<1>6. ASSUME Served(g), UNCHANGED <<copy, version, row, next>>
      PROVE  Sound(g)' /\ OnlyStep(g)
  <2>1. pc'[g] \in {"serve", "live", "clients"} /\ pay'[g].v = 0
      BY <1>6 DEF TypeOK, Served, Go, NoPay
  <2>2. Sound(g)'
      BY <1>1, <1>3, <1>6, <2>1 DEF Sound, SafeSend, SendingInv, GreetingInv
  <2>3. OnlyStep(g)
      BY <1>1, <1>6 DEF TypeOK, Served, Go, OnlyStep, Untouched, CopiesFresh
  <2>4. QED
      BY <2>2, <2>3
<1>7. CASE BuildFullState(g)
  <2>0. PICK whole \in BOOLEAN, admin \in {copy[at[g]], FALSE} :
            pay' = [pay EXCEPT ![g] = [v |-> version, admin |-> admin,
                                       fresh |-> got[g] # None, whole |-> whole]]
      BY <1>7 DEF BuildFullState
  <2> DEFINE built == [v |-> version, admin |-> admin, fresh |-> got[g] # None, whole |-> whole]
  <2>1. ASSUME pay' = [pay EXCEPT ![g] = built], Go(g, "send"),
               UNCHANGED <<at, got, copy, version, row, next>>
        PROVE  Sound(g)' /\ OnlyStep(g)
    <3>1. pay'[g] = built /\ pc'[g] = "send" /\ at'[g] = at[g] /\ ~Quiet'
        BY <2>1 DEF TypeOK, Go, Quiet
    <3>2. /\ at[g] \in Conns
          /\ got[g] # None => (copy[at[g]] => UserOf[at[g]] \in lately)
        BY <1>7 DEF BuildFullState, Sound, SendingInv, FreshCopy
    <3>3. SafeSend(g)'
      <4>0. admin => copy[at[g]]
          BY Zenon
      <4>1. pay'[g].admin = admin /\ pay'[g].fresh = (got[g] # None)
          BY <3>1
      <4>2. pay'[g].admin /\ pay'[g].fresh => UserOf[at[g]] \in lately
          BY <3>2, <4>0, <4>1, Zenon
      <4>3. lately \subseteq lately'
          BY <3>1 DEF Lasting
      <4>4. QED
          BY <3>1, <4>2, <4>3 DEF SafeSend
    <3>4. pay'[g].v = version
        BY <3>1
    <3> HIDE DEF built
    <3>5. SendingInv(g)' /\ (g \in Conns => GreetingInv(g)')
        BY <1>1, <1>3, <2>1, <3>1, <3>2, <3>4 DEF SendingInv, GreetingInv
    <3>6. OnlyStep(g)
        BY <1>1, <2>1 DEF TypeOK, Go, OnlyStep, Untouched, CopiesFresh
    <3>7. QED
        BY <3>3, <3>5, <3>6 DEF Sound
  <2>2. QED
      BY <1>7, <2>0, <2>1 DEF BuildFullState
<1>8. CASE SendFullState(g)
    BY <1>6, <1>8 DEF SendFullState
<1>9. ASSUME NEW c \in Conns, RefreshUser(g, c) PROVE Sound(g)' /\ OnlyStep(g)
  <2>1. OnlyStep(g)
      BY <1>1, <1>9 DEF TypeOK, RefreshUser, UserByID, Go, OnlyStep, Untouched, CopiesFresh
  <2>2. QED
      BY <1>3, <1>9, <2>1, ReadSound DEF TypeOK, RefreshUser, Go
<1>10. QED
    BY <1>4, <1>5, <1>7, <1>8, <1>9

\* A step of broadcastLiveState, or of the end of a user's sessions.
LEMMA ListenerSound ==
  ASSUME TypeOK, Lasting, NEW g \in Routines, Sound(g),
         \/ broadcastLiveState(g) \/ disconnectUser(g)
         \/ \E c \in Conns : CloseSession(g, c)
         \/ \E t \in Tabs : BuildState(g, t) \/ PushState(g, t)
  PROVE  Sound(g)' /\ OnlyStep(g)
<1> USE BroadcastAssumption DEF dues, userVars, hubVars, screenVars, pushVars, localVars,
        Sockets, Routines
<1>1. (pay[g].v <= version) /\ version \in Nat
    BY DEF Sound, SendingInv, TypeOK
<1>2. ASSUME NEW rest, AfterTabs(g, rest)
      PROVE  /\ \/ pc'[g] \in {"tabs", "push"} /\ next'[g] = next[g]
                \/ pc'[g] = next[g] /\ next'[g] # "greet"
             /\ \A h \in Routines \ {g} : pc'[h] = pc[h] /\ next'[h] = next[h]
    BY <1>2 DEF TypeOK, AfterTabs, Go, Home
<1>3. CASE broadcastLiveState(g)
  <2>1. Sound(g)'
      BY <1>1, <1>2, <1>3, TabsSound DEF broadcastLiveState
  <2>2. OnlyStep(g)
      BY <1>1, <1>2, <1>3 DEF broadcastLiveState, OnlyStep, Untouched, CopiesFresh
  <2>3. QED
      BY <2>1, <2>2
<1>4. CASE disconnectUser(g)
  <2>1. /\ pc'[g] \in {"broadcast", "close"} /\ pc[g] = "kick"
        /\ UNCHANGED <<copy, pay, row, next, version>>
      BY <1>4 DEF TypeOK, disconnectUser, Go
  <2>2. Sound(g)'
      BY <1>1, <2>1 DEF Sound, SafeSend, SendingInv, GreetingInv
  <2>3. OnlyStep(g)
      BY <1>1, <1>4 DEF TypeOK, disconnectUser, Go, OnlyStep, Untouched, CopiesFresh
  <2>4. QED
      BY <2>2, <2>3
<1>5. ASSUME NEW c \in Conns, CloseSession(g, c) PROVE Sound(g)' /\ OnlyStep(g)
  <2>1. /\ pc'[g] \in {"live", "close"} /\ pc[g] = "close"
        /\ next'[g] \in {"broadcast", next[g]}
        /\ UNCHANGED <<copy, pay, row, version>>
      BY <1>5 DEF TypeOK, CloseSession, Go
  <2>2. Sound(g)'
      BY <1>1, <2>1 DEF Sound, SafeSend, SendingInv, GreetingInv
  <2>3. OnlyStep(g)
      BY <1>1, <1>5 DEF TypeOK, CloseSession, Go, OnlyStep, Untouched, CopiesFresh
  <2>4. QED
      BY <2>2, <2>3
<1>6. ASSUME NEW t \in Tabs, BuildState(g, t) PROVE Sound(g)' /\ OnlyStep(g)
  <2> DEFINE built(w) == [v |-> version, admin |-> row[t], fresh |-> TRUE, whole |-> w]
  <2>1. \A w \in BOOLEAN : built(w).v = version
      OBVIOUS
  <2> HIDE DEF built
  <2>2. PICK rest :
              \/ /\ \E w \in BOOLEAN : pay' = [pay EXCEPT ![g] = built(w)]
                 /\ Go(g, "push")
                 /\ at' = [at EXCEPT ![g] = UserOf[t]] /\ next' = next
              \/ AfterTabs(g, rest) /\ UNCHANGED <<at, pay>>
      BY <1>6 DEF BuildState, built
  <2>3. pc[g] = "tabs" /\ UNCHANGED <<version, copy, row, got>>
      BY <1>6 DEF BuildState
  <2>4. (pay[g].v <= version)'
      BY <1>1, <2>1, <2>2, <2>3 DEF TypeOK
  <2>5. \/ pc'[g] \in {"tabs", "push"} /\ next'[g] = next[g]
        \/ pc'[g] = next[g] /\ next'[g] # "greet"
      BY <1>2, <2>2 DEF TypeOK, Go
  <2>6. Sound(g)'
      BY <2>3, <2>4, <2>5, TabsSound
  <2>7. OnlyStep(g)
      BY <1>1, <1>2, <2>2, <2>3 DEF TypeOK, Go, OnlyStep, Untouched, CopiesFresh
  <2>8. QED
      BY <2>6, <2>7
<1>7. ASSUME NEW t \in Tabs, PushState(g, t) PROVE Sound(g)' /\ OnlyStep(g)
  <2>1. PICK rest :
              \/ UNCHANGED <<pc, next, at, pay>>
              \/ /\ AfterTabs(g, rest) /\ at' = [at EXCEPT ![g] = None]
                 /\ pay' = [pay EXCEPT ![g] = NoPay]
      BY <1>7 DEF PushState
  <2>2. pc[g] = "push" /\ UNCHANGED <<version, copy, row, got>>
      BY <1>7 DEF PushState
  <2>3. (pay[g].v <= version)'
      BY <1>1, <2>1, <2>2 DEF TypeOK, NoPay
  <2>4. \/ pc'[g] \in {"tabs", "push"} /\ next'[g] = next[g]
        \/ pc'[g] = next[g] /\ next'[g] # "greet"
      BY <1>2, <2>1, <2>2
  <2>5. Sound(g)'
      BY <2>2, <2>3, <2>4, TabsSound
  <2>6. OnlyStep(g)
      BY <1>1, <1>2, <2>1, <2>2 DEF TypeOK, OnlyStep, Untouched, CopiesFresh
  <2>7. QED
      BY <2>5, <2>6
<1>8. QED
    BY <1>3, <1>4, <1>5, <1>6, <1>7

\* What a desktop connection does by itself, or because of its peer.
LEMMA ConnectionSound ==
  ASSUME TypeOK, Lasting, NEW c \in Conns, Sound(c),
         HubStep(c) \/ Auth(c) \/ GetState(c) \/ Heartbeat(c)
  PROVE  Sound(c)' /\ OnlyStep(c)
<1> USE BroadcastAssumption DEF dues, userVars, hubVars, screenVars, pushVars, localVars,
        Sockets, Routines
<1>1. /\ pay[c].v <= version /\ pay[c].v \in Nat /\ version \in Nat
      /\ UserOf[c] \in Users /\ GreetingInv(c)
    BY DEF Sound, SendingInv, TypeOK, Payload
<1>2. CASE register(c)
  <2>1. /\ pc'[c] = "live" /\ pc[c] = "register" /\ next'[c] = "greet"
        /\ copy'[c] = row[c] /\ UNCHANGED <<pay, row, version, at, got>>
      BY <1>2 DEF TypeOK, register, Go
  <2>2. ~Quiet'
      BY <2>1 DEF Quiet
  <2>3. row[c] => UserOf[c] \in lately
      BY <1>1, <2>1 DEF GreetingInv
  <2>4. FreshCopy(c)'
      BY <2>1, <2>2, <2>3 DEF Lasting, FreshCopy
  <2>5. \A d \in Conns : d # c => copy'[d] = copy[d]
      BY <1>2 DEF TypeOK, register
  <2>6. OnlyStep(c)
      BY <1>1, <1>2, <2>4, <2>5 DEF TypeOK, register, Go, OnlyStep, Untouched, CopiesFresh
  <2>7. Sound(c)'
      BY <1>1, <2>1, <2>4 DEF Sound, SafeSend, SendingInv, GreetingInv
  <2>8. QED
      BY <2>6, <2>7
<1>3. CASE Greet(c)
  <2>1. /\ pc'[c] = "build" /\ pc[c] = "greet" /\ at'[c] = c
        /\ UNCHANGED <<pay, row, version, next, copy>>
      BY <1>3 DEF TypeOK, Greet, Go
  <2>2. ~Quiet'
      BY <2>1 DEF Quiet
  <2>3. FreshCopy(c)'
      BY <1>1, <2>1, <2>2 DEF GreetingInv, FreshCopy, Lasting
  <2>4. SendingInv(c)'
      BY <1>1, <2>1, <2>3 DEF SendingInv
  <2>5. Sound(c)'
      BY <1>1, <2>1, <2>4 DEF Sound, SafeSend, GreetingInv
  <2>6. OnlyStep(c)
      BY <1>1, <1>3 DEF TypeOK, Greet, Go, OnlyStep, Untouched, CopiesFresh
  <2>7. QED
      BY <2>5, <2>6
<1>4. CASE unregister(c)
  <2>1. /\ pc'[c] \in {"live", "gone"} /\ pc[c] = "serve" /\ next'[c] \in {"gone", next[c]}
        /\ UNCHANGED <<pay, version, copy>>
      BY <1>4 DEF TypeOK, unregister, Go
  <2>2. Sound(c)'
      BY <1>1, <2>1 DEF Sound, SafeSend, SendingInv, GreetingInv
  <2>3. OnlyStep(c)
      BY <1>1, <1>4 DEF TypeOK, unregister, Go, OnlyStep, Untouched, CopiesFresh
  <2>4. QED
      BY <2>2, <2>3
<1>5. CASE Auth(c)
  <2>1. /\ pc'[c] = "register" /\ pc[c] = "new" /\ row'[c] = role[UserOf[c]]
        /\ UNCHANGED <<pay, version, copy, next, role>>
      BY <1>5 DEF TypeOK, Auth, Go
  <2>2. role'[UserOf[c]] => UserOf[c] \in lately'
      BY <1>1 DEF Lasting
  <2>3. row'[c] => UserOf[c] \in lately'
      BY <2>1, <2>2
  <2>4. Sound(c)'
      BY <1>1, <2>1, <2>3 DEF Sound, SafeSend, SendingInv, GreetingInv
  <2>5. OnlyStep(c)
      BY <1>1, <1>5 DEF TypeOK, Auth, Go, OnlyStep, Untouched, CopiesFresh
  <2>6. QED
      BY <2>4, <2>5
<1>6. CASE GetState(c)
  <2>1. pc[c] = "serve" /\ next[c] # "greet"
      BY <1>1, <1>6 DEF GetState, GreetingInv
  <2>2. Sound(c)'
      BY <1>6, <2>1, ReadSound DEF TypeOK, GetState, Go
  <2>3. OnlyStep(c)
      BY <1>1, <1>6 DEF TypeOK, GetState, UserByID, Go, OnlyStep, Untouched, CopiesFresh
  <2>4. QED
      BY <2>2, <2>3
<1>7. CASE Heartbeat(c)
  <2>1. /\ pc'[c] = "live" /\ pc[c] = "serve" /\ version' = version + 1
        /\ UNCHANGED <<pay, copy, next>>
      BY <1>7 DEF TypeOK, Heartbeat, Change, Go
  <2>2. Sound(c)'
      BY <1>1, <2>1 DEF Sound, SafeSend, SendingInv, GreetingInv
  <2>3. OnlyStep(c)
      BY <1>1, <1>7, <2>1 DEF TypeOK, Heartbeat, Go, OnlyStep, Untouched, CopiesFresh
  <2>4. QED
      BY <2>2, <2>3
<1>8. QED
    BY <1>2, <1>3, <1>4, <1>5, <1>6, <1>7 DEF HubStep

\* A tab or a request that starts or ends holds no row for a client.
LEMMA WebSound ==
  ASSUME TypeOK, Lasting, NEW g \in Routines, g \notin Conns, Sound(g),
         \/ TabStep(g) \/ OpenTab(g) \/ ChangeState(g) \/ ChangeHalf(g)
         \/ \E u \in Users, b \in BOOLEAN : SetUserAccess(g, u, b)
  PROVE  Sound(g)' /\ OnlyStep(g)
<1> USE BroadcastAssumption DEF dues, userVars, hubVars, screenVars, pushVars, localVars
<1>1. pay[g].v <= version /\ pay[g].v \in Nat /\ version \in Nat
    BY DEF Sound, SendingInv, TypeOK, Payload
<1>2. /\ pc'[g] \in {"tabs", "gone", "accept", "broadcast", "kick", "idle"}
      /\ pay' = pay /\ version' \in {version, version + 1}
    BY DEF TypeOK, TabStep, AcceptTab, TabLeaves, OpenTab, ChangeState, ChangeHalf, SetUserAccess,
       DueChange, Change, Go
<1>3. Sound(g)'
    BY <1>1, <1>2 DEF Sound, SafeSend, SendingInv
<1>4. OnlyStep(g)
    BY <1>1, <1>2 DEF TypeOK, TabStep, AcceptTab, TabLeaves, OpenTab, ChangeState,
       ChangeHalf, SetUserAccess, Go, OnlyStep, Untouched, CopiesFresh
<1>5. QED
    BY <1>3, <1>4

-----------------------------------------------------------------------------
(* The invariant.                                                          *)

LEMMA Soundness ==
  BroadcastIInv <=> TypeOK /\ \A g \in Routines : Sound(g)
    BY DEF BroadcastIInv, AdminStateNeedsRole, Sound, SafeSend, Routines, Sockets

\* A step is that of one goroutine, or of a peer or of Discord and touches none.
LEMMA SoundStep ==
  ASSUME TypeOK, TypeOK', \A g \in Routines : Sound(g), Next
  PROVE  \A g \in Routines : Sound(g)'
<1> USE BroadcastAssumption
<1>1. Lasting
    BY TrackLasts DEF Next
<1>2. ASSUME NEW g \in Routines, Sound(g)' /\ OnlyStep(g)
      PROVE  \A h \in Routines : Sound(h)'
    BY <1>1, <1>2, UntouchedSound DEF OnlyStep
<1>3. Conns \subseteq Routines /\ Tabs \subseteq Routines \ Conns /\ Reqs \subseteq Routines \ Conns
    BY DEF Routines, Sockets
<1>4. ASSUME NEW g \in Routines, Step(g) PROVE \A h \in Routines : Sound(h)'
    BY <1>1, <1>2, <1>3, <1>4, ClientSound, ListenerSound, ConnectionSound, WebSound
       DEF Step, Push
<1>5. ASSUME Environment PROVE \A h \in Routines : Sound(h)'
  <2>1. ASSUME NEW c \in Conns, Auth(c) \/ GetState(c) \/ Heartbeat(c)
        PROVE  \A h \in Routines : Sound(h)'
      BY <1>1, <1>2, <1>3, <2>1, ConnectionSound
  <2>2. ASSUME NEW t \in Tabs, OpenTab(t) PROVE \A h \in Routines : Sound(h)'
      BY <1>1, <1>2, <1>3, <2>2, WebSound
  <2>3. ASSUME NEW r \in Reqs,
               ChangeState(r) \/ ChangeHalf(r) \/ \E u \in Users, b \in BOOLEAN : SetUserAccess(r, u, b)
        PROVE  \A h \in Routines : Sound(h)'
      BY <1>1, <1>2, <1>3, <2>3, WebSound
  <2>4. ASSUME UNCHANGED <<version, copy, pc, localVars>>
        PROVE  \A h \in Routines : Sound(h)'
    <3>1. CopiesFresh /\ version' >= version
        BY <2>4 DEF CopiesFresh, TypeOK
    <3>2. \A h \in Routines : Untouched(h)
        BY <2>4 DEF Untouched, localVars, pushVars
    <3>3. QED
        BY <1>1, <3>1, <3>2, UntouchedSound
  <2>5. ASSUME NEW s \in Sockets, PeerCloses(s) PROVE \A h \in Routines : Sound(h)'
      BY <2>4, <2>5 DEF PeerCloses, hubVars
  <2>6. ASSUME NEW u \in Users, SetUserRoles(u) PROVE \A h \in Routines : Sound(h)'
      BY <2>4, <2>6 DEF SetUserRoles, hubVars
  <2>7. QED
      BY <1>5, <2>1, <2>2, <2>3, <2>5, <2>6 DEF Environment
<1>6. QED
    BY <1>4, <1>5 DEF Next

LEMMA BroadcastInit ==
  Init => BroadcastIInv
<1> SUFFICES ASSUME Init PROVE BroadcastIInv
    OBVIOUS
<1> USE BroadcastAssumption DEF Init
<1>1. NoPay \in Payload /\ NoPay.v = 0
    BY DEF NoPay, Payload
<1>2. TypeOK
    BY <1>1 DEF TypeOK, Home, Routines, Sockets
<1>3. ASSUME NEW g \in Routines PROVE Sound(g)
    BY <1>1 DEF Sound, SafeSend, SendingInv, GreetingInv, Home, Routines, Sockets
<1>4. QED
    BY <1>2, <1>3, Soundness

\* BroadcastIInv is inductive.
LEMMA BroadcastInductive ==
  Spec => []BroadcastIInv
<1>1. BroadcastIInv /\ [Next]_vars => BroadcastIInv'
  <2> SUFFICES ASSUME BroadcastIInv, [Next]_vars PROVE BroadcastIInv'
      OBVIOUS
  <2>1. TypeOK /\ TypeOK' /\ \A g \in Routines : Sound(g)
      BY TypeStep, Soundness DEF BroadcastIInv
  <2>2. CASE Next
    <3>1. \A g \in Routines : Sound(g)'
        BY <2>1, <2>2, SoundStep
    <3>2. QED
        BY <2>1, <3>1 DEF BroadcastIInv, AdminStateNeedsRole, Sound, SafeSend, Routines, Sockets
  <2>3. CASE UNCHANGED vars
      BY <2>3 DEF BroadcastIInv, TypeOK, AdminStateNeedsRole, SendingInv, GreetingInv,
         FreshCopy, vars, baseVars, dues, userVars, hubVars, screenVars, pushVars, localVars
  <2>4. QED
      BY <2>2, <2>3
<1>2. QED
    BY <1>1, BroadcastInit, PTL DEF Spec

\* Hub.clients, Server.live and the goroutines keep their types; no socket has
\* seen or missed a version that does not exist.
THEOREM TypeCorrect == Spec => []TypeOK
<1>1. BroadcastIInv => TypeOK
    BY DEF BroadcastIInv
<1>2. QED
    BY <1>1, BroadcastInductive, PTL

\* However pushes overlap, sendFullState gives the admin object only to a
\* client whose user held the role since the hub was last quiet, unless the
\* refresh of the row failed.
THEOREM AdminStateFresh == Spec => []AdminStateNeedsRole
<1>1. BroadcastIInv => AdminStateNeedsRole
    BY DEF BroadcastIInv
<1>2. QED
    BY <1>1, BroadcastInductive, PTL
=============================================================================
