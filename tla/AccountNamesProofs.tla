------------------------- MODULE AccountNamesProofs -------------------------
(***************************************************************************)
(* Proofs about AccountNames, for every set of names, rows and requests    *)
(* and any number of accounts and failures. The indexes and the foreign    *)
(* key make the two facts inductive: whatever a request found when it      *)
(* asked, they are asked again by the insert.                              *)
(***************************************************************************)
EXTENDS AccountNames, TLAPS

\* The requests of TypeOK.
Job == [mode : {"one", "csv", "share", "restore", "backup"}, row : Rows \cup {NoRow},
        acct : 0..lastId, kind : Kinds, old : SUBSET Names, todo : SUBSET Names,
        errs : BOOLEAN]

\* A row asks for names only.
LEMMA WantedType ==
  ASSUME NEW k \in Kinds, NEW row \in Rows \cup {NoRow}
  PROVE  Wanted(k, row) \in SUBSET Names
<1>1. row[k] \in SUBSET Names
  <2>1. CASE row \in Rows
      BY <2>1, NamesAssumption DEF Row, Kinds
  <2>2. CASE row = NoRow
      BY <2>2 DEF NoRow, Kinds
  <2>3. QED
      BY <2>1, <2>2
<1>2. QED
    BY <1>1 DEF Wanted, Theirs

\* A request that begins has the type of one.
LEMMA NewJobType ==
  ASSUME TypeOK, NEW mode \in {"csv", "share", "restore", "backup"}, NEW row \in Rows,
         NEW a \in 0..lastId
  PROVE  ForAccount(mode, row, a) \in Job
<1>1. Wanted("alias", row) \in SUBSET Names
    BY WantedType DEF Kinds
<1>2. QED
    BY <1>1 DEF ForAccount, NoJob, Job, Kinds

LEMMA NoJobType ==
  ASSUME TypeOK
  PROVE  NoJob \in Job
BY DEF TypeOK, NoJob, Job, Kinds

\* What becomes of a request when a name could not be added.
LEMMA AfterErrorType ==
  ASSUME NEW j \in Job, NEW n
  PROVE  AfterError(j, n) \in Job /\ [AfterError(j, n) EXCEPT !.old = {}] \in Job
BY DEF AfterError, Job

\* A request changes and the tables do not.
LEMMA JobStep ==
  ASSUME TypeOK, UNCHANGED dbVars, NEW q \in Reqs, NEW j \in Job,
         NEW l \in {"idle", "create", "load", "remove", "add", "insert", "done"},
         Set(q, j), Goto(q, l), dirty' \in SUBSET Reqs, failed' \in SUBSET Reqs,
         faults' \in 0..MaxFaults
  PROVE  TypeOK'
BY DEF TypeOK, dbVars, Set, Goto, Job

LEMMA FaultType ==
  ASSUME TypeOK, NEW q \in Reqs, Fault(q) \/ UNCHANGED <<failed, faults>>
  PROVE  failed' \in SUBSET Reqs /\ faults' \in 0..MaxFaults
BY NamesAssumption DEF TypeOK, Fault

\* A name goes into or out of a table.
LEMMA TableStep ==
  ASSUME TypeOK, UNCHANGED <<lastId, user>>, table' \in [Kinds -> SUBSET (Names \X Ids)],
         NEW q \in Reqs, NEW j \in Job,
         NEW l \in {"idle", "create", "load", "remove", "add", "insert", "done"},
         Set(q, j), Goto(q, l), dirty' \in SUBSET Reqs, failed' \in SUBSET Reqs,
         faults' \in 0..MaxFaults
  PROVE  TypeOK'
BY DEF TypeOK, Set, Goto, Job

\* A new account: the ids that requests hold stay ids of accounts.
LEMMA InsertType ==
  ASSUME TypeOK, NEW n \in Names \cup {NoName}, InsertAccount(n)
  PROVE  /\ lastId' \in 0..MaxIds /\ lastId' = lastId + 1
         /\ user' \in [Ids -> Names \cup {NoName}]
         /\ \A a \in Ids : a > lastId' => user'[a] = NoName
         /\ table' = table
BY NamesAssumption DEF TypeOK, InsertAccount, Ids

\* Beginning a request.
LEMMA BeginType ==
  ASSUME TypeOK, NEW q \in Reqs, NEW j \in Job, NEW l \in {"create", "load", "add"},
         Begin(q, j, l)
  PROVE  TypeOK'
<1>1. /\ UNCHANGED dbVars /\ Set(q, j) /\ Goto(q, l)
      /\ dirty' \in SUBSET Reqs /\ failed' \in SUBSET Reqs /\ faults' \in 0..MaxFaults
    BY DEF Begin, TypeOK
<1>2. QED
    BY <1>1, JobStep

LEMMA ImportType ==
  ASSUME TypeOK, NEW q \in Reqs, NEW row \in Rows,
         NEW mode \in {"csv", "share", "restore", "backup"}, ImportRow(q, row, mode)
  PROVE  TypeOK'
<1>1. ASSUME NEW a \in live, Begin(q, ForAccount(mode, row, a), FirstStep(mode))
      PROVE  TypeOK'
  <2>1. a \in 0..lastId
      BY NamesAssumption DEF live, TypeOK, Ids
  <2>2. QED
      BY <1>1, <2>1, NewJobType, BeginType DEF FirstStep
<1>2. CASE Begin(q, ForAccount(mode, row, 0), "create")
  <2>1. 0 \in 0..lastId
      BY DEF TypeOK
  <2>2. QED
      BY <1>2, <2>1, NewJobType, BeginType
<1>3. QED
    BY <1>1, <1>2 DEF ImportRow

\* Every step of a request keeps the types.
LEMMA RequestType ==
  ASSUME TypeOK, NEW q \in Reqs, NEW n,
         CreateAccount(q) \/ LoadNames(q) \/ ListDone(q) \/ Return(q)
           \/ (n \in Names /\ (RemoveOld(q, n) \/ CheckName(q, n) \/ InsertName(q, n)))
  PROVE  TypeOK'
<1> DEFINE j == job[q]
<1>0. /\ j \in Job /\ j.acct \in 0..lastId /\ j.kind \in Kinds /\ j.row \in Rows \cup {NoRow}
      /\ dirty \in SUBSET Reqs /\ failed \in SUBSET Reqs /\ faults \in 0..MaxFaults
    BY DEF TypeOK, Job
<1>a. ASSUME NEW a, NEW r, Changed(a, r) PROVE dirty' \in SUBSET Reqs
    BY <1>a DEF TypeOK, Changed
<1>1. CASE CreateAccount(q)
  <2>1. CASE /\ InsertAccount(j.row.user)
             /\ Set(q, [j EXCEPT !.acct = lastId'])
             /\ Goto(q, FirstStep(j.mode))
             /\ UNCHANGED historyVars
    <3>1. j.row.user \in Names \cup {NoName}
        BY <1>0, NamesAssumption DEF Row, NoRow
    <3>2. /\ lastId' \in 0..MaxIds /\ lastId' = lastId + 1
          /\ user' \in [Ids -> Names \cup {NoName}]
          /\ \A a \in Ids : a > lastId' => user'[a] = NoName
          /\ table' = table
        BY <2>1, <3>1, InsertType
    <3>3. \A r \in Reqs : job[r].acct \in 0..lastId'
        BY <3>2 DEF TypeOK
    <3>4. job' \in [Reqs -> [mode : {"one", "csv", "share", "restore", "backup"},
                         row : Rows \cup {NoRow}, acct : 0..lastId', kind : Kinds,
                         old : SUBSET Names, todo : SUBSET Names, errs : BOOLEAN]]
        BY <2>1, <3>2, <3>3 DEF Set, TypeOK
    <3>5. QED
        BY <2>1, <3>2, <3>4 DEF TypeOK, Goto, FirstStep, historyVars
  <2>2. CASE RowFails(q) /\ UNCHANGED <<dbVars, dirty>>
               /\ (Fault(q) \/ UNCHANGED <<failed, faults>>)
    <3>1. [j EXCEPT !.errs = TRUE, !.todo = {}] \in Job
        BY <1>0 DEF Job
    <3>2. QED
        BY <1>0, <2>2, <3>1, FaultType, JobStep DEF RowFails
  <2>3. QED
      BY <1>1, <2>1, <2>2 DEF CreateAccount
<1>2. CASE LoadNames(q)
  <2>1. [j EXCEPT !.old = OldNames(q)] \in Job /\ [job EXCEPT ![q] = j] = job
      BY <1>0 DEF Job, OldNames, Theirs, NamesOf, TypeOK
  <2>2. \/ Set(q, [j EXCEPT !.old = OldNames(q)])
        \/ Set(q, j)
      BY <1>2, <2>1 DEF LoadNames, Set
  <2>3. Goto(q, "add") \/ Goto(q, "remove")
      BY <1>2 DEF LoadNames
  <2>4. failed' \in SUBSET Reqs /\ faults' \in 0..MaxFaults
      BY <1>2, FaultType DEF LoadNames
  <2>5. QED
      BY <1>0, <1>2, <2>1, <2>2, <2>3, <2>4, JobStep DEF LoadNames
<1>3. CASE ListDone(q)
  <2>1. ASSUME NEW k \in Kinds
        PROVE  [j EXCEPT !.kind = k, !.todo = Wanted(k, j.row)] \in Job
    <3>1. Wanted(k, j.row) \in SUBSET Names
        BY <1>0, WantedType
    <3>2. QED
        BY <1>0, <3>1 DEF Job
  <2>2. /\ UNCHANGED dbVars /\ dirty' = dirty /\ failed' = failed /\ faults' = faults
      BY <1>3 DEF ListDone, historyVars
  <2>3. CASE Goto(q, "done") /\ UNCHANGED job
      BY <1>0, <2>2, <2>3 DEF TypeOK, Goto, dbVars
  <2>4. CASE /\ Set(q, [[j EXCEPT !.kind = "alias", !.todo = Wanted("alias", j.row)]
                        EXCEPT !.mode = "backup"])
             /\ Goto(q, "load")
    <3>1. [[j EXCEPT !.kind = "alias", !.todo = Wanted("alias", j.row)]
                        EXCEPT !.mode = "backup"] \in Job
        BY <1>0, <2>1 DEF Job, Kinds
    <3>2. QED
        BY <1>0, <2>2, <2>4, <3>1, JobStep
  <2>5. CASE /\ Set(q, [j EXCEPT !.kind = NextKind(j.kind),
                                 !.todo = Wanted(NextKind(j.kind), j.row)])
             /\ Goto(q, FirstStep(j.mode))
    <3>1. NextKind(j.kind) \in Kinds
        BY DEF NextKind, Kinds
    <3>2. QED
        BY <1>0, <2>1, <2>2, <2>5, <3>1, JobStep DEF FirstStep
  <2>6. QED
      BY <1>3, <2>3, <2>4, <2>5 DEF ListDone
<1>4. CASE Return(q)
    BY <1>0, <1>4, NoJobType, JobStep DEF Return
<1>5. CASE n \in Names /\ RemoveOld(q, n)
  <2>1. [j EXCEPT !.old = @ \ {n}] \in Job
      BY <1>0 DEF Job
  <2>2. table' \in [Kinds -> SUBSET (Names \X Ids)]
      BY <1>5 DEF RemoveOld, TypeOK
  <2>3. dirty' \in SUBSET Reqs /\ failed' \in SUBSET Reqs /\ faults' \in 0..MaxFaults
      BY <1>0, <1>5, <1>a, FaultType DEF RemoveOld
  <2>4. Set(q, [j EXCEPT !.old = @ \ {n}]) /\ (Goto(q, "add") \/ Goto(q, "remove"))
      BY <1>5 DEF RemoveOld
  <2>5. QED
      BY <1>5, <2>1, <2>2, <2>3, <2>4, TableStep DEF RemoveOld
<1>6. CASE n \in Names /\ CheckName(q, n)
  <2>1. [j EXCEPT !.old = {n}] \in Job /\ [j EXCEPT !.todo = @ \ {n}] \in Job
      BY <1>0, <1>6 DEF Job
  <2>2. CASE Set(q, [j EXCEPT !.old = {n}]) /\ Goto(q, "insert")
               /\ UNCHANGED <<dbVars, historyVars>>
      BY <1>0, <2>1, <2>2, JobStep DEF historyVars
  <2>3. CASE Set(q, [j EXCEPT !.todo = @ \ {n}]) /\ UNCHANGED <<dbVars, pc, historyVars>>
    <3>1. Goto(q, "add")
        BY <1>6, <2>3 DEF CheckName, Goto, TypeOK
    <3>2. QED
        BY <1>0, <2>1, <2>3, <3>1, JobStep DEF historyVars
  <2>4. CASE NameFails(q, n) /\ (Fault(q) \/ UNCHANGED <<failed, faults>>)
      BY <1>0, <2>4, AfterErrorType, FaultType, JobStep DEF NameFails
  <2>5. QED
      BY <1>6, <2>2, <2>3, <2>4 DEF CheckName
<1>7. CASE n \in Names /\ InsertName(q, n)
  <2>1. CASE /\ TablesAccept(j.kind, n, j.acct)
             /\ table' = [table EXCEPT ![j.kind] = @ \cup {<<n, j.acct>>}]
             /\ Changed(j.acct, {q})
             /\ Set(q, [j EXCEPT !.todo = @ \ {n}, !.old = {}])
             /\ Goto(q, "add")
             /\ UNCHANGED <<lastId, user, failed, faults>>
    <3>1. [j EXCEPT !.todo = @ \ {n}, !.old = {}] \in Job
        BY <1>0 DEF Job
    <3>2. j.acct \in Ids
        BY <2>1 DEF TablesAccept, live
    <3>3. table' \in [Kinds -> SUBSET (Names \X Ids)]
        BY <1>0, <1>7, <2>1, <3>2 DEF TypeOK
    <3>4. QED
        BY <1>0, <1>a, <2>1, <3>1, <3>3, TableStep
  <2>2. CASE /\ Fault(q) \/ UNCHANGED <<failed, faults>>
             /\ Set(q, [AfterError(j, n) EXCEPT !.old = {}])
             /\ Goto(q, "add")
             /\ UNCHANGED <<dbVars, dirty>>
      BY <1>0, <2>2, AfterErrorType, FaultType, JobStep
  <2>3. QED
      BY <1>7, <2>1, <2>2 DEF InsertName
<1>8. QED
    BY <1>1, <1>2, <1>3, <1>4, <1>5, <1>6, <1>7

\* Every step keeps the types.
LEMMA TypeStep ==
  TypeOK /\ [Next]_vars => TypeOK'
<1> SUFFICES ASSUME TypeOK, [Next]_vars
             PROVE  TypeOK'
    OBVIOUS
<1>1. ASSUME NEW row \in Rows, AddEQAccount(row.user) PROVE TypeOK'
  <2>1. row.user \in Names
      BY NamesAssumption DEF Row
  <2>2. /\ lastId' \in 0..MaxIds /\ lastId' = lastId + 1
        /\ user' \in [Ids -> Names \cup {NoName}]
        /\ \A a \in Ids : a > lastId' => user'[a] = NoName
        /\ table' = table
      BY <1>1, <2>1, InsertType DEF AddEQAccount
  <2>3. \A r \in Reqs : job[r].acct \in 0..lastId'
      BY <2>2 DEF TypeOK
  <2>4. job \in [Reqs -> [mode : {"one", "csv", "share", "restore", "backup"},
                       row : Rows \cup {NoRow}, acct : 0..lastId', kind : Kinds,
                       old : SUBSET Names, todo : SUBSET Names, errs : BOOLEAN]]
      BY <2>3 DEF TypeOK
  <2>5. QED
      BY <1>1, <2>2, <2>4 DEF TypeOK, AddEQAccount, historyVars
<1>2. ASSUME NEW a \in Ids, DeleteEQAccount(a) PROVE TypeOK'
    BY <1>2 DEF DeleteEQAccount, TypeOK, Changed
<1>3. ASSUME NEW a \in Ids, NEW k \in Kinds, NEW n \in Names, RemoveName(k, n, a)
      PROVE  TypeOK'
    BY <1>3 DEF RemoveName, TypeOK, Changed
<1>4. ASSUME NEW q \in Reqs, NEW k \in Kinds, NEW n \in Names, NEW a \in 1..lastId,
             AddName(q, k, n, a)
      PROVE  TypeOK'
  <2>1. [NoJob EXCEPT !.acct = a, !.kind = k, !.todo = {n}] \in Job
    <3>1. a \in 0..lastId
        BY DEF TypeOK
    <3>2. NoJob \in Job
        BY NoJobType
    <3>3. QED
        BY <3>1, <3>2 DEF Job
  <2>2. QED
      BY <1>4, <2>1, BeginType DEF AddName
<1>5. ASSUME NEW q \in Reqs, NEW row \in Rows,
             importSSOAccountsCSV(q, row) \/ ShareLocalAccount(q, row)
               \/ importConfigBackup(q, row)
      PROVE  TypeOK'
    BY <1>5, ImportType DEF importSSOAccountsCSV, ShareLocalAccount, importConfigBackup
<1>6. ASSUME NEW q \in Reqs,
             CreateAccount(q) \/ LoadNames(q) \/ ListDone(q) \/ Return(q)
               \/ \E n \in Names : RemoveOld(q, n) \/ CheckName(q, n) \/ InsertName(q, n)
      PROVE  TypeOK'
    BY <1>6, RequestType
<1>7. CASE UNCHANGED vars
    BY <1>7 DEF vars, dbVars, historyVars, TypeOK
<1>8. \A e \in Edits : e[1] \in Kinds /\ e[2] \in Names
    BY NamesAssumption
<1>9. QED
    BY <1>1, <1>2, <1>3, <1>4, <1>5, <1>6, <1>7, <1>8 DEF Next, handleAccountSub, handleAdmin

\* A new account takes no username and no name from another one.
LEMMA InsertTables ==
  ASSUME TypeOK, OneAccountPerName, NamesHaveAccounts, NEW n, InsertAccount(n)
  PROVE  OneAccountPerName' /\ NamesHaveAccounts'
<1>1. /\ lastId + 1 \in Ids /\ user[lastId + 1] = NoName
      /\ user' = [user EXCEPT ![lastId + 1] = n] /\ table' = table
    BY NamesAssumption DEF InsertAccount, TypeOK, Ids
<1>2. live \subseteq live' /\ live' \subseteq live \cup {lastId + 1}
    BY <1>1 DEF live, TypeOK
<1>3. \A a \in live : user'[a] = user[a] /\ user[a] # n
    BY <1>1 DEF live, TypeOK, InsertAccount, UsernameIsFree
<1>4. user'[lastId + 1] = n
    BY <1>1 DEF TypeOK
<1>5. QED
    BY <1>1, <1>2, <1>3, <1>4 DEF OneAccountPerName, NamesHaveAccounts

\* Steps that leave the tables alone or only remove names of live accounts.
LEMMA FewerNames ==
  ASSUME TypeOK, OneAccountPerName, NamesHaveAccounts, UNCHANGED user,
         \A k \in Kinds : table'[k] \subseteq table[k]
  PROVE  OneAccountPerName' /\ NamesHaveAccounts'
BY DEF OneAccountPerName, NamesHaveAccounts, live

\* Every step keeps names unique and attached to an account.
LEMMA TablesStep ==
  TypeOK /\ OneAccountPerName /\ NamesHaveAccounts /\ [Next]_vars
    => OneAccountPerName' /\ NamesHaveAccounts'
<1> SUFFICES ASSUME TypeOK, OneAccountPerName, NamesHaveAccounts, [Next]_vars
             PROVE  OneAccountPerName' /\ NamesHaveAccounts'
    OBVIOUS
<1>1. CASE UNCHANGED dbVars
    BY <1>1, FewerNames DEF dbVars
<1>2. ASSUME NEW n, InsertAccount(n) PROVE OneAccountPerName' /\ NamesHaveAccounts'
    BY <1>2, InsertTables
<1>3. ASSUME NEW a \in Ids, DeleteEQAccount(a)
      PROVE  OneAccountPerName' /\ NamesHaveAccounts'
  <2>1. /\ user' = [user EXCEPT ![a] = NoName]
        /\ table' = [k \in Kinds |-> {e \in table[k] : e[2] # a}]
      BY <1>3 DEF DeleteEQAccount
  <2>2. live' = live \ {a} /\ \A b \in live' : user'[b] = user[b]
      BY <2>1 DEF live, TypeOK
  <2>3. QED
      BY <2>1, <2>2 DEF OneAccountPerName, NamesHaveAccounts
<1>4. ASSUME NEW a \in Ids, NEW k \in Kinds, NEW n \in Names, RemoveName(k, n, a)
      PROVE  OneAccountPerName' /\ NamesHaveAccounts'
    BY <1>4, FewerNames DEF RemoveName, TypeOK
<1>5. ASSUME NEW q \in Reqs, NEW n \in Names, RemoveOld(q, n)
      PROVE  OneAccountPerName' /\ NamesHaveAccounts'
    BY <1>5, FewerNames DEF RemoveOld, TypeOK
<1>6. ASSUME NEW q \in Reqs, NEW n \in Names, InsertName(q, n)
      PROVE  OneAccountPerName' /\ NamesHaveAccounts'
  <2> DEFINE k == job[q].kind
             a == job[q].acct
  <2>1. CASE /\ TablesAccept(k, n, a) /\ UNCHANGED user
             /\ table' = [table EXCEPT ![k] = @ \cup {<<n, a>>}]
    <3>1. a \in live /\ k \in Kinds /\ live' = live
        BY <2>1 DEF TablesAccept, live, TypeOK
    <3>2. k # "tag" => \A e \in table[k] : e[1] # n
        BY <2>1, <3>1 DEF TablesAccept, Holders, TypeOK
    <3>3. NamesHaveAccounts'
        BY <2>1, <3>1 DEF NamesHaveAccounts, TypeOK
    <3>4. ASSUME NEW l \in Kinds \ {"tag"}, NEW e \in table'[l], NEW f \in table'[l], e[1] = f[1]
          PROVE  e = f
        BY <2>1, <3>1, <3>2, <3>4 DEF OneAccountPerName, TypeOK
    <3>5. QED
        BY <2>1, <3>1, <3>3, <3>4 DEF OneAccountPerName
  <2>2. QED
      BY <1>1, <1>6, <2>1 DEF InsertName
<1>7. ASSUME NEW q \in Reqs, ~UNCHANGED dbVars,
             CreateAccount(q) \/ LoadNames(q) \/ ListDone(q) \/ Return(q)
      PROVE  OneAccountPerName' /\ NamesHaveAccounts'
    BY <1>2, <1>7 DEF CreateAccount, LoadNames, ListDone, Return
<1>8. ASSUME NEW q \in Reqs, NEW row \in Rows, NEW mode, ImportRow(q, row, mode)
      PROVE  UNCHANGED dbVars
    BY <1>8 DEF ImportRow, Begin
<1>9. ASSUME NEW q \in Reqs, NEW n \in Names, CheckName(q, n)
      PROVE  UNCHANGED dbVars
    BY <1>9 DEF CheckName, NameFails
<1>10. \A e \in Edits : e[1] \in Kinds /\ e[2] \in Names
    BY NamesAssumption
<1>11. ASSUME ~UNCHANGED dbVars PROVE OneAccountPerName' /\ NamesHaveAccounts'
    BY <1>2, <1>3, <1>4, <1>5, <1>6, <1>7, <1>8, <1>9, <1>10, <1>11
       DEF Next, vars, AddEQAccount, handleAccountSub, handleAdmin, AddName, Begin,
           importSSOAccountsCSV, ShareLocalAccount, importConfigBackup
<1>12. QED
    BY <1>1, <1>11

\* The types and the two facts together.
LEMMA Inductive == Spec => [](TypeOK /\ OneAccountPerName /\ NamesHaveAccounts)
<1>1. Init => TypeOK /\ OneAccountPerName /\ NamesHaveAccounts
  <2>1. Init => TypeOK
      BY NamesAssumption DEF Init, TypeOK, NoJob, Kinds
  <2>2. QED
      BY <2>1 DEF Init, OneAccountPerName, NamesHaveAccounts, live
<1>2. /\ TypeOK /\ OneAccountPerName /\ NamesHaveAccounts
      /\ [Next]_vars
      => (TypeOK /\ OneAccountPerName /\ NamesHaveAccounts)'
    BY TypeStep, TablesStep
<1>3. QED
    BY <1>1, <1>2, PTL DEF Spec

\* The tables and the requests keep their types; a request holds only ids that
\* an account has or had.
THEOREM TypeCorrect == Spec => []TypeOK
BY Inductive, PTL

\* Two requests that both found a name free cannot both give it away
\* (store.go:1008-1022, 006_account_tags.sql:17).
THEOREM NamesUnique == Spec => []OneAccountPerName
BY Inductive, PTL

\* A name never outlives its account, whoever was adding it when the account
\* was deleted (store.go:1939-1949).
THEOREM NamesAttached == Spec => []NamesHaveAccounts
BY Inductive, PTL

-----------------------------------------------------------------------------
(* Imports.                                                                *)

\* The step touches the names of account a at most.
OnlyNamesOf(a) ==
    \A k \in Kinds, n \in Names, b \in 0..MaxIds :
        b # a => (<<n, b>> \in table'[k] <=> <<n, b>> \in table[k])

LEMMA EarlierKinds ==
  ASSUME NEW k \in Kinds
  PROVE  Earlier(k) \subseteq Kinds /\ k \notin Earlier(k)
BY DEF Earlier, Kinds

\* A request that takes no part in the step stays where it was, with its account
\* as it was, or is dirty afterwards.
LEMMA OtherImport ==
  ASSUME TypeOK, NEW r \in Reqs, ImportInv(r), BackupInv(r), pc'[r] = pc[r], job'[r] = job[r],
         NEW a, OnlyNamesOf(a), r \in failed => r \in failed',
         r \notin dirty' => r \notin dirty /\ (Importing(r) => job[r].acct # a)
  PROVE  ImportInv(r)' /\ BackupInv(r)'
<1> DEFINE j == job[r]
<1>1. j.acct \in 0..MaxIds /\ j.kind \in Kinds
    BY NamesAssumption DEF TypeOK
<1>2. CASE ~Importing(r)
    BY <1>2 DEF Importing, ImportInv, BackupInv
<1>3. CASE r \in dirty'
    BY <1>3 DEF ImportInv, BackupInv
<1>4. CASE Importing(r) /\ r \notin dirty'
  <2>1. ASSUME NEW k \in Kinds PROVE NamesOf(k, j.acct)' = NamesOf(k, j.acct)
      BY <1>1, <1>4 DEF NamesOf, OnlyNamesOf
  <2>2. \A k \in Kinds : \A S : NoneBut(j, k, S)' <=> NoneBut(j, k, S)
      BY <2>1 DEF NoneBut
  <2>3. Earlier(j.kind) \subseteq Kinds
      BY <1>1, EarlierKinds
  <2>4. ImportInv(r)'
    <3>1. /\ HasBut(j, j.kind, j.todo)' <=> HasBut(j, j.kind, j.todo)
          /\ \A k \in Earlier(j.kind) : HasBut(j, k, {})' <=> HasBut(j, k, {})
        BY <1>1, <2>1, <2>3 DEF HasBut
    <3>2. QED
        BY <1>1, <1>4, <3>1 DEF ImportInv
  <2>5. BackupInv(r)'
      BY <1>1, <1>4, <2>2, <2>3 DEF BackupInv
  <2>6. QED
      BY <2>4, <2>5
<1>5. QED
    BY <1>2, <1>3, <1>4

\* Somebody without an import changes the names of account a, or nobody's.
LEMMA AllImports ==
  ASSUME TypeOK, ImportIInv, UNCHANGED <<pc, job, failed>>, NEW a, OnlyNamesOf(a),
         Changed(a, {}) \/ (dirty' = dirty /\ a \notin 0..lastId)
  PROVE  ImportIInv'
<1> SUFFICES ASSUME NEW r \in Reqs PROVE ImportInv(r)' /\ BackupInv(r)'
    BY DEF ImportIInv
<1>1. r \notin dirty' => r \notin dirty /\ (Importing(r) => job[r].acct # a)
    BY DEF Changed, TypeOK
<1>2. QED
    BY <1>1, OtherImport DEF ImportIInv

\* Request q takes the step and changes the names of its account a, or nobody's.
LEMMA OwnImport ==
  ASSUME TypeOK, ImportIInv, NEW q \in Reqs, ImportInv(q)', BackupInv(q)',
         \A r \in Reqs \ {q} : /\ pc'[r] = pc[r] /\ job'[r] = job[r]
                               /\ r \in failed => r \in failed'
                               /\ r \in dirty => r \in dirty',
         NEW a, (OnlyNamesOf(a) /\ Changed(a, {q})) \/ UNCHANGED table
  PROVE  ImportIInv'
<1> SUFFICES ASSUME NEW r \in Reqs \ {q} PROVE ImportInv(r)' /\ BackupInv(r)'
    BY DEF ImportIInv
<1>1. ImportInv(r) /\ BackupInv(r)
    BY DEF ImportIInv
<1>2. CASE OnlyNamesOf(a) /\ Changed(a, {q})
  <2>1. r \notin dirty' => r \notin dirty /\ (Importing(r) => job[r].acct # a)
      BY <1>2 DEF Changed
  <2>2. QED
      BY <1>1, <1>2, <2>1, OtherImport
<1>3. CASE UNCHANGED table
  <2>1. OnlyNamesOf(lastId + 1) /\ job[r].acct # lastId + 1
      BY <1>3 DEF OnlyNamesOf, TypeOK
  <2>2. QED
      BY <1>1, <2>1, OtherImport
<1>4. QED
    BY <1>2, <1>3

\* A request begins with the list of aliases ahead.
LEMMA BeginImport ==
  ASSUME TypeOK, ImportIInv, NEW q \in Reqs, NEW j, NEW l, Begin(q, j, l),
         \/ j.mode = "one"
         \/ /\ l = "create" \/ l = FirstStep(j.mode)
            /\ j.kind = "alias" /\ j.todo = Wanted("alias", j.row)
  PROVE  ImportIInv'
<1>1. pc'[q] = l /\ job'[q] = j /\ UNCHANGED table
    BY DEF Begin, Goto, Set, TypeOK, dbVars
<1>2. \A r \in Reqs \ {q} : /\ pc'[r] = pc[r] /\ job'[r] = job[r]
                            /\ r \in failed => r \in failed'
                            /\ r \in dirty => r \in dirty'
    BY DEF Begin, Goto, Set, TypeOK
<1>3. ImportInv(q)'
    BY <1>1 DEF ImportInv, FirstStep, HasBut, Earlier
<1>4. BackupInv(q)'
    BY <1>1 DEF BackupInv, FirstStep, Earlier
<1>5. QED
    BY <1>1, <1>2, <1>3, <1>4, OwnImport

LEMMA ImportBegins ==
  ASSUME TypeOK, ImportIInv, NEW q \in Reqs, NEW row, NEW mode, ImportRow(q, row, mode)
  PROVE  ImportIInv'
<1>1. \A a : /\ ForAccount(mode, row, a).mode = mode
             /\ ForAccount(mode, row, a).row = row
             /\ ForAccount(mode, row, a).kind = "alias"
             /\ ForAccount(mode, row, a).todo = Wanted("alias", row)
    BY DEF ForAccount, NoJob
<1>2. PICK a, l : /\ Begin(q, ForAccount(mode, row, a), l)
                  /\ l = "create" \/ l = FirstStep(mode)
    BY DEF ImportRow
<1>3. QED
    BY <1>1, <1>2, BeginImport

\* Steps of request q that touch no table; the others stay as they are.
LEMMA LocalImport ==
  ASSUME TypeOK, ImportIInv, NEW q \in Reqs, NEW j, NEW l, Set(q, j), Goto(q, l),
         UNCHANGED table, dirty' = dirty, Fault(q) \/ failed' = failed,
         ImportInv(q)', BackupInv(q)'
  PROVE  ImportIInv'
<1>1. \A r \in Reqs \ {q} : /\ pc'[r] = pc[r] /\ job'[r] = job[r]
                            /\ r \in failed => r \in failed'
                            /\ r \in dirty => r \in dirty'
    BY DEF Goto, Set, TypeOK, Fault
<1>2. QED
    BY <1>1, OwnImport

\* A request that is over, or that has reported an error, promises nothing.
LEMMA NoPromise ==
  ASSUME NEW q \in Reqs,
         \/ pc'[q] = "idle" \/ job'[q].mode \notin {"csv", "backup"}
         \/ job'[q].errs = TRUE \/ q \in dirty'
  PROVE  ImportInv(q)' /\ BackupInv(q)'
BY DEF ImportInv, BackupInv

LEMMA CreateImport ==
  ASSUME TypeOK, ImportIInv, NEW q \in Reqs, CreateAccount(q)
  PROVE  ImportIInv'
<1> DEFINE j == job[q]
<1>0. ImportInv(q) /\ pc[q] = "create" /\ job[q] \in Job
    BY DEF ImportIInv, CreateAccount, TypeOK, Job
<1>1. CASE /\ InsertAccount(j.row.user)
           /\ Set(q, [j EXCEPT !.acct = lastId'])
           /\ Goto(q, FirstStep(j.mode))
           /\ UNCHANGED historyVars
  <2>1. /\ pc'[q] = FirstStep(j.mode) /\ job'[q].mode = j.mode /\ job'[q].row = j.row
        /\ job'[q].kind = j.kind /\ job'[q].todo = j.todo /\ job'[q].errs = j.errs
        /\ dirty' = dirty /\ failed' = failed /\ table' = table
      BY <1>0, <1>1 DEF Set, Goto, TypeOK, historyVars, InsertAccount, Job
  <2>2. ImportInv(q)'
      BY <1>0, <2>1 DEF ImportInv, FirstStep, HasBut, Earlier
  <2>3. BackupInv(q)'
      BY <1>0, <2>1 DEF ImportInv, BackupInv, FirstStep, Earlier
  <2>4. QED
      BY <1>1, <2>1, <2>2, <2>3, LocalImport
<1>2. CASE /\ UNCHANGED <<failed, faults>> \/ Fault(q)
           /\ RowFails(q)
           /\ UNCHANGED <<dbVars, dirty>>
  <2>1. job'[q].errs = TRUE
      BY <1>0, <1>2 DEF RowFails, Set, TypeOK, Job
  <2>2. QED
      BY <1>2, <2>1, NoPromise, LocalImport DEF RowFails, dbVars
<1>3. QED
    BY <1>1, <1>2 DEF CreateAccount

LEMMA LoadImport ==
  ASSUME TypeOK, ImportIInv, NEW q \in Reqs, LoadNames(q)
  PROVE  ImportIInv'
<1> DEFINE j == job[q]
<1>0. /\ ImportInv(q) /\ BackupInv(q) /\ pc[q] = "load" /\ job[q] \in Job
      /\ job = [job EXCEPT ![q] = j]
    BY DEF ImportIInv, LoadNames, TypeOK, Job
<1>1. /\ table' = table /\ dirty' = dirty
      /\ pc'[q] \in {"add", "remove"}
      /\ job'[q].mode = j.mode /\ job'[q].row = j.row /\ job'[q].acct = j.acct
      /\ job'[q].kind = j.kind /\ job'[q].todo = j.todo /\ job'[q].errs = j.errs
    BY <1>0 DEF LoadNames, Set, Goto, TypeOK, dbVars, Job
<1>2. \A k : NamesOf(k, j.acct)' = NamesOf(k, j.acct)
    BY <1>1 DEF NamesOf
<1>3. ImportInv(q)'
    BY <1>0, <1>1, <1>2 DEF ImportInv, HasBut
<1>4. BackupInv(q)'
  <2>1. SUFFICES ASSUME j.mode = "backup", ~j.errs, q \notin dirty, q \notin failed'
                 PROVE  /\ pc'[q] = "remove" => NoneBut(job[q], j.kind, job[q].old)'
                        /\ pc'[q] = "add" => NoneBut(job[q], j.kind, Wanted(j.kind, j.row))'
                        /\ \A k \in Earlier(j.kind) : NoneBut(job[q], k, Wanted(k, j.row))'
      BY <1>1 DEF BackupInv
  <2>2. ~Fault(q)
      BY <1>0, <2>1 DEF Fault, Importing
  <2>3. /\ job'[q].old = OldNames(q) /\ failed' = failed
        /\ pc'[q] = IF OldNames(q) = {} THEN "add" ELSE "remove"
      BY <1>0, <2>2 DEF LoadNames, Set, Goto, TypeOK, Job
  <2>4. Theirs(j.kind, j.row, NamesOf(j.kind, j.acct)') = OldNames(q)
      BY <1>1, <1>2 DEF OldNames, NamesOf
  <2>5. \A k \in Earlier(j.kind) : NoneBut(job[q], k, Wanted(k, j.row))'
      BY <1>0, <1>1, <1>2, <2>1, <2>3 DEF BackupInv, NoneBut
  <2>6. QED
      BY <1>1, <2>3, <2>4, <2>5 DEF NoneBut
<1>5. QED
  <2>1. Set(q, [j EXCEPT !.old = OldNames(q)]) \/ Set(q, j)
      BY <1>0 DEF LoadNames, Set
  <2>2. Goto(q, "add") \/ Goto(q, "remove")
      BY DEF LoadNames
  <2>3. Fault(q) \/ failed' = failed
      BY DEF LoadNames
  <2>4. QED
      BY <1>1, <1>3, <1>4, <2>1, <2>2, <2>3, LocalImport

LEMMA ListImport ==
  ASSUME TypeOK, ImportIInv, NEW q \in Reqs, ListDone(q)
  PROVE  ImportIInv'
<1> DEFINE j == job[q]
<1>0. /\ ImportInv(q) /\ BackupInv(q) /\ pc[q] = "add" /\ j.todo = {} /\ job[q] \in Job
      /\ j.kind \in Kinds /\ job = [job EXCEPT ![q] = j]
      /\ table' = table /\ dirty' = dirty /\ failed' = failed
    BY DEF ImportIInv, ListDone, TypeOK, Job, dbVars, historyVars
<1>1. \A k, a : NamesOf(k, a)' = NamesOf(k, a)
    BY <1>0 DEF NamesOf
<1>2. CASE /\ j.mode \in {"csv", "backup"} /\ j.kind = "character"
           /\ Goto(q, "done")
           /\ UNCHANGED job
  <2>1. pc'[q] = "done"
      BY <1>2 DEF Goto, TypeOK
  <2>2. ImportInv(q)'
      BY <1>0, <1>1, <1>2, <2>1 DEF ImportInv, HasBut
  <2>3. BackupInv(q)'
      BY <1>0, <1>1, <1>2, <2>1 DEF BackupInv, NoneBut
  <2>4. Set(q, j)
      BY <1>0, <1>2 DEF Set
  <2>5. QED
      BY <1>0, <1>2, <2>2, <2>3, <2>4, LocalImport
<1>3. CASE /\ Set(q, [[j EXCEPT !.kind = "alias", !.todo = Wanted("alias", j.row)]
                        EXCEPT !.mode = "backup"])
           /\ Goto(q, "load")
  <2>1. /\ pc'[q] = "load" /\ job'[q].row = j.row /\ job'[q].kind = "alias"
        /\ job'[q].todo = Wanted("alias", j.row)
      BY <1>0, <1>3 DEF Goto, Set, TypeOK, Job
  <2>2. ImportInv(q)' /\ BackupInv(q)'
      BY <2>1 DEF ImportInv, BackupInv, Earlier
  <2>3. QED
      BY <1>0, <1>3, <2>2, LocalImport
<1>4. CASE /\ j.mode \in {"csv", "backup"} /\ j.kind # "character"
           /\ Set(q, [j EXCEPT !.kind = NextKind(j.kind),
                               !.todo = Wanted(NextKind(j.kind), j.row)])
           /\ Goto(q, FirstStep(j.mode))
  <2>1. /\ pc'[q] = FirstStep(j.mode) /\ job'[q].row = j.row /\ job'[q].acct = j.acct
        /\ job'[q].mode = j.mode /\ job'[q].errs = j.errs
        /\ job'[q].kind = NextKind(j.kind) /\ job'[q].todo = Wanted(NextKind(j.kind), j.row)
      BY <1>0, <1>4 DEF Goto, Set, TypeOK, Job
  <2>2. Earlier(NextKind(j.kind)) = Earlier(j.kind) \cup {j.kind}
      BY <1>0, <1>4 DEF Earlier, NextKind, Kinds
  <2>3. ASSUME ~j.errs, q \notin dirty, NEW k \in Earlier(NextKind(j.kind))
        PROVE  HasBut(job[q], k, {})'
      BY <1>0, <1>1, <1>4, <2>1, <2>2, <2>3 DEF ImportInv, HasBut
  <2>4. ImportInv(q)'
      BY <1>0, <1>4, <2>1, <2>3 DEF ImportInv, FirstStep, HasBut
  <2>5. ASSUME j.mode = "backup", ~j.errs, q \notin dirty, q \notin failed,
               NEW k \in Earlier(NextKind(j.kind))
        PROVE  NoneBut(job[q], k, Wanted(k, j.row))'
      BY <1>0, <1>1, <1>4, <2>1, <2>2, <2>5 DEF BackupInv, NoneBut
  <2>6. BackupInv(q)'
      BY <1>0, <1>4, <2>1, <2>5 DEF BackupInv, FirstStep
  <2>7. QED
      BY <1>0, <1>4, <2>4, <2>6, LocalImport
<1>5. QED
    BY <1>2, <1>3, <1>4 DEF ListDone

LEMMA RemoveImport ==
  ASSUME TypeOK, ImportIInv, NEW q \in Reqs, NEW n \in Names, RemoveOld(q, n)
  PROVE  ImportIInv'
<1> DEFINE j == job[q]
<1>0. /\ ImportInv(q) /\ BackupInv(q) /\ pc[q] = "remove" /\ job[q] \in Job
      /\ j.kind \in Kinds /\ n \in j.old
    BY DEF ImportIInv, RemoveOld, TypeOK, Job
<1>1. /\ pc'[q] = IF j.old = {n} THEN "add" ELSE "remove"
      /\ job'[q].mode = j.mode /\ job'[q].row = j.row /\ job'[q].acct = j.acct
      /\ job'[q].kind = j.kind /\ job'[q].todo = j.todo /\ job'[q].errs = j.errs
      /\ job'[q].old = j.old \ {n}
    BY <1>0 DEF RemoveOld, Set, Goto, TypeOK, Job
<1>2. /\ OnlyNamesOf(j.acct)
      /\ \A k \in Kinds \ {j.kind} : table'[k] = table[k]
    BY DEF RemoveOld, OnlyNamesOf, TypeOK
<1>3. q \notin dirty' => q \notin dirty
    BY DEF RemoveOld, Changed
<1>4. \A k \in Earlier(j.kind) : NamesOf(k, j.acct)' = NamesOf(k, j.acct)
    BY <1>0, <1>1, <1>2, EarlierKinds DEF NamesOf
<1>5. ImportInv(q)'
    BY <1>0, <1>1, <1>3, <1>4 DEF ImportInv, HasBut
<1>6. BackupInv(q)'
  <2>1. SUFFICES ASSUME j.mode = "backup", ~j.errs, q \notin dirty, q \notin failed'
                 PROVE  /\ pc'[q] = "remove" => NoneBut(job[q], j.kind, job[q].old)'
                        /\ pc'[q] = "add" => NoneBut(job[q], j.kind, Wanted(j.kind, j.row))'
                        /\ \A k \in Earlier(j.kind) : NoneBut(job[q], k, Wanted(k, j.row))'
      BY <1>1, <1>3 DEF BackupInv
  <2>2. ~Fault(q)
      BY <1>0, <2>1 DEF Fault, Importing
  <2>3. table' = [table EXCEPT ![j.kind] = @ \ {<<n, j.acct>>}] /\ failed' = failed
      BY <2>2 DEF RemoveOld
  <2>4. NamesOf(j.kind, j.acct)' = NamesOf(j.kind, j.acct) \ {n}
      BY <1>0, <1>1, <2>3 DEF NamesOf, TypeOK
  <2>5. Theirs(j.kind, j.row, NamesOf(j.kind, j.acct)) \subseteq j.old
      BY <1>0, <2>1, <2>3 DEF BackupInv, NoneBut
  <2>6. Theirs(j.kind, j.row, NamesOf(j.kind, j.acct) \ {n}) \subseteq j.old \ {n}
      BY <2>5 DEF Theirs
  <2>7. \A k \in Earlier(j.kind) : NoneBut(job[q], k, Wanted(k, j.row))'
      BY <1>0, <1>1, <1>4, <2>1, <2>3 DEF BackupInv, NoneBut
  <2>8. NoneBut(job[q], j.kind, job[q].old)'
      BY <1>1, <2>4, <2>6 DEF NoneBut
  <2>9. pc'[q] = "add" => NoneBut(job[q], j.kind, Wanted(j.kind, j.row))'
      BY <1>1, <2>8 DEF NoneBut
  <2>10. QED
      BY <2>7, <2>8, <2>9
<1>7. \A r \in Reqs \ {q} : /\ pc'[r] = pc[r] /\ job'[r] = job[r]
                            /\ r \in failed => r \in failed'
                            /\ r \in dirty => r \in dirty'
    BY DEF RemoveOld, Goto, Set, TypeOK, Fault, Changed
<1>8. Changed(j.acct, {q}) \/ UNCHANGED table
    BY DEF RemoveOld
<1>9. QED
    BY <1>2, <1>5, <1>6, <1>7, <1>8, OwnImport

\* An error of a name is reported by imports.
LEMMA AfterErrorPromise ==
  ASSUME NEW j \in Job, NEW n
  PROVE  /\ AfterError(j, n).mode \in {"csv", "backup"} => AfterError(j, n).errs = TRUE
         /\ LET f == [AfterError(j, n) EXCEPT !.old = {}] IN
            f.mode \in {"csv", "backup"} => f.errs = TRUE
BY DEF AfterError, Job

LEMMA CheckImport ==
  ASSUME TypeOK, ImportIInv, NEW q \in Reqs, NEW n \in Names, CheckName(q, n)
  PROVE  ImportIInv'
<1> DEFINE j == job[q]
<1>0. /\ ImportInv(q) /\ BackupInv(q) /\ pc[q] = "add" /\ job[q] \in Job
      /\ j.kind \in Kinds /\ n \in j.todo
    BY DEF ImportIInv, CheckName, TypeOK, Job
<1>1. CASE /\ Set(q, [j EXCEPT !.old = {n}])
           /\ Goto(q, "insert")
           /\ UNCHANGED <<dbVars, historyVars>>
  <2>1. /\ pc'[q] = "insert" /\ job'[q].old = {n}
        /\ job'[q].mode = j.mode /\ job'[q].row = j.row /\ job'[q].acct = j.acct
        /\ job'[q].kind = j.kind /\ job'[q].todo = j.todo /\ job'[q].errs = j.errs
        /\ table' = table /\ dirty' = dirty /\ failed' = failed
      BY <1>0, <1>1 DEF Set, Goto, TypeOK, Job, dbVars, historyVars
  <2>2. ImportInv(q)'
      BY <1>0, <2>1 DEF ImportInv, HasBut, NamesOf
  <2>3. BackupInv(q)'
      BY <1>0, <2>1 DEF BackupInv, NoneBut, NamesOf
  <2>4. QED
      BY <1>1, <2>1, <2>2, <2>3, LocalImport
<1>2. CASE /\ j.acct \in Holders(j.kind, n, j.acct)
           /\ Set(q, [j EXCEPT !.todo = @ \ {n}])
           /\ UNCHANGED <<dbVars, pc, historyVars>>
  <2>1. /\ pc'[q] = "add" /\ job'[q].todo = j.todo \ {n}
        /\ job'[q].mode = j.mode /\ job'[q].row = j.row /\ job'[q].acct = j.acct
        /\ job'[q].kind = j.kind /\ job'[q].errs = j.errs
        /\ table' = table /\ dirty' = dirty /\ failed' = failed
      BY <1>0, <1>2 DEF Set, TypeOK, Job, dbVars, historyVars
  <2>2. n \in NamesOf(j.kind, j.acct)
      BY <1>2 DEF Holders, NamesOf
  <2>3. ImportInv(q)'
      BY <1>0, <2>1, <2>2 DEF ImportInv, HasBut, NamesOf
  <2>4. BackupInv(q)'
      BY <1>0, <2>1 DEF BackupInv, NoneBut, NamesOf
  <2>5. Goto(q, "add")
      BY <1>0, <1>2 DEF Goto, TypeOK
  <2>6. QED
      BY <1>2, <2>1, <2>3, <2>4, <2>5, LocalImport
<1>3. CASE /\ UNCHANGED <<failed, faults>> \/ Fault(q)
           /\ NameFails(q, n)
  <2>1. job'[q] = AfterError(j, n) /\ table' = table /\ dirty' = dirty
      BY <1>3 DEF NameFails, Set, TypeOK, dbVars
  <2>2. ImportInv(q)' /\ BackupInv(q)'
      BY <1>0, <2>1, AfterErrorPromise, NoPromise
  <2>3. QED
      BY <1>3, <2>1, <2>2, LocalImport DEF NameFails
<1>4. QED
    BY <1>1, <1>2, <1>3 DEF CheckName

LEMMA InsertImport ==
  ASSUME TypeOK, ImportIInv, NEW q \in Reqs, NEW n \in Names, InsertName(q, n)
  PROVE  ImportIInv'
<1> DEFINE j == job[q]
<1>0. /\ ImportInv(q) /\ BackupInv(q) /\ pc[q] = "insert" /\ job[q] \in Job
      /\ j.kind \in Kinds /\ j.old = {n}
    BY DEF ImportIInv, InsertName, TypeOK, Job
<1>1. CASE /\ table' = [table EXCEPT ![j.kind] = @ \cup {<<n, j.acct>>}]
           /\ Changed(j.acct, {q})
           /\ Set(q, [j EXCEPT !.todo = @ \ {n}, !.old = {}])
           /\ Goto(q, "add")
           /\ UNCHANGED <<lastId, user, failed, faults>>
  <2>1. /\ pc'[q] = "add" /\ job'[q].todo = j.todo \ {n}
        /\ job'[q].mode = j.mode /\ job'[q].row = j.row /\ job'[q].acct = j.acct
        /\ job'[q].kind = j.kind /\ job'[q].errs = j.errs
        /\ failed' = failed
      BY <1>0, <1>1 DEF Set, Goto, TypeOK, Job
  <2>2. OnlyNamesOf(j.acct) /\ \A k \in Kinds \ {j.kind} : table'[k] = table[k]
      BY <1>0, <1>1 DEF OnlyNamesOf, TypeOK
  <2>3. q \notin dirty' => q \notin dirty
      BY <1>1 DEF Changed
  <2>4. \A k \in Earlier(j.kind) : NamesOf(k, j.acct)' = NamesOf(k, j.acct)
      BY <1>0, <2>1, <2>2, EarlierKinds DEF NamesOf
  <2>5. NamesOf(j.kind, j.acct)' = NamesOf(j.kind, j.acct) \cup {n}
      BY <1>0, <1>1, <2>1 DEF NamesOf, TypeOK
  <2>6. ImportInv(q)'
    <3>1. SUFFICES ASSUME j.mode \in {"csv", "backup"}, ~j.errs, q \notin dirty
                   PROVE  /\ HasBut(job[q], j.kind, job[q].todo)'
                          /\ job'[q].todo \subseteq Wanted(j.kind, j.row)
                          /\ \A k \in Earlier(j.kind) : HasBut(job[q], k, {})'
        BY <2>1, <2>3 DEF ImportInv
    <3>2. HasBut(job[q], j.kind, job[q].todo)'
        BY <1>0, <2>1, <2>5, <3>1 DEF ImportInv, HasBut
    <3>3. \A k \in Earlier(j.kind) : HasBut(job[q], k, {})'
        BY <1>0, <2>1, <2>4, <3>1 DEF ImportInv, HasBut
    <3>4. QED
        BY <1>0, <2>1, <3>1, <3>2, <3>3 DEF ImportInv
  <2>7. BackupInv(q)'
    <3>1. SUFFICES ASSUME j.mode = "backup", ~j.errs, q \notin dirty, q \notin failed
                   PROVE  /\ NoneBut(job[q], j.kind, Wanted(j.kind, j.row))'
                          /\ \A k \in Earlier(j.kind) : NoneBut(job[q], k, Wanted(k, j.row))'
        BY <2>1, <2>3 DEF BackupInv
    <3>2. n \in Wanted(j.kind, j.row)
        BY <1>0, <3>1 DEF ImportInv
    <3>3. Theirs(j.kind, j.row, NamesOf(j.kind, j.acct) \cup {n})
            \subseteq Theirs(j.kind, j.row, NamesOf(j.kind, j.acct)) \cup {n}
        BY DEF Theirs
    <3>4. NoneBut(job[q], j.kind, Wanted(j.kind, j.row))'
        BY <1>0, <2>1, <2>5, <3>1, <3>2, <3>3 DEF BackupInv, NoneBut
    <3>5. \A k \in Earlier(j.kind) : NoneBut(job[q], k, Wanted(k, j.row))'
        BY <1>0, <2>1, <2>4, <3>1 DEF BackupInv, NoneBut
    <3>6. QED
        BY <3>4, <3>5
  <2>8. \A r \in Reqs \ {q} : /\ pc'[r] = pc[r] /\ job'[r] = job[r]
                              /\ r \in failed => r \in failed'
                              /\ r \in dirty => r \in dirty'
      BY <1>1 DEF Goto, Set, TypeOK, Changed
  <2>9. QED
      BY <1>1, <2>2, <2>6, <2>7, <2>8, OwnImport
<1>2. CASE /\ UNCHANGED <<failed, faults>> \/ Fault(q)
           /\ Set(q, [AfterError(j, n) EXCEPT !.old = {}])
           /\ Goto(q, "add")
           /\ UNCHANGED <<dbVars, dirty>>
  <2>1. job'[q] = [AfterError(j, n) EXCEPT !.old = {}] /\ table' = table /\ dirty' = dirty
      BY <1>2 DEF Set, TypeOK, dbVars
  <2>2. ImportInv(q)' /\ BackupInv(q)'
      BY <1>0, <2>1, AfterErrorPromise, NoPromise
  <2>3. QED
      BY <1>2, <2>1, <2>2, LocalImport
<1>3. QED
    BY <1>1, <1>2 DEF InsertName

\* Every step keeps what holds of the imports.
LEMMA ImportStep ==
  ASSUME TypeOK, ImportIInv, [Next]_vars
  PROVE  ImportIInv'
<1>1. ASSUME UNCHANGED <<table, pc, job, dirty, failed>> PROVE ImportIInv'
  <2>1. OnlyNamesOf(lastId + 1) /\ lastId + 1 \notin 0..lastId
      BY <1>1 DEF OnlyNamesOf, TypeOK
  <2>2. QED
      BY <1>1, <2>1, AllImports
<1>2. ASSUME NEW n, AddEQAccount(n) PROVE ImportIInv'
    BY <1>1, <1>2 DEF AddEQAccount, InsertAccount, historyVars
<1>3. ASSUME NEW a \in Ids, DeleteEQAccount(a) PROVE ImportIInv'
  <2>1. OnlyNamesOf(a)
      BY <1>3 DEF DeleteEQAccount, OnlyNamesOf, TypeOK
  <2>2. QED
      BY <1>3, <2>1, AllImports DEF DeleteEQAccount
<1>4. ASSUME NEW a \in Ids, NEW k \in Kinds, NEW n \in Names, RemoveName(k, n, a)
      PROVE  ImportIInv'
  <2>1. OnlyNamesOf(a)
      BY <1>4 DEF RemoveName, OnlyNamesOf, TypeOK
  <2>2. QED
      BY <1>4, <2>1, AllImports DEF RemoveName
<1>5. ASSUME NEW q \in Reqs, NEW k, NEW n, NEW a, AddName(q, k, n, a) PROVE ImportIInv'
  <2>1. [NoJob EXCEPT !.acct = a, !.kind = k, !.todo = {n}].mode = "one"
      BY DEF NoJob
  <2>2. QED
      BY <1>5, <2>1, BeginImport DEF AddName
<1>6. ASSUME NEW q \in Reqs, NEW row \in Rows,
             importSSOAccountsCSV(q, row) \/ ShareLocalAccount(q, row)
               \/ importConfigBackup(q, row)
      PROVE  ImportIInv'
    BY <1>6, ImportBegins DEF importSSOAccountsCSV, ShareLocalAccount, importConfigBackup
<1>7. ASSUME NEW q \in Reqs, Return(q) PROVE ImportIInv'
  <2>1. pc'[q] = "idle" /\ UNCHANGED table
      BY <1>7 DEF Return, Goto, TypeOK, dbVars
  <2>2. \A r \in Reqs \ {q} : /\ pc'[r] = pc[r] /\ job'[r] = job[r]
                              /\ r \in failed => r \in failed'
                              /\ r \in dirty => r \in dirty'
      BY <1>7 DEF Return, Goto, Set, TypeOK
  <2>3. QED
      BY <2>1, <2>2, NoPromise, OwnImport
<1>8. ASSUME NEW q \in Reqs,
             CreateAccount(q) \/ LoadNames(q) \/ ListDone(q)
               \/ \E n \in Names : RemoveOld(q, n) \/ CheckName(q, n) \/ InsertName(q, n)
      PROVE  ImportIInv'
    BY <1>8, CreateImport, LoadImport, ListImport, RemoveImport, CheckImport, InsertImport
<1>9. CASE UNCHANGED vars
    BY <1>1, <1>9 DEF vars, dbVars, historyVars
<1>10. \A e \in Edits : e[1] \in Kinds /\ e[2] \in Names
    BY NamesAssumption
<1>11. QED
    BY <1>2, <1>3, <1>4, <1>5, <1>6, <1>7, <1>8, <1>9, <1>10
       DEF Next, handleAccountSub, handleAdmin

LEMMA ImportInductive == Spec => []ImportIInv
<1>1. Init => ImportIInv
    BY DEF Init, ImportIInv, ImportInv, BackupInv
<1>2. TypeOK /\ ImportIInv /\ [Next]_vars => ImportIInv'
    BY ImportStep
<1>3. QED
    BY <1>1, <1>2, TypeCorrect, PTL DEF Spec

\* An import that reports no error for a row has left every name of the row on
\* the account, whichever statements failed on the way, unless somebody else
\* changed the account meanwhile (csv.go:185-202, backup.go:364-372).
THEOREM SilentImportComplete == Spec => []SilentImportIsComplete
<1>1. ASSUME TypeOK, ImportIInv PROVE SilentImportIsComplete
  <2>1. SUFFICES ASSUME NEW q \in Reqs \ dirty, pc[q] = "done", ~job[q].errs,
                        job[q].mode \in {"csv", "backup"}, NEW k \in Kinds
                 PROVE  Wanted(k, job[q].row) \subseteq NamesOf(k, job[q].acct)
      BY DEF SilentImportIsComplete
  <2>2. /\ job[q].kind = "character" /\ HasBut(job[q], "character", {})
        /\ \A l \in Earlier("character") : HasBut(job[q], l, {})
      BY <1>1, <2>1 DEF ImportIInv, ImportInv
  <2>3. HasBut(job[q], k, {})
      BY <2>2 DEF Earlier, Kinds
  <2>4. QED
      BY <2>3 DEF HasBut
<1>2. QED
    BY <1>1, TypeCorrect, ImportInductive, PTL

\* A backup row that met no other request and no failure leaves exactly its
\* names, an alias that spells the username aside (backup.go:455-505).
THEOREM BackupRowExact == Spec => []BackupRowIsExact
<1>1. ASSUME TypeOK, ImportIInv PROVE BackupRowIsExact
  <2>1. SUFFICES ASSUME NEW q \in Reqs \ (dirty \cup failed), pc[q] = "done", ~job[q].errs,
                        job[q].mode = "backup", NEW k \in Kinds
                 PROVE  Theirs(k, job[q].row, NamesOf(k, job[q].acct)) = Wanted(k, job[q].row)
      BY DEF BackupRowIsExact
  <2>2. /\ job[q].kind = "character" /\ HasBut(job[q], "character", {})
        /\ \A l \in Earlier("character") : HasBut(job[q], l, {})
      BY <1>1, <2>1 DEF ImportIInv, ImportInv
  <2>3. /\ NoneBut(job[q], "character", Wanted("character", job[q].row))
        /\ \A l \in Earlier("character") : NoneBut(job[q], l, Wanted(l, job[q].row))
      BY <1>1, <2>1, <2>2 DEF ImportIInv, BackupInv
  <2>4. HasBut(job[q], k, {}) /\ NoneBut(job[q], k, Wanted(k, job[q].row))
      BY <2>2, <2>3 DEF Earlier, Kinds
  <2>5. QED
      BY <2>4 DEF HasBut, NoneBut, Wanted, Theirs
<1>2. QED
    BY <1>1, TypeCorrect, ImportInductive, PTL
=============================================================================
