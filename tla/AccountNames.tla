---------------------------- MODULE AccountNames ----------------------------
(***************************************************************************)
(* EverQuest accounts and the names a login may give instead of the        *)
(* username: aliases, tags and characters. Web requests and messages of    *)
(* desktop admins add and remove them, share_account adds aliases, the CSV *)
(* import adds the names of a row and the backup import replaces them.     *)
(*                                                                         *)
(* Adding asks first whether the name is taken and inserts afterwards;     *)
(* indexes and foreign keys decide when two requests did so together. The  *)
(* tables are compared by lower(): a name stands for its spellings. Who    *)
(* may change the names of a private account is in AccountAccess.          *)
(***************************************************************************)
EXTENDS Naturals

CONSTANTS
    Names,
    Rows,       \* the rows of imports and share_account messages
    Edits,      \* the names that are added or removed one at a time
    Reqs,       \* requests that run at the same time
    MaxIds,     \* bound on the accounts ever created
    MaxFaults,  \* bound on statements that fail
    NoName

Kinds == {"alias", "tag", "character"}
Ids == 1..MaxIds
Row == [user : Names, restricted : BOOLEAN, alias : SUBSET Names,
        tag : SUBSET Names, character : SUBSET Names]

ASSUME NamesAssumption ==
    /\ NoName \notin Names
    /\ Rows \subseteq Row
    /\ Edits \subseteq Kinds \X Names
    /\ MaxIds \in Nat \ {0} /\ MaxFaults \in Nat

VARIABLES
    lastId, user,    \* eq_accounts: the last id, the username of each row
    table,           \* aliases, account_tags and characters
    pc, job,         \* a request, and its variables
    dirty,           \* history: others changed the request's account since
    failed, faults   \* history: a statement of the request failed

dbVars == <<lastId, user, table>>
historyVars == <<dirty, failed, faults>>
vars == <<dbVars, pc, job, historyVars>>

NoRow == [user |-> NoName, restricted |-> FALSE, alias |-> {}, tag |-> {}, character |-> {}]

\* mode: how errors are treated; kind: the table it is at; old: the names there
\* that it has still to remove, or the one it is about to insert; todo: the
\* names that it has still to add; errs: an error of the row was reported.
NoJob == [mode |-> "one", row |-> NoRow, acct |-> 0, kind |-> "alias",
          old |-> {}, todo |-> {}, errs |-> FALSE]

TypeOK ==
    /\ lastId \in 0..MaxIds
    /\ user \in [Ids -> Names \cup {NoName}]
    /\ \A a \in Ids : a > lastId => user[a] = NoName
    /\ table \in [Kinds -> SUBSET (Names \X Ids)]
    /\ pc \in [Reqs -> {"idle", "create", "load", "remove", "add", "insert", "done"}]
    /\ job \in [Reqs -> [mode : {"one", "csv", "share", "restore", "backup"},
                         row : Rows \cup {NoRow}, acct : 0..lastId, kind : Kinds,
                         old : SUBSET Names, todo : SUBSET Names, errs : BOOLEAN]]
    /\ dirty \subseteq Reqs /\ failed \subseteq Reqs
    /\ faults \in 0..MaxFaults

Init ==
    /\ lastId = 0 /\ user = [a \in Ids |-> NoName]
    /\ table = [k \in Kinds |-> {}]
    /\ pc = [q \in Reqs |-> "idle"] /\ job = [q \in Reqs |-> NoJob]
    /\ dirty = {} /\ failed = {} /\ faults = 0

live == {a \in Ids : user[a] # NoName}
NamesOf(k, a) == {n \in Names : <<n, a>> \in table[k]}

Goto(q, l) == pc' = [pc EXCEPT ![q] = l]
Set(q, j) == job' = [job EXCEPT ![q] = j]

\* The histories are kept for the requests whose answer reports errors row
\* by row.
Importing(r) == pc[r] # "idle" /\ job[r].mode \notin {"one", "share"}

\* The rows of account a change; q is the request that does it, or none.
Changed(a, q) == dirty' = dirty \cup {r \in Reqs \ q : Importing(r) /\ job[r].acct = a}

Fault(q) ==
    /\ faults < MaxFaults
    /\ faults' = faults + 1
    /\ failed' = failed \cup {r \in {q} : Importing(r)}

-----------------------------------------------------------------------------
(* Accounts.                                                               *)

\* The unique index on username_blind.
UsernameIsFree(n) == \A a \in live : user[a] # n

\* Mutant of InsertAccount: the sequence of ids is not advanced.
InsertAccountSameId(n) ==
    /\ UsernameIsFree(n) /\ lastId < MaxIds
    /\ user' = [user EXCEPT ![lastId + 1] = n]
    /\ UNCHANGED <<lastId, table>>

InsertAccount(n) ==
    /\ UsernameIsFree(n) /\ lastId < MaxIds
    /\ lastId' = lastId + 1
    /\ user' = [user EXCEPT ![lastId'] = n]
    /\ UNCHANGED table

AddEQAccount(n) ==
    /\ InsertAccount(n)
    /\ UNCHANGED <<pc, job, historyVars>>

\* One DELETE; the names of the account go with it.
DeleteEQAccount(a) ==
    /\ a \in live
    /\ user' = [user EXCEPT ![a] = NoName]
    /\ table' = [k \in Kinds |-> {e \in table[k] : e[2] # a}]
    /\ Changed(a, {})
    /\ UNCHANGED <<lastId, pc, job, failed, faults>>

\* RemoveAlias, RemoveTag and RemoveCharacter, one DELETE each.
RemoveName(k, n, a) ==
    /\ n \in NamesOf(k, a)
    /\ table' = [table EXCEPT ![k] = @ \ {<<n, a>>}]
    /\ Changed(a, {})
    /\ UNCHANGED <<lastId, user, pc, job, failed, faults>>

-----------------------------------------------------------------------------
(* Requests that add names.                                                *)

\* An alias that spells the username is neither added nor removed by an
\* import.
Theirs(k, row, names) == IF k = "alias" THEN names \ {row.user} ELSE names
Wanted(k, row) == Theirs(k, row, row[k])

Begin(q, j, l) ==
    /\ pc[q] = "idle"
    /\ Goto(q, l) /\ Set(q, j)
    /\ dirty' = dirty \ {q} /\ failed' = failed \ {q}
    /\ UNCHANGED <<dbVars, faults>>

\* AddAlias, AddTag or AddCharacter: one name for the account with that id,
\* whether or not it still exists.
AddName(q, k, n, a) ==
    Begin(q, [NoJob EXCEPT !.acct = a, !.kind = k, !.todo = {n}], "add")

\* POST .../aliases, tags or characters; admin_add_alias, _tag, _character.
handleAccountSub(q, k, n, a) == AddName(q, k, n, a)
handleAdmin(q, k, n, a) == AddName(q, k, n, a)

\* Where the names of a row begin.
FirstStep(mode) == IF mode = "backup" THEN "load" ELSE "add"
ForAccount(mode, row, a) ==
    [NoJob EXCEPT !.mode = mode, !.row = row, !.acct = a, !.todo = Wanted("alias", row)]

\* A row looks its account up by the username. Rows that are refused here (no
\* password, an unknown role, no owner, a share of somebody else) change
\* nothing and are left out, as are the other columns and their errors.
ImportRow(q, row, mode) ==
    \/ \E a \in live :
        user[a] = row.user /\ Begin(q, ForAccount(mode, row, a), FirstStep(mode))
    \/ /\ \A a \in live : user[a] # row.user
       /\ Begin(q, ForAccount(mode, row, 0), "create")

importSSOAccountsCSV(q, row) == ImportRow(q, row, "csv")
ShareLocalAccount(q, row) == row.restricted /\ ImportRow(q, row, "share")
\* A row of a private account goes through ShareLocalAccount first.
importConfigBackup(q, row) == ImportRow(q, row, IF row.restricted THEN "restore" ELSE "backup")

\* The row ends with an error: nothing else of it is done.
RowFails(q) ==
    /\ Set(q, [job[q] EXCEPT !.errs = TRUE, !.todo = {}])
    /\ Goto(q, "done")

\* The import creates the account, unless somebody else just did.
CreateAccount(q) ==
    /\ pc[q] = "create"
    /\ \/ /\ InsertAccount(job[q].row.user)
          /\ Set(q, [job[q] EXCEPT !.acct = lastId'])
          /\ Goto(q, FirstStep(job[q].mode))
          /\ UNCHANGED historyVars
       \/ /\ \/ ~UsernameIsFree(job[q].row.user) /\ UNCHANGED <<failed, faults>>
             \/ Fault(q)
          /\ RowFails(q)
          /\ UNCHANGED <<dbVars, dirty>>

\* Mutant of OldNames: the names the account has are not looked up.
OldNamesNone(q) == {}

\* GetEQAccountMeta: the names to remove. An error leaves them all.
OldNames(q) == LET j == job[q] IN Theirs(j.kind, j.row, NamesOf(j.kind, j.acct))

LoadNames(q) ==
    /\ pc[q] = "load"
    /\ \/ /\ Set(q, [job[q] EXCEPT !.old = OldNames(q)])
          /\ Goto(q, IF OldNames(q) = {} THEN "add" ELSE "remove")
          /\ UNCHANGED <<failed, faults>>
       \/ /\ Fault(q)
          /\ Goto(q, "add")
          /\ UNCHANGED job
    /\ UNCHANGED <<dbVars, dirty>>

\* replaceAccountAliases, Tags and Characters: an error of a removal is dropped.
RemoveOld(q, n) ==
    LET j == job[q] IN
    /\ pc[q] = "remove" /\ n \in j.old
    /\ Set(q, [j EXCEPT !.old = @ \ {n}])
    /\ Goto(q, IF j.old = {n} THEN "add" ELSE "remove")
    /\ \/ /\ table' = [table EXCEPT ![j.kind] = @ \ {<<n, j.acct>>}]
          /\ Changed(j.acct, {q})
          /\ UNCHANGED <<failed, faults>>
       \/ Fault(q) /\ UNCHANGED <<table, dirty>>
    /\ UNCHANGED <<lastId, user>>

\* Mutant of AfterError: the import drops the error of AddAlias, as
\* share_account does.
AfterErrorSilent(j, n) == [j EXCEPT !.todo = @ \ {n}]

\* A name could not be added: a backup row gives up the rest of the list, a
\* CSV row goes on, and both report it; share_account ignores it, and a
\* request for one name is over.
AfterError(j, n) ==
    CASE j.mode = "backup" -> [j EXCEPT !.todo = {}, !.errs = TRUE]
      [] j.mode = "csv" -> [j EXCEPT !.todo = @ \ {n}, !.errs = TRUE]
      [] OTHER -> [j EXCEPT !.todo = @ \ {n}]

NameFails(q, n) ==
    /\ Set(q, AfterError(job[q], n))
    /\ Goto(q, "add")
    /\ UNCHANGED <<dbVars, dirty>>

\* The accounts that already have the name and stand in the way: for a tag
\* only the account itself.
Holders(k, n, a) == {b \in Ids : <<n, b>> \in table[k] /\ (k = "tag" => b = a)}

\* The first statement of AddAlias, AddTag and AddCharacter. n is the next
\* name of the list.
CheckName(q, n) ==
    LET j == job[q]
        have == Holders(j.kind, n, j.acct) IN
    /\ pc[q] = "add" /\ n \in j.todo
    /\ \/ /\ have = {}
          /\ Set(q, [j EXCEPT !.old = {n}])
          /\ Goto(q, "insert")
          /\ UNCHANGED <<dbVars, historyVars>>
       \/ /\ j.acct \in have
          /\ Set(q, [j EXCEPT !.todo = @ \ {n}])
          /\ UNCHANGED <<dbVars, pc, historyVars>>
       \/ /\ \/ have \notin {{}, {j.acct}} /\ UNCHANGED <<failed, faults>>
             \/ Fault(q)
          /\ NameFails(q, n)

\* Mutants of TablesAccept: no unique index; no foreign key.
TablesAcceptTwice(k, n, a) == a \in live /\ <<n, a>> \notin table[k]
TablesAcceptGone(k, n, a) == Holders(k, n, a) = {}

\* The unique indexes and the foreign key to eq_accounts.
TablesAccept(k, n, a) == a \in live /\ Holders(k, n, a) = {}

InsertName(q, n) ==
    LET j == job[q]
        k == j.kind IN
    /\ pc[q] = "insert" /\ j.old = {n}
    /\ \/ /\ TablesAccept(k, n, j.acct)
          /\ table' = [table EXCEPT ![k] = @ \cup {<<n, j.acct>>}]
          /\ Changed(j.acct, {q})
          /\ Set(q, [j EXCEPT !.todo = @ \ {n}, !.old = {}])
          /\ Goto(q, "add")
          /\ UNCHANGED <<lastId, user, failed, faults>>
       \/ /\ \/ ~TablesAccept(k, n, j.acct) /\ UNCHANGED <<failed, faults>>
             \/ Fault(q)
          /\ Set(q, [AfterError(j, n) EXCEPT !.old = {}])
          /\ Goto(q, "add")
          /\ UNCHANGED <<dbVars, dirty>>

\* The list is done: the next table, or the end.
NextKind(k) == IF k = "alias" THEN "tag" ELSE "character"

ListDone(q) ==
    LET j == job[q]
        start(k) == [j EXCEPT !.kind = k, !.todo = Wanted(k, j.row)] IN
    /\ pc[q] = "add" /\ j.todo = {}
    /\ \/ /\ j.mode \in {"csv", "backup"} /\ j.kind = "character"
          /\ Goto(q, "done")
          /\ UNCHANGED job
       \/ /\ j.mode = "restore"
          /\ Set(q, [start("alias") EXCEPT !.mode = "backup"])
          /\ Goto(q, "load")
       \/ /\ j.mode \in {"csv", "backup"} /\ j.kind # "character"
          /\ Set(q, start(NextKind(j.kind)))
          /\ Goto(q, FirstStep(j.mode))
    /\ UNCHANGED <<dbVars, historyVars>>

\* The request answers (one for a name or share_account when its list is done,
\* an import when it is at its end), or it is abandoned: its client is gone or
\* the daemon stops.
Return(q) ==
    /\ pc[q] # "idle"
    /\ Goto(q, "idle") /\ Set(q, NoJob)
    /\ dirty' = dirty \ {q} /\ failed' = failed \ {q}
    /\ UNCHANGED <<dbVars, faults>>

-----------------------------------------------------------------------------
Next ==
    \/ \E row \in Rows : AddEQAccount(row.user)
    \/ \E a \in Ids : DeleteEQAccount(a) \/ \E e \in Edits : RemoveName(e[1], e[2], a)
    \/ \E q \in Reqs :
        \/ \E e \in Edits, a \in 1..lastId :
            handleAccountSub(q, e[1], e[2], a) \/ handleAdmin(q, e[1], e[2], a)
        \/ \E row \in Rows :
            importSSOAccountsCSV(q, row) \/ ShareLocalAccount(q, row) \/ importConfigBackup(q, row)
        \/ CreateAccount(q) \/ LoadNames(q) \/ ListDone(q) \/ Return(q)
        \/ \E n \in Names : RemoveOld(q, n) \/ CheckName(q, n) \/ InsertName(q, n)

Spec == Init /\ [][Next]_vars

-----------------------------------------------------------------------------
(* Properties.                                                             *)

\* docs/ws-api.md:24,78: a login by username, alias or character means one
\* account. However requests overlap between the question and the insert, no
\* two accounts have the same alias, the same character or the same username.
OneAccountPerName ==
    /\ \A k \in Kinds \ {"tag"} : \A e, f \in table[k] : e[1] = f[1] => e = f
    /\ \A a, b \in live : user[a] = user[b] => a = b

\* docs/ws-api.md:91: names go with their account; a request that was adding
\* one meanwhile does not leave it behind.
NamesHaveAccounts == \A k \in Kinds : \A e \in table[k] : e[2] \in live

\* docs/web-admin.md:88, "upserts accounts and merges aliases/tags/characters":
\* an import that reports no error for a row left all the names of the row on
\* the account, whatever failed on the way, unless somebody else changed the
\* account meanwhile (csv.go:185-202, backup.go:364-372).
SilentImportIsComplete ==
    \A q \in Reqs \ dirty :
        LET j == job[q] IN
        pc[q] = "done" /\ j.mode \in {"csv", "backup"} /\ ~j.errs =>
            \A k \in Kinds : Wanted(k, j.row) \subseteq NamesOf(k, j.acct)

\* A backup row that met neither another request nor a failure leaves exactly
\* the names of the row, but for an alias that spells the username
\* (backup.go:455-505).
BackupRowIsExact ==
    \A q \in Reqs \ (dirty \cup failed) :
        LET j == job[q] IN
        pc[q] = "done" /\ j.mode = "backup" /\ ~j.errs =>
            \A k \in Kinds : Theirs(k, j.row, NamesOf(k, j.acct)) = Wanted(k, j.row)

-----------------------------------------------------------------------------
(* The inductive invariant of the two, proved in AccountNamesProofs: what  *)
(* holds of each table when an import has come to a certain point.         *)

\* The tables that are written before this one.
Earlier(k) == IF k = "alias" THEN {} ELSE IF k = "tag" THEN {"alias"} ELSE {"alias", "tag"}

\* The account has the names of the list that are not among these; it has no
\* others but these.
HasBut(j, k, names) == Wanted(k, j.row) \ names \subseteq NamesOf(k, j.acct)
NoneBut(j, k, names) == Theirs(k, j.row, NamesOf(k, j.acct)) \subseteq names

\* Without an error so far, the tables behind are complete and the current one
\* lacks at most what is still to be added.
ImportInv(q) ==
    LET j == job[q] IN
    pc[q] # "idle" /\ j.mode \in {"csv", "backup"} /\ ~j.errs /\ q \notin dirty =>
        /\ pc[q] = "create" => j.kind = "alias"
        /\ pc[q] = "done" => j.kind = "character" /\ j.todo = {}
        /\ pc[q] \in {"create", "load", "remove"} => j.todo = Wanted(j.kind, j.row)
        /\ pc[q] \in {"add", "insert", "done"} => HasBut(j, j.kind, j.todo)
        /\ j.todo \subseteq Wanted(j.kind, j.row)
        /\ pc[q] = "insert" => j.old \subseteq j.todo
        /\ \A k \in Earlier(j.kind) : HasBut(j, k, {})

\* Without a failure as well, a backup row has left no other names behind, and
\* the current table has none but those it is about to remove.
BackupInv(q) ==
    LET j == job[q] IN
    pc[q] # "idle" /\ j.mode = "backup" /\ ~j.errs /\ q \notin dirty \cup failed =>
        /\ pc[q] = "remove" => NoneBut(j, j.kind, j.old)
        /\ pc[q] \in {"add", "insert", "done"} => NoneBut(j, j.kind, Wanted(j.kind, j.row))
        /\ \A k \in Earlier(j.kind) : NoneBut(j, k, Wanted(k, j.row))

ImportIInv == \A q \in Reqs : ImportInv(q) /\ BackupInv(q)
=============================================================================
