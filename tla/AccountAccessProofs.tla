------------------------- MODULE AccountAccessProofs -------------------------
(***************************************************************************)
(* Proofs about AccountAccess, for every set of users, roles, groups,      *)
(* handlers, requests and patches and any number of rows.                  *)
(*                                                                         *)
(* A step is one of one handler, or of none. What it does to that handler  *)
(* is proved action by action; what it does to the others follows from     *)
(* what a step may do to the row at all (Bystander).                       *)
(***************************************************************************)
EXTENDS AccountAccess, TLAPS

\* The two invariants, for one handler.
HoldsOwn(e) ==
    /\ Hits(e)
    /\ \/ pc[e] = "claim"
       \/ pc[e] \in Writing /\ plan[e] \in SharePlans
       \/ pc[e] = "remove" /\ by[e] # NoUser
    => restricted /\ owner = by[e]
NeverWider(e) ==
    pc[e] \in Wrote /\ Hits(e) /\ restricted /\ e \notin dirty =>
        AllowedNow \subseteq before[e] \cup AllowedBy(TRUE, owner, want[e])

\* Everything that the invariant says of one handler, but for PublisherInv.
HandlerInv(e) ==
    /\ LocalsInv(e) /\ CurrentInv(e) /\ ProgressInv(e) /\ BeforeInv(e)
    /\ HoldsOwn(e) /\ NeverWider(e)

\* The step leaves handler f where it was.
Same(f) ==
    /\ pc'[f] = pc[f] /\ by'[f] = by[f] /\ id'[f] = id[f]
    /\ plan'[f] = plan[f] /\ at'[f] = at[f] /\ want'[f] = want[f]
    /\ inserted'[f] = inserted[f] /\ onError'[f] = onError[f] /\ lost'[f] = lost[f]

\* What a step may do to the row: leave its id and its owner alone, delete it,
\* create it, or publish it for its creator.
RowStep(A) ==
    \/ row' = row /\ restricted' = restricted /\ owner' = owner
    \/ row' = 0
    \/ row = 0 /\ row' = lastRow + 1
    \/ /\ row' = row
       /\ \E e \in A : pc[e] = "publish" /\ Hits(e) /\ restricted' /\ owner' = by[e]

-----------------------------------------------------------------------------
(* Plans and grants.                                                       *)

\* A plan names each table at most once.
LEMMA PlanFacts ==
  ASSUME NEW p \in Plans
  PROVE  /\ Len(p) \in 0..4
         /\ \A i \in 1..Len(p) : p[i] \in Tables
         /\ \A i, j \in 1..Len(p) : p[i] = p[j] => i = j
<1>1. p \in {<<>>, AccessPlan, RolePlan, PublishPlan, UpdatePlan}
    BY DEF Plans, SharePlans
<1>2. CASE p = <<>>
    BY <1>2
<1>3. CASE p = AccessPlan
    BY <1>3 DEF AccessPlan, Tables
<1>4. CASE p = RolePlan
    BY <1>4 DEF RolePlan, Tables
<1>5. CASE p = PublishPlan
    BY <1>5 DEF PublishPlan, Tables
<1>6. CASE p = UpdatePlan
    BY <1>6 DEF UpdatePlan, Tables
<1>7. QED
    BY <1>1, <1>2, <1>3, <1>4, <1>5, <1>6

LEMMA NoGrantsType ==
  NoGrants \in GrantTables
BY DEF NoGrants, GrantTables

LEMMA OnlyType ==
  ASSUME NEW w \in GrantTables, NEW ts
  PROVE  Only(w, ts) \in GrantTables
BY DEF Only, GrantTables

LEMMA MergedType ==
  ASSUME NEW w \in GrantTables, NEW read \in GrantTables, NEW fields
  PROVE  Merged(w, fields, read) \in GrantTables
BY DEF Merged, GrantTables

\* One table is replaced by subjects that it may hold.
LEMMA TableType ==
  ASSUME NEW g \in GrantTables, NEW t \in Tables, NEW S \in SUBSET SubjectsOf[t]
  PROVE  [g EXCEPT ![t] = S] \in GrantTables
<1>1. SubjectsOf[t] \subseteq Users \cup Roles \cup Groups
    BY DEF SubjectsOf, Tables
<1>2. QED
    BY <1>1 DEF GrantTables

\* Only users are ever allowed.
LEMMA AllowedType ==
  AllowedNow \subseteq Users
BY DEF AllowedNow, AllowedBy

\* The histories keep their types.
LEMMA WatchType ==
  ASSUME TypeOK, NEW A, Watch(A)
  PROVE  before' \in [Execs -> SUBSET Users] /\ dirty' \in SUBSET Execs
BY AllowedType DEF TypeOK, Watch

\* What the histories say of the handler that took the step, and of another one.
LEMMA WatchOwn ==
  ASSUME TypeOK, NEW A, Watch(A), NEW e \in Execs, e \in A, pc'[e] # "idle", e \notin dirty'
  PROVE  /\ pc[e] # "idle" => e \notin dirty /\ before'[e] = before[e]
         /\ pc[e] = "idle" => before'[e] = AllowedNow
BY DEF Watch, TypeOK

LEMMA WatchOther ==
  ASSUME TypeOK, NEW A, Watch(A), NEW f \in Execs, f \notin A, pc'[f] = pc[f], pc[f] # "idle",
         f \notin dirty'
  PROVE  /\ f \notin dirty /\ before'[f] = before[f]
         /\ row' = row /\ restricted' = restricted /\ owner' = owner /\ grants' = grants
BY DEF Watch, TypeOK, rowVars

-----------------------------------------------------------------------------
(* What a step does to the handlers that do not take it.                   *)

\* An id that a handler holds names the row after the step only if it did so
\* before: ids are not used twice.
LEMMA HitsOther ==
  ASSUME TypeOK, NEW A, RowStep(A), NEW f \in Execs, id'[f] = id[f], Hits(f)'
  PROVE  Hits(f) /\ row' = row
<1>1. id[f] \in 0..lastRow /\ lastRow \in Nat
    BY AccessAssumption DEF TypeOK
<1>2. row' # 0 /\ id[f] = row' /\ row' # lastRow + 1
    BY <1>1 DEF Hits
<1>3. QED
    BY <1>2 DEF RowStep, Hits

\* Whatever the step does to the row, what the invariant says of a handler that
\* does not take it stays true.
LEMMA Bystander ==
  ASSUME AccessIInv, NEW A \in SUBSET Execs, RowStep(A), Watch(A),
         NEW f \in Execs \ A, Same(f)
  PROVE  HandlerInv(f)'
<1> USE DEF AccessIInv
<1>1. LocalsInv(f) /\ CurrentInv(f) /\ PublisherInv(f) /\ ProgressInv(f) /\ BeforeInv(f)
      /\ HoldsOwn(f) /\ NeverWider(f)
    BY DEF ShareHoldsOwnRow, PrivateIsNeverWider, HoldsOwn, NeverWider
<1>2. LocalsInv(f)'
    BY <1>1 DEF LocalsInv, Same
<1>3. Hits(f)' => Hits(f) /\ row' = row
    BY HitsOther DEF Same
<1>4. ASSUME f \notin dirty', pc[f] # "idle"
      PROVE  /\ f \notin dirty /\ before'[f] = before[f]
             /\ row' = row /\ restricted' = restricted /\ owner' = owner /\ grants' = grants
    BY <1>4, WatchOther DEF Same
<1>5. ASSUME f \notin dirty', pc[f] # "idle"
      PROVE  AllowedNow' = AllowedNow
    BY <1>4, <1>5 DEF AllowedNow
<1>6. CurrentInv(f)' /\ ProgressInv(f)'
  <2>1. CurrentInv(f)'
      BY <1>1, <1>4 DEF CurrentInv, Same
  <2>2. ASSUME pc[f] # "idle", Hits(f)', f \notin dirty'
        PROVE  ProgressInv(f)'
    <3>1. /\ Table(f)' = Table(f) /\ Promised(f)' = Promised(f)
          /\ \A t : Asked(f, t)' = Asked(f, t)
        BY DEF Same, Table, Promised, Asked
    <3>2. QED
        BY <1>1, <1>3, <1>4, <2>2, <3>1 DEF ProgressInv, Same
  <2>3. QED
      BY <2>1, <2>2 DEF ProgressInv, Same, Writing
<1>7. BeforeInv(f)'
    BY <1>1, <1>3, <1>4, <1>5 DEF BeforeInv, Same
<1>8. NeverWider(f)'
  <2>1. SUFFICES ASSUME pc[f] \in Wrote, Hits(f)', restricted', f \notin dirty'
                 PROVE  AllowedNow' \subseteq before'[f] \cup AllowedBy(TRUE, owner', want'[f])
      BY DEF NeverWider, Same
  <2>2. pc[f] # "idle"
      BY <2>1 DEF Wrote, Writing
  <2>3. AllowedNow \subseteq before[f] \cup AllowedBy(TRUE, owner, want[f])
      BY <1>1, <1>3, <1>4, <2>1, <2>2 DEF NeverWider
  <2>4. QED
      BY <1>4, <1>5, <2>1, <2>2, <2>3 DEF Same
<1>9. HoldsOwn(f)'
  <2>1. SUFFICES ASSUME Hits(f)', Hits(f), row' = row, restricted, owner = by[f]
                 PROVE  restricted' /\ owner' = by[f]
      BY <1>1, <1>3 DEF HoldsOwn, Same
  <2>2. CASE restricted' = restricted /\ owner' = owner
      BY <2>1, <2>2
  <2>3. ASSUME NEW e \in A, pc[e] = "publish", Hits(e) PROVE FALSE
      BY <2>1, <2>3 DEF PublisherInv
  <2>4. row' # 0 /\ row # 0
      BY <2>1 DEF Hits
  <2>5. QED
      BY <2>1, <2>2, <2>3, <2>4 DEF RowStep
<1>10. QED
    BY <1>2, <1>6, <1>7, <1>8, <1>9 DEF HandlerInv

\* Nobody but its creator is going to publish a row.
LEMMA Publishers ==
  ASSUME AccessIInv, NEW A \in SUBSET Execs, RowStep(A),
         \A e, f \in A : e = f,
         \A f \in Execs \ A : Same(f),
         \A e \in A : pc'[e] = "publish" =>
            row = 0 /\ row' = lastRow + 1 /\ restricted' = restricted /\ id'[e] = row',
         NEW f \in Execs
  PROVE  PublisherInv(f)'
<1> USE DEF AccessIInv
<1> SUFFICES ASSUME pc'[f] = "publish", Hits(f)'
             PROVE  ~restricted' /\ \A e \in Execs : pc'[e] = "publish" /\ Hits(e)' => e = f
    BY DEF PublisherInv
<1>1. CASE f \in A
  <2>1. row = 0 /\ row' = lastRow + 1 /\ ~restricted'
      BY <1>1 DEF RowInv
  <2>2. ASSUME NEW e \in Execs \ A, Hits(e)' PROVE FALSE
    <3>1. id'[e] = id[e] /\ id[e] \in 0..lastRow
        BY DEF Same, TypeOK
    <3>2. QED
        BY <2>1, <2>2, <3>1, AccessAssumption DEF Hits, TypeOK
  <2>3. QED
      BY <1>1, <2>1, <2>2
<1>2. CASE f \notin A
  <2>1. pc[f] = "publish" /\ Hits(f) /\ row' = row /\ row # 0
      BY <1>2, HitsOther DEF Same, Hits
  <2>2. ~restricted /\ \A e \in Execs : pc[e] = "publish" /\ Hits(e) => e = f
      BY <2>1 DEF PublisherInv
  <2>3. ~restricted'
      BY <1>2, <2>1, <2>2 DEF RowStep, Hits
  <2>4. ASSUME NEW e \in Execs, pc'[e] = "publish", Hits(e)' PROVE e = f
    <3>1. e \notin A
        BY <2>1, <2>4
    <3>2. pc[e] = "publish" /\ Hits(e)
        BY <2>4, <3>1, HitsOther DEF Same
    <3>3. QED
        BY <2>2, <3>2
  <2>5. QED
      BY <2>3, <2>4
<1>3. QED
    BY <1>1, <1>2

\* A step keeps the invariant when it keeps the types, what is said of the row
\* and what is said of the handler that takes it.
LEMMA Assemble ==
  ASSUME AccessIInv, NEW A \in SUBSET Execs, RowStep(A), Watch(A),
         \A e, f \in A : e = f,
         \A f \in Execs \ A : Same(f),
         \A e \in A : pc'[e] = "publish" =>
            row = 0 /\ row' = lastRow + 1 /\ restricted' = restricted /\ id'[e] = row',
         \A e \in A : HandlerInv(e)',
         TypeOK', RowInv'
  PROVE  AccessIInv'
<1>1. \A f \in Execs : HandlerInv(f)'
    BY Bystander
<1>2. \A f \in Execs : PublisherInv(f)'
    BY Publishers
<1>3. ShareHoldsOwnRow' /\ PrivateIsNeverWider'
    BY <1>1 DEF HandlerInv, ShareHoldsOwnRow, PrivateIsNeverWider, HoldsOwn, NeverWider
<1>4. QED
    BY <1>1, <1>2, <1>3 DEF AccessIInv, HandlerInv

-----------------------------------------------------------------------------
(* Steps that leave the row alone.                                         *)

\* One handler takes a step of its own.
LEMMA SameExcept ==
  ASSUME TypeOK, NEW e \in Execs,
         NEW p, pc' = [pc EXCEPT ![e] = p], NEW b, by' = [by EXCEPT ![e] = b],
         NEW i, id' = [id EXCEPT ![e] = i], NEW q, plan' = [plan EXCEPT ![e] = q],
         NEW a, at' = [at EXCEPT ![e] = a], NEW w, want' = [want EXCEPT ![e] = w],
         NEW x, inserted' = [inserted EXCEPT ![e] = x],
         NEW m, onError' = [onError EXCEPT ![e] = m], NEW l, lost' = [lost EXCEPT ![e] = l],
         NEW f \in Execs \ {e}
  PROVE  Same(f)
BY DEF TypeOK, Same

\* The handler is over; it may have deleted the row.
LEMMA ReturnKeeps ==
  ASSUME AccessIInv, NEW e \in Execs, Return(e), Watch({e}),
         UNCHANGED <<lastRow, groups>>, UNCHANGED rowVars \/ DeleteRow
  PROVE  AccessIInv'
<1> USE DEF AccessIInv
<1>1. \A f \in Execs \ {e} : Same(f)
    BY SameExcept DEF Return
<1>2. pc'[e] = "idle" /\ inserted'[e] = {} /\ onError'[e] = "fail"
    BY DEF Return, TypeOK
<1>3. HandlerInv(e)'
    BY <1>2 DEF HandlerInv, LocalsInv, CurrentInv, ProgressInv, BeforeInv, HoldsOwn, NeverWider,
       Wrote, Writing
<1>4. RowStep({e}) /\ RowInv'
    BY DEF RowStep, RowInv, rowVars, DeleteRow
<1>5. TypeOK'
  <2>1. before' \in [Execs -> SUBSET Users] /\ dirty' \in SUBSET Execs
      BY WatchType
  <2>2. /\ grants' \in GrantTables /\ owner' \in Users \cup {NoUser} /\ restricted' \in BOOLEAN
        /\ row' \in 0..lastRow /\ lastRow \in Nat
    <3>1. lastRow \in Nat
        BY AccessAssumption DEF TypeOK
    <3>2. CASE UNCHANGED rowVars
        BY <3>1, <3>2 DEF TypeOK, rowVars
    <3>3. CASE DeleteRow
      <4>1. restricted' \in BOOLEAN /\ grants' \in GrantTables /\ owner' \in Users \cup {NoUser}
          BY <3>3, NoGrantsType, Zenon DEF DeleteRow
      <4>2. QED
          BY <3>1, <3>3, <4>1 DEF DeleteRow
    <3>4. QED
        BY <3>2, <3>3
  <2>3. want' \in [Execs -> GrantTables]
      BY NoGrantsType DEF TypeOK, Return
  <2>4. id' \in [Execs -> 0..lastRow] /\ at' \in [Execs -> 1..4]
      BY <2>2 DEF TypeOK, Return
  <2>5. onError' \in [Execs -> {"fail", "ignore", "again"}] /\ lost' \in [Execs -> SUBSET Tables]
      BY DEF TypeOK, Return
  <2>6. QED
      BY <2>1, <2>2, <2>3, <2>4, <2>5 DEF TypeOK, Return, Plans
<1>6. QED
    BY <1>1, <1>2, <1>3, <1>4, <1>5, Assemble

\* A handler begins and goes to a step before its first write.
LEMMA StartKeeps ==
  ASSUME AccessIInv, NEW e \in Execs, NEW u \in Users \cup {NoUser}, NEW w \in GrantTables,
         NEW p \in {"own", "create", "unshareOwn", "remove", "add", "delete"},
         p = "remove" => u = NoUser, p = "add" => row = 0,
         Start(e, u, row, w, p),
         NEW tables \in {AccessPlan, RolePlan}, NEW mode \in {"fail", "again"},
         mode = "again" => tables = AccessPlan, NEW l \in SUBSET Tables,
         \/ NoPlan /\ p \notin {"add", "delete"}
         \/ Follow(e, tables, mode, l) /\ p \in {"add", "delete"},
         UNCHANGED <<rowVars, lastRow, groups>>, Watch({e})
  PROVE  AccessIInv'
<1> USE DEF AccessIInv
<1>1. PICK q, a, m, k :
        /\ plan' = [plan EXCEPT ![e] = q] /\ at' = [at EXCEPT ![e] = a]
        /\ onError' = [onError EXCEPT ![e] = m] /\ lost' = [lost EXCEPT ![e] = k]
        /\ q \in Plans /\ a \in 1..4 /\ m \in {"fail", "again"} /\ k \in SUBSET Tables
        /\ m = "again" => q = AccessPlan
        /\ p \in {"add", "delete"} => q \in {AccessPlan, RolePlan} /\ a = 1
        /\ p \notin {"add", "delete"} => m = "fail"
  <2>1. CASE NoPlan /\ p \notin {"add", "delete"}
    <3>1. /\ plan' = [plan EXCEPT ![e] = plan[e]] /\ at' = [at EXCEPT ![e] = at[e]]
          /\ onError' = [onError EXCEPT ![e] = onError[e]]
          /\ lost' = [lost EXCEPT ![e] = lost[e]]
        BY <2>1 DEF NoPlan, TypeOK
    <3>2. plan[e] \in Plans /\ at[e] \in 1..4 /\ lost[e] \in SUBSET Tables
        BY DEF TypeOK
    <3>3. pc[e] = "idle" /\ onError[e] = "fail"
        BY DEF Start, LocalsInv, Wrote, Writing
    <3>4. QED
        BY <2>1, <3>1, <3>2, <3>3
  <2>2. CASE Follow(e, tables, mode, l) /\ p \in {"add", "delete"}
    <3>1. 1 \in 1..4 /\ AccessPlan \in Plans /\ RolePlan \in Plans
        BY DEF Plans
    <3>2. QED
        BY <2>2, <3>1, Zenon DEF Follow
  <2>3. QED
      BY <2>1, <2>2
<1>2. inserted' = [inserted EXCEPT ![e] = inserted[e]]
    BY DEF Start, TypeOK
<1>3. \A f \in Execs \ {e} : Same(f)
    BY <1>1, <1>2, SameExcept DEF Start
<1>4. /\ pc[e] = "idle" /\ pc'[e] = p /\ inserted'[e] = {} /\ plan'[e] = q /\ at'[e] = a
      /\ want'[e] = w /\ id'[e] = row /\ by'[e] = u /\ onError'[e] = m
    BY <1>1 DEF Start, TypeOK, LocalsInv
<1>5. RowStep({e}) /\ RowInv'
    BY DEF RowStep, RowInv, rowVars
<1>6. TypeOK'
  <2>1. onError' \in [Execs -> {"fail", "ignore", "again"}] /\ lost' \in [Execs -> SUBSET Tables]
      BY <1>1 DEF TypeOK
  <2>2. pc' \in [Execs -> {"idle", "own", "create", "publish", "claim", "add",
                           "unshareOwn", "remove"} \cup Wrote]
      BY DEF TypeOK, Start, Wrote, Writing
  <2>3. QED
      BY <1>1, <2>1, <2>2, WatchType DEF TypeOK, Start, rowVars
<1>7. /\ AllowedNow' = AllowedNow
      /\ e \notin dirty' => before'[e] = AllowedNow
    BY <1>4, WatchOwn DEF AllowedNow, rowVars
<1>8. HandlerInv(e)'
  <2>1. LocalsInv(e)'
    <3>1. p = "delete" => 1 <= Len(q)
        BY <1>1 DEF AccessPlan, RolePlan
    <3>2. QED
        BY <1>1, <1>4, <3>1 DEF LocalsInv, Wrote, Writing
  <2>2. ProgressInv(e)'
      BY <1>1, <1>4 DEF ProgressInv, Writing
  <2>3. BeforeInv(e)' /\ CurrentInv(e)'
      BY <1>4, <1>7 DEF BeforeInv, CurrentInv, rowVars
  <2>4. HoldsOwn(e)'
    <3>1. AccessPlan \notin SharePlans /\ RolePlan \notin SharePlans
        BY DEF AccessPlan, RolePlan, SharePlans, PublishPlan, UpdatePlan
    <3>2. QED
        BY <1>1, <1>4, <3>1 DEF HoldsOwn, Writing
  <2>5. NeverWider(e)'
      BY <1>7 DEF NeverWider
  <2>6. QED
      BY <2>1, <2>2, <2>3, <2>4, <2>5 DEF HandlerInv
<1>9. pc'[e] # "publish"
    BY <1>4
<1>10. QED
    BY <1>3, <1>5, <1>6, <1>8, <1>9, Assemble

\* share_account and unshare_account ask whose row it is.
LEMMA OwnKeeps ==
  ASSUME AccessIInv, NEW e \in Execs, ShareOwn(e) \/ UnshareOwn(e)
  PROVE  AccessIInv'
<1> USE DEF AccessIInv
<1>1. UNCHANGED <<rowVars, lastRow, groups>> /\ Watch({e})
    BY DEF ShareOwn, UnshareOwn
<1>2. CASE Return(e)
    BY <1>1, <1>2, ReturnKeeps
<1>3. ASSUME NEW p \in {"claim", "remove"}, IsOwn(e), pc' = [pc EXCEPT ![e] = p],
             p = "claim" => pc[e] = "own", pc[e] \in {"own", "unshareOwn"},
             NoPlan, UNCHANGED <<by, id, want, inserted>>
      PROVE  AccessIInv'
  <2>1. \A f \in Execs \ {e} : Same(f)
      BY <1>3 DEF TypeOK, Same, NoPlan
  <2>2. /\ pc'[e] = p /\ inserted'[e] = {} /\ onError'[e] = "fail"
      BY <1>3 DEF TypeOK, LocalsInv, NoPlan, Wrote, Writing
  <2>3. RowStep({e}) /\ RowInv'
      BY <1>1 DEF RowStep, RowInv, rowVars
  <2>4. TypeOK'
      BY <1>1, <1>3, WatchType DEF TypeOK, rowVars, NoPlan
  <2>5. /\ AllowedNow' = AllowedNow
        /\ e \notin dirty' => e \notin dirty /\ before'[e] = before[e]
    <3>1. AllowedNow' = AllowedNow
        BY <1>1 DEF AllowedNow, rowVars
    <3>2. QED
        BY <1>1, <1>3, <2>2, <3>1, WatchOwn
  <2>6. HandlerInv(e)'
    <3>1. LocalsInv(e)' /\ ProgressInv(e)' /\ NeverWider(e)'
        BY <2>2 DEF LocalsInv, ProgressInv, NeverWider, Wrote, Writing
    <3>2. Hits(e) /\ restricted' /\ owner' = by'[e]
        BY <1>1, <1>3 DEF IsOwn, rowVars
    <3>3. HoldsOwn(e)'
        BY <3>2 DEF HoldsOwn
    <3>4. BeforeInv(e)'
        BY <1>3, <2>2, <2>5, <3>2 DEF BeforeInv
    <3>5. CurrentInv(e)'
        BY <1>1, <1>3, <3>2 DEF CurrentInv, Hits, rowVars
    <3>6. QED
        BY <3>1, <3>3, <3>4, <3>5 DEF HandlerInv
  <2>7. pc'[e] # "publish"
      BY <2>2
  <2>8. QED
      BY <1>1, <2>1, <2>3, <2>4, <2>6, <2>7, Assemble
<1>4. QED
    BY <1>2, <1>3 DEF ShareOwn, UnshareOwn

\* What a handler in mode m writes to a table.
AskedIn(e, m, t) == IF m = "again" /\ t = "links" THEN {} ELSE want[e][t]

\* A handler that has begun to write leaves the table it is at: for another
\* table, for the second pass or for its answer. It may have the id of the row
\* looked up again, and it answers for the tables that it has not lost.
Turns(e) ==
    /\ pc[e] \in Wrote \cup {"add"}
    /\ pc' = [pc EXCEPT ![e] = pc'[e]] /\ pc'[e] \in {"delete", "again", "done"}
    /\ plan' = [plan EXCEPT ![e] = plan'[e]] /\ plan'[e] \in Plans
    /\ at' = [at EXCEPT ![e] = at'[e]] /\ at'[e] \in 1..4
    /\ onError' = [onError EXCEPT ![e] = onError'[e]]
    /\ onError'[e] \in {"fail", "ignore", "again"}
    /\ lost' = [lost EXCEPT ![e] = lost'[e]] /\ lost'[e] \in SUBSET Tables
    /\ id' = [id EXCEPT ![e] = id'[e]] /\ id'[e] \in {id[e], row}
    /\ inserted' = [inserted EXCEPT ![e] = {}]
    /\ UNCHANGED <<by, want, rowVars, lastRow, groups>>
    /\ Watch({e})

\* Where it turns to, its plan and its mode fit together.
Fits(e) ==
    /\ pc'[e] = "delete" => /\ at'[e] <= Len(plan'[e])
                            /\ \/ plan'[e] \notin SharePlans
                               \/ pc[e] \in Writing /\ plan'[e] = plan[e] /\ id'[e] = id[e]
    /\ pc'[e] = "again" => onError'[e] = "again"
    /\ pc'[e] = "done" => onError'[e] # "again"
    /\ onError'[e] = "again" => plan'[e] = AccessPlan

\* The tables that it leaves behind and has not lost hold what was asked for.
Through(e) ==
    pc[e] # "add" /\ Hits(e) /\ e \notin dirty =>
        \A j \in 1..Len(plan'[e]) :
            (pc'[e] = "delete" => j < at'[e]) /\ plan'[e][j] \notin lost'[e] =>
                grants[plan'[e][j]] = AskedIn(e, onError'[e], plan'[e][j])

LEMMA TurnKeeps ==
  ASSUME AccessIInv, NEW e \in Execs, Turns(e), Fits(e), Through(e)
  PROVE  AccessIInv'
<1> USE DEF AccessIInv
<1>1. \A f \in Execs \ {e} : Same(f)
    BY DEF TypeOK, Same, Turns
<1>2. Len(plan'[e]) \in 0..4 /\ at'[e] \in 1..4
    BY PlanFacts DEF Turns
<1>3. inserted'[e] = {} /\ want'[e] = want[e] /\ by'[e] = by[e]
    BY DEF TypeOK, Turns
<1>4. RowStep({e}) /\ RowInv'
    BY DEF RowStep, RowInv, rowVars, Turns
<1>5. TypeOK'
  <2>1. before' \in [Execs -> SUBSET Users] /\ dirty' \in SUBSET Execs
      BY WatchType DEF Turns
  <2>2. id' \in [Execs -> 0..lastRow]
      BY DEF TypeOK, Turns
  <2>3. pc' \in [Execs -> {"idle", "own", "create", "publish", "claim", "add",
                           "unshareOwn", "remove"} \cup Wrote]
      BY DEF TypeOK, Turns, Wrote, Writing
  <2>4. plan' \in [Execs -> Plans] /\ at' \in [Execs -> 1..4]
      BY DEF TypeOK, Turns
  <2>5. onError' \in [Execs -> {"fail", "ignore", "again"}] /\ lost' \in [Execs -> SUBSET Tables]
      BY DEF TypeOK, Turns
  <2>6. QED
      BY <2>1, <2>2, <2>3, <2>4, <2>5 DEF TypeOK, Turns, rowVars
<1>6. AllowedNow' = AllowedNow /\ row' = row /\ owner' = owner /\ restricted' = restricted
      /\ grants' = grants
    BY DEF AllowedNow, rowVars, Turns
<1>7. e \notin dirty' => /\ e \notin dirty /\ before'[e] = before[e]
                         /\ id[e] = row /\ id'[e] = row
  <2>1. pc[e] # "idle" /\ pc'[e] # "idle" /\ id'[e] \in {id[e], row} /\ Watch({e})
      BY DEF Wrote, Writing, Turns
  <2>2. QED
      BY <2>1, WatchOwn DEF CurrentInv
<1>8. e \notin dirty' /\ Hits(e)' => Hits(e) /\ pc[e] # "add"
    BY <1>6, <1>7 DEF Hits, LocalsInv
<1>9. LocalsInv(e)' /\ CurrentInv(e)' /\ BeforeInv(e)'
    BY <1>3, <1>6, <1>7 DEF LocalsInv, CurrentInv, BeforeInv, Wrote, Writing, Turns, Fits
<1>10. ProgressInv(e)'
  <2>1. SUFFICES ASSUME Hits(e)', e \notin dirty'
                 PROVE  ProgressInv(e)'
      BY DEF ProgressInv
  <2>2. \A t : Asked(e, t)' = AskedIn(e, onError'[e], t)
      BY <1>3 DEF Asked, AskedIn
  <2>3. ASSUME NEW j \in 1..Len(plan'[e]), pc'[e] = "delete" => j < at'[e],
               plan'[e][j] \notin lost'[e]
        PROVE  grants'[plan'[e][j]] = Asked(e, plan[e][j])'
    <3>1. pc[e] # "add" /\ Hits(e) /\ e \notin dirty
        BY <1>7, <1>8, <2>1
    <3>2. grants[plan'[e][j]] = AskedIn(e, onError'[e], plan'[e][j])
        BY <2>3, <3>1 DEF Through
    <3>3. Asked(e, plan[e][j])' = AskedIn(e, onError'[e], plan'[e][j])
        BY <1>3 DEF Asked, AskedIn
    <3>4. QED
        BY <1>6, <3>2, <3>3
  <2>4. CASE pc'[e] = "delete"
    <3>1. \A j \in 1..(at'[e] - 1) : j \in 1..Len(plan'[e]) /\ j < at'[e]
        BY <1>2, <2>4 DEF Fits
    <3>2. \A j \in 1..(at'[e] - 1) : plan'[e][j] \notin lost'[e] =>
            grants'[plan'[e][j]] = Asked(e, plan[e][j])'
        BY <2>3, <3>1
    <3>3. QED
        BY <1>3, <2>4, <3>2 DEF ProgressInv
  <2>5. CASE pc'[e] # "delete"
    <3>1. pc'[e] \in {"again", "done"}
        BY <2>5 DEF Turns
    <3>2. ASSUME NEW t \in Promised(e)' PROVE grants'[t] = Asked(e, t)'
      <4>1. PICK j \in 1..Len(plan'[e]) : t = plan'[e][j] /\ t \notin lost'[e]
          BY <3>2 DEF Promised
      <4>2. grants'[t] = Asked(e, plan[e][j])'
          BY <2>3, <2>5, <4>1
      <4>3. QED
          BY <4>1, <4>2 DEF Asked
    <3>3. QED
        BY <3>1, <3>2 DEF ProgressInv, Writing
  <2>6. QED
      BY <2>4, <2>5
<1>11. HoldsOwn(e)'
    BY <1>3, <1>6 DEF HoldsOwn, ShareHoldsOwnRow, Hits, Writing, Turns, Fits
<1>12. NeverWider(e)'
  <2>1. SUFFICES ASSUME Hits(e)', restricted, e \notin dirty'
                 PROVE  AllowedNow' \subseteq before'[e] \cup AllowedBy(TRUE, owner', want'[e])
      BY <1>6 DEF NeverWider
  <2>2. AllowedNow \subseteq before[e] \cup AllowedBy(TRUE, owner, want[e])
      BY <1>7, <1>8, <2>1 DEF PrivateIsNeverWider, Turns
  <2>3. QED
      BY <1>3, <1>6, <1>7, <2>1, <2>2
<1>13. HandlerInv(e)' /\ pc'[e] # "publish"
    BY <1>9, <1>10, <1>11, <1>12 DEF HandlerInv, Turns
<1>14. QED
    BY <1>1, <1>4, <1>5, <1>13, Assemble DEF Turns

\* What is known of a handler that has begun to write.
LEMMA WriterFacts ==
  ASSUME AccessIInv, NEW e \in Execs
  PROVE  /\ plan[e] \in Plans /\ at[e] \in 1..4 /\ Len(plan[e]) \in 0..4
         /\ onError[e] \in {"fail", "ignore", "again"} /\ lost[e] \in SUBSET Tables
         /\ plan = [plan EXCEPT ![e] = plan[e]] /\ at = [at EXCEPT ![e] = at[e]]
         /\ id = [id EXCEPT ![e] = id[e]] /\ onError = [onError EXCEPT ![e] = onError[e]]
         /\ lost = [lost EXCEPT ![e] = lost[e]] /\ inserted = [inserted EXCEPT ![e] = inserted[e]]
         /\ onError[e] = "again" => plan[e] = AccessPlan
         /\ pc[e] \in Writing => at[e] <= Len(plan[e])
         /\ \A t : Asked(e, t) = AskedIn(e, onError[e], t)
<1>1. plan[e] \in Plans
    BY DEF AccessIInv, TypeOK
<1>2. QED
    BY <1>1, PlanFacts DEF AccessIInv, TypeOK, LocalsInv, Asked, AskedIn

\* The tables that a handler is through with, and the one it is at when that is
\* done, hold what was asked for unless they are lost.
LEMMA ThroughFacts ==
  ASSUME AccessIInv, NEW e \in Execs, pc[e] \in Writing, Hits(e), e \notin dirty,
         NEW l, lost[e] \subseteq l, NEW j \in 1..Len(plan[e]), plan[e][j] \notin l,
         j < at[e] \/ (j = at[e] /\ TableDone(e))
  PROVE  grants[plan[e][j]] = AskedIn(e, onError[e], plan[e][j])
<1>1. /\ pc[e] = "insert" => grants[Table(e)] = inserted[e]
      /\ inserted[e] \subseteq Asked(e, Table(e))
      /\ j \in 1..(at[e] - 1) => grants[plan[e][j]] = Asked(e, plan[e][j])
    BY DEF AccessIInv, ProgressInv
<1>2. CASE j < at[e]
    BY <1>1, <1>2, WriterFacts
<1>3. CASE j = at[e] /\ TableDone(e)
  <2>1. inserted[e] = Asked(e, Table(e)) /\ grants[Table(e)] = inserted[e]
      BY <1>1, <1>3 DEF TableDone
  <2>2. grants[plan[e][j]] = Asked(e, plan[e][j])
      BY <1>3, <2>1 DEF Table
  <2>3. QED
      BY <2>2, WriterFacts
<1>4. QED
    BY <1>2, <1>3

LEMMA NextTableKeeps ==
  ASSUME AccessIInv, NEW e \in Execs, NextTable(e)
  PROVE  AccessIInv'
<1>0. /\ pc[e] \in Writing /\ pc[e] \in Wrote \cup {"add"} /\ UNCHANGED <<plan, onError, lost>>
      /\ TableDone(e)
    BY DEF NextTable, GoOn, Finish, TableDone, Wrote, Writing
<1>1. CASE at[e] < Len(plan[e])
  <2>0. /\ pc'[e] = "delete" /\ at'[e] = at[e] + 1 /\ id'[e] = id[e]
      BY <1>1 DEF NextTable, GoOn, AccessIInv, TypeOK
  <2>1. /\ pc'[e] = "delete" /\ at'[e] = at[e] + 1
        /\ at'[e] \in 1..4 /\ at'[e] <= Len(plan[e]) /\ id'[e] = id[e]
    <3>1. at[e] \in 1..4 /\ Len(plan[e]) \in 0..4
        BY WriterFacts
    <3>2. \A m \in 1..4, n \in 0..4 : m < n => m + 1 \in 1..4 /\ m + 1 <= n
        OBVIOUS
    <3>3. at[e] + 1 \in 1..4 /\ at[e] + 1 <= Len(plan[e])
        BY <1>1, <3>1, <3>2
    <3>4. QED
        BY <2>0, <3>3, Zenon
  <2>2. Turns(e)
      BY <1>0, <1>1, <2>1, WriterFacts DEF Turns, NextTable, GoOn, AccessIInv, TypeOK
  <2>3. Fits(e)
      BY <1>0, <2>1, WriterFacts DEF Fits
  <2>4. Through(e)
      BY <1>0, <2>1, WriterFacts, ThroughFacts DEF Through
  <2>5. QED
      BY <2>2, <2>3, <2>4, TurnKeeps
<1>2. CASE ~(at[e] < Len(plan[e]))
  <2>0. at[e] \in 1..4 /\ Len(plan[e]) \in 0..4 /\ at[e] <= Len(plan[e])
      BY <1>0, WriterFacts
  <2>1. /\ pc'[e] = IF onError[e] = "again" THEN "again" ELSE "done"
        /\ at'[e] = at[e] /\ at[e] = Len(plan[e])
      BY <1>2, <2>0 DEF NextTable, Finish, AccessIInv, TypeOK
  <2>2. Turns(e)
      BY <1>0, <1>2, <2>1, WriterFacts DEF Turns, NextTable, Finish, AccessIInv, TypeOK
  <2>3. Fits(e)
      BY <1>0, <2>1, WriterFacts DEF Fits
  <2>4. Through(e)
      BY <1>0, <2>1, WriterFacts, ThroughFacts DEF Through
  <2>5. QED
      BY <2>2, <2>3, <2>4, TurnKeeps
<1>3. QED
    BY <1>1, <1>2

LEMMA UsersFailKeeps ==
  ASSUME AccessIInv, NEW e \in Execs, UsersFailUnseen(e)
  PROVE  AccessIInv'
<1>0. /\ pc[e] \in Writing /\ pc[e] \in Wrote \cup {"add"} /\ UNCHANGED <<plan, onError>>
      /\ Table(e) = "users" /\ plan[e] = UpdatePlan
    BY DEF UsersFailUnseen, GoOn, Wrote
<1>1. at[e] < Len(plan[e])
  <2>1. at[e] \in 1..Len(plan[e]) /\ Len(plan[e]) = 4 /\ plan[e][at[e]] = "users"
      BY <1>0, WriterFacts DEF UpdatePlan, Table
  <2>2. QED
      BY <1>0, <2>1 DEF UpdatePlan
<1>2. /\ pc'[e] = "delete" /\ at'[e] = at[e] + 1 /\ lost'[e] = lost[e] \cup {"users"}
      /\ at'[e] \in 1..4 /\ at'[e] <= Len(plan[e]) /\ id'[e] = id[e]
  <2>1. at[e] \in 1..4 /\ Len(plan[e]) \in 0..4
      BY WriterFacts
  <2>2. /\ pc'[e] = "delete" /\ at'[e] = at[e] + 1 /\ lost'[e] = lost[e] \cup {"users"}
        /\ id'[e] = id[e]
      BY DEF UsersFailUnseen, GoOn, AccessIInv, TypeOK
  <2>3. \A m \in 1..4, n \in 0..4 : m < n => m + 1 \in 1..4 /\ m + 1 <= n
      OBVIOUS
  <2>4. at[e] + 1 \in 1..4 /\ at[e] + 1 <= Len(plan[e])
      BY <1>1, <2>1, <2>3
  <2>5. QED
      BY <2>2, <2>4, Zenon
<1>3. lost'[e] \in SUBSET Tables
    BY <1>2, WriterFacts DEF Tables
<1>4. Turns(e)
    BY <1>0, <1>2, <1>3, WriterFacts DEF Turns, UsersFailUnseen, GoOn, AccessIInv, TypeOK
<1>5. Fits(e)
    BY <1>0, <1>2, WriterFacts DEF Fits
<1>6. Through(e)
  <2> SUFFICES ASSUME Hits(e), e \notin dirty, NEW j \in 1..Len(plan[e]), j < at[e] + 1,
                      plan[e][j] \notin lost[e] \cup {"users"}
               PROVE  grants[plan[e][j]] = AskedIn(e, onError[e], plan[e][j])
      BY <1>0, <1>2 DEF Through
  <2>1. j < at[e]
      BY <1>0, WriterFacts DEF Table
  <2>2. QED
      BY <1>0, <2>1, ThroughFacts
<1>7. QED
    BY <1>4, <1>5, <1>6, TurnKeeps

\* A statement fails: the handler is over, or has lost what it had still to do.
LEMMA FailKeeps ==
  ASSUME AccessIInv, NEW e \in Execs, pc[e] \notin {"idle", "again", "done"}, Fail(e),
         UNCHANGED <<rowVars, lastRow, groups>>, Watch({e})
  PROVE  AccessIInv'
<1>1. CASE onError[e] = "fail"
    BY <1>1, ReturnKeeps DEF Fail
<1>2. CASE onError[e] # "fail"
  <2>1. pc[e] \in Writing \cup {"add"} /\ pc[e] \in Wrote \cup {"add"}
      BY <1>2 DEF AccessIInv, LocalsInv, Wrote
  <2>2. /\ pc'[e] = IF onError[e] = "again" THEN "again" ELSE "done"
        /\ lost'[e] = lost[e] \cup {plan[e][i] : i \in at[e]..Len(plan[e])}
        /\ UNCHANGED <<by, id, plan, at, want, onError>>
      BY <1>2 DEF Fail, AccessIInv, TypeOK
  <2>3. lost'[e] \in SUBSET Tables
    <3>1. \A i \in at[e]..Len(plan[e]) : i \in 1..Len(plan[e])
        BY WriterFacts
    <3>2. \A i \in at[e]..Len(plan[e]) : plan[e][i] \in Tables
        BY <3>1, WriterFacts, PlanFacts
    <3>3. QED
        BY <2>2, <3>2, WriterFacts
  <2>4. Turns(e)
    <3>1. /\ pc' = [pc EXCEPT ![e] = pc'[e]] /\ lost' = [lost EXCEPT ![e] = lost'[e]]
          /\ inserted' = [inserted EXCEPT ![e] = {}]
        BY <1>2, <2>2 DEF Fail
    <3>2. QED
        BY <2>1, <2>2, <2>3, <3>1, WriterFacts DEF Turns
  <2>5. Fits(e)
      BY <2>2, WriterFacts DEF Fits
  <2>6. Through(e)
    <3> SUFFICES ASSUME pc[e] # "add", Hits(e), e \notin dirty, NEW j \in 1..Len(plan[e]),
                        plan[e][j] \notin lost'[e]
                 PROVE  grants[plan[e][j]] = AskedIn(e, onError[e], plan[e][j])
        BY <2>2 DEF Through
    <3>1. j < at[e]
      <4>1. ~(j \in at[e]..Len(plan[e]))
          BY <2>2
      <4>2. QED
          BY <4>1, WriterFacts
    <3>2. lost[e] \subseteq lost'[e]
        BY <2>2
    <3>3. QED
        BY <2>1, <3>1, <3>2, ThroughFacts
  <2>7. QED
      BY <2>4, <2>5, <2>6, TurnKeeps
<1>3. QED
    BY <1>1, <1>2

\* The second pass of the backup import finds the row, or skips it.
LEMMA ImportAgainKeeps ==
  ASSUME AccessIInv, NEW e \in Execs, ImportAgain(e)
  PROVE  AccessIInv'
<1>1. /\ pc[e] = "again" /\ pc[e] \in Wrote \cup {"add"} /\ Watch({e})
      /\ UNCHANGED <<by, want, inserted, rowVars, lastRow, groups>>
    BY DEF ImportAgain, Wrote
<1>2. inserted' = [inserted EXCEPT ![e] = {}]
    BY <1>1, WriterFacts DEF AccessIInv, LocalsInv
<1>3. /\ AccessPlan \in Plans /\ AccessPlan \notin SharePlans /\ Len(AccessPlan) = 3 /\ 1 \in 1..4
      /\ plan[e] = AccessPlan /\ onError[e] = "again"
    BY <1>1 DEF Plans, SharePlans, AccessPlan, PublishPlan, UpdatePlan, AccessIInv, LocalsInv
<1>4. CASE /\ pc' = [pc EXCEPT ![e] = "delete"] /\ id' = [id EXCEPT ![e] = row]
           /\ Follow(e, AccessPlan, "ignore", {})
  <2>1. /\ pc'[e] = "delete" /\ id'[e] = row /\ plan'[e] = AccessPlan /\ at'[e] = 1
        /\ onError'[e] = "ignore" /\ lost'[e] = {}
      BY <1>4 DEF Follow, AccessIInv, TypeOK
  <2>2. Turns(e)
      BY <1>1, <1>2, <1>3, <1>4, <2>1 DEF Turns, Follow
  <2>3. Fits(e)
    <3>1. 1 <= Len(AccessPlan)
        BY DEF AccessPlan
    <3>2. QED
        BY <1>3, <2>1, <3>1 DEF Fits
  <2>4. Through(e)
      BY <2>1 DEF Through
  <2>5. QED
      BY <2>2, <2>3, <2>4, TurnKeeps
<1>5. CASE /\ pc' = [pc EXCEPT ![e] = "done"] /\ UNCHANGED id
           /\ Follow(e, AccessPlan, "ignore", lost[e] \cup {"links"})
  <2>1. /\ pc'[e] = "done" /\ id'[e] = id[e] /\ plan'[e] = AccessPlan /\ at'[e] = 1
        /\ onError'[e] = "ignore" /\ lost'[e] = lost[e] \cup {"links"}
      BY <1>5 DEF Follow, AccessIInv, TypeOK
  <2>2. lost'[e] \in SUBSET Tables
      BY <2>1, WriterFacts DEF Tables
  <2>3. Turns(e)
      BY <1>1, <1>2, <1>3, <1>5, <2>1, <2>2, WriterFacts DEF Turns, Follow
  <2>4. Fits(e)
      BY <1>3, <2>1 DEF Fits
  <2>5. Through(e)
    <3> SUFFICES ASSUME Hits(e), e \notin dirty, NEW j \in 1..Len(AccessPlan),
                        AccessPlan[j] \notin lost[e] \cup {"links"}
                 PROVE  grants[AccessPlan[j]] = AskedIn(e, "ignore", AccessPlan[j])
        BY <2>1 DEF Through
    <3>1. AccessPlan[j] \in Promised(e)
        BY <1>3 DEF Promised
    <3>2. grants[AccessPlan[j]] = Asked(e, AccessPlan[j])
        BY <1>1, <3>1 DEF AccessIInv, ProgressInv
    <3>3. QED
        BY <3>2 DEF Asked, AskedIn
  <2>6. QED
      BY <2>3, <2>4, <2>5, TurnKeeps
<1>6. QED
    BY <1>4, <1>5 DEF ImportAgain

-----------------------------------------------------------------------------
(* Steps that write the row.                                               *)

\* A new row has an id that no handler holds, and neither owner nor grants.
LEMMA AddKeeps ==
  ASSUME AccessIInv, NEW e \in Execs, AddEQAccount(e), Watch({e}),
         NEW p \in {"publish", "delete", "done"}, pc' = [pc EXCEPT ![e] = p], pc[e] # "insert",
         NEW q \in Plans, plan' = [plan EXCEPT ![e] = q],
         NEW a \in 1..4, at' = [at EXCEPT ![e] = a],
         NEW m \in {"fail", "ignore", "again"}, onError' = [onError EXCEPT ![e] = m],
         NEW l \in SUBSET Tables, lost' = [lost EXCEPT ![e] = l],
         p = "publish" => m = "fail",
         p = "delete" => q \in {AccessPlan, RolePlan} /\ a = 1,
         NEW w \in GrantTables, want' = [want EXCEPT ![e] = w],
         p = "done" => q = RolePlan /\ w = NoGrants,
         m = "again" => q = AccessPlan,
         UNCHANGED <<by, inserted, groups>>
  PROVE  AccessIInv'
<1> USE DEF AccessIInv
<1>1. /\ row = 0 /\ row' = lastRow + 1 /\ lastRow' = row' /\ row' # 0 /\ row' \in 0..MaxRows
      /\ restricted' = restricted /\ owner' = owner /\ grants' = grants
    BY AccessAssumption DEF AddEQAccount, TypeOK
<1>2. ~restricted /\ grants = NoGrants
    BY <1>1 DEF RowInv
<1>3. /\ pc'[e] = p /\ inserted'[e] = {} /\ plan'[e] = q /\ at'[e] = a /\ id'[e] = row'
      /\ want'[e] = w /\ onError'[e] = m /\ lost'[e] = l
    BY DEF TypeOK, AddEQAccount, LocalsInv
<1>4. \A f \in Execs \ {e} : Same(f)
    BY DEF TypeOK, Same, AddEQAccount
<1>5. RowStep({e}) /\ RowInv'
    BY <1>1 DEF RowStep, RowInv
<1>6. TypeOK'
  <2>1. lastRow \in Nat /\ \A f \in Execs : id[f] \in 0..lastRow'
      BY <1>1, AccessAssumption DEF TypeOK
  <2>2. id' \in [Execs -> 0..lastRow']
      BY <1>1, <2>1 DEF TypeOK, AddEQAccount
  <2>3. row' \in 0..lastRow' /\ lastRow' \in 0..MaxRows
      BY <1>1, <2>1
  <2>4. pc' \in [Execs -> {"idle", "own", "create", "publish", "claim", "add",
                           "unshareOwn", "remove"} \cup Wrote]
      BY DEF TypeOK, Wrote, Writing
  <2>5. restricted' \in BOOLEAN
      BY <1>1, Zenon DEF TypeOK
  <2>6. QED
      BY <1>1, <2>2, <2>3, <2>4, <2>5, WatchType DEF TypeOK
<1>7. HandlerInv(e)'
  <2>0. RolePlan # AccessPlan
      BY DEF AccessPlan, RolePlan
  <2>1. 1 <= Len(AccessPlan) /\ 1 <= Len(RolePlan)
      BY DEF AccessPlan, RolePlan
  <2>2. LocalsInv(e)'
      BY <1>3, <2>1, <2>0 DEF LocalsInv, Wrote, Writing
  <2>3. ProgressInv(e)'
    <3>1. p = "done" => \A t \in Promised(e)' : grants'[t] = Asked(e, t)'
      <4>1. ASSUME p = "done", NEW t \in Promised(e)' PROVE grants'[t] = Asked(e, t)'
        <5>1. t \in Tables
            BY <1>3, <4>1, PlanFacts DEF Promised
        <5>2. grants'[t] = {} /\ want'[e][t] = {}
            BY <1>1, <1>2, <1>3, <4>1, <5>1 DEF NoGrants
        <5>3. QED
            BY <5>2 DEF Asked
      <4>2. QED
          BY <4>1
    <3>2. QED
        BY <1>3, <3>1 DEF ProgressInv, Writing
  <2>4. BeforeInv(e)' /\ CurrentInv(e)'
      BY <1>1, <1>2, <1>3 DEF BeforeInv, CurrentInv
  <2>5. HoldsOwn(e)'
    <3>1. AccessPlan \notin SharePlans /\ RolePlan \notin SharePlans
        BY DEF AccessPlan, RolePlan, SharePlans, PublishPlan, UpdatePlan
    <3>2. QED
        BY <1>3, <3>1 DEF HoldsOwn, Writing
  <2>6. NeverWider(e)'
      BY <1>1, <1>2 DEF NeverWider
  <2>7. QED
      BY <2>2, <2>3, <2>4, <2>5, <2>6 DEF HandlerInv
<1>8. QED
    BY <1>1, <1>3, <1>4, <1>5, <1>6, <1>7, Assemble

\* The handlers that create a row.
LEMMA CreatesKeep ==
  ASSUME AccessIInv, NEW e \in Execs, NEW w \in GrantTables,
         \/ ShareCreate(e) \/ ImportAdd(e)
         \/ AddAccount(e, w) \/ WebAddAccount(e, w) \/ AddWithoutRole(e)
  PROVE  AccessIInv'
<1> USE DEF AccessIInv
<1>1. want[e] \in GrantTables /\ want = [want EXCEPT ![e] = want[e]]
    BY DEF TypeOK
<1>2. ASSUME NoPlan, UNCHANGED want
      PROVE  \E q \in Plans, a \in 1..4, m \in {"fail", "ignore", "again"}, l \in SUBSET Tables,
                w1 \in GrantTables :
        /\ q = plan[e] /\ a = at[e] /\ m = onError[e]
        /\ plan' = [plan EXCEPT ![e] = q] /\ at' = [at EXCEPT ![e] = a]
        /\ onError' = [onError EXCEPT ![e] = m] /\ lost' = [lost EXCEPT ![e] = l]
        /\ want' = [want EXCEPT ![e] = w1]
  <2>1. /\ plan[e] \in Plans /\ at[e] \in 1..4 /\ lost[e] \in SUBSET Tables
        /\ onError[e] \in {"fail", "ignore", "again"}
      BY WriterFacts
  <2>2. /\ plan' = [plan EXCEPT ![e] = plan[e]] /\ at' = [at EXCEPT ![e] = at[e]]
        /\ onError' = [onError EXCEPT ![e] = onError[e]] /\ lost' = [lost EXCEPT ![e] = lost[e]]
        /\ want' = [want EXCEPT ![e] = want[e]]
      BY <1>1, <1>2, WriterFacts DEF NoPlan
  <2>3. QED
      BY <1>1, <2>1, <2>2
<1>3. ASSUME ShareCreate(e) \/ ImportAdd(e) PROVE AccessIInv'
  <2>1. /\ AddEQAccount(e) /\ Watch({e}) /\ NoPlan /\ UNCHANGED <<by, inserted, groups, want>>
        /\ pc[e] # "insert"
      BY <1>3 DEF ShareCreate, ImportAdd
  <2>2. PICK q \in Plans, a \in 1..4, m \in {"fail", "ignore", "again"}, l \in SUBSET Tables,
             w1 \in GrantTables :
        /\ q = plan[e] /\ a = at[e] /\ m = onError[e]
        /\ plan' = [plan EXCEPT ![e] = q] /\ at' = [at EXCEPT ![e] = a]
        /\ onError' = [onError EXCEPT ![e] = m] /\ lost' = [lost EXCEPT ![e] = l]
        /\ want' = [want EXCEPT ![e] = w1]
      BY <1>2, <2>1
  <2>3. m = "again" => q = AccessPlan
      BY <2>2 DEF LocalsInv
  <2>4. CASE ShareCreate(e)
    <3>1. m = "fail" /\ pc' = [pc EXCEPT ![e] = "publish"]
        BY <2>2, <2>4 DEF ShareCreate, LocalsInv, Wrote, Writing
    <3>2. QED
        BY <2>1, <2>2, <2>3, <3>1, AddKeeps
  <2>5. CASE ImportAdd(e)
    <3>1. q \in {AccessPlan, RolePlan} /\ a = 1 /\ pc' = [pc EXCEPT ![e] = "delete"]
        BY <2>2, <2>5 DEF ImportAdd, LocalsInv
    <3>2. QED
        BY <2>1, <2>2, <2>3, <3>1, AddKeeps
  <2>6. QED
      BY <1>3, <2>4, <2>5
<1>4. RolePlan \in Plans /\ 1 \in 1..4 /\ {} \in SUBSET Tables
    BY DEF Plans
<1>5. CASE AddAccount(e, w) \/ WebAddAccount(e, w)
  <2>1. Only(w, {"roles"}) \in GrantTables
      BY OnlyType
  <2>2. PICK mode \in {"fail", "ignore"} : AddThenRole(e, w, mode, "delete")
      BY <1>5 DEF AddAccount, WebAddAccount
  <2>3. QED
      BY <1>4, <2>1, <2>2, AddKeeps DEF AddThenRole, Follow
<1>6. CASE AddWithoutRole(e)
  <2>1. Only(NoGrants, {"roles"}) = NoGrants
      BY DEF Only, NoGrants, Tables
  <2>2. AddThenRole(e, NoGrants, "fail", "done")
      BY <1>6 DEF AddWithoutRole
  <2>3. QED
      BY <1>4, <2>1, <2>2, NoGrantsType, AddKeeps DEF AddThenRole, Follow
<1>7. QED
    BY <1>3, <1>5, <1>6

\* UPDATE ... SET restricted, owner_user_id: the creator publishes its row, or
\* the owner claims what is its own already.
LEMMA SetOwnerKeeps ==
  ASSUME AccessIInv, NEW e \in Execs, SharePublish(e) \/ ShareClaim(e)
  PROVE  AccessIInv'
<1> USE DEF AccessIInv
<1>1. PICK q \in SharePlans, from \in {"publish", "claim"} : SetOwner(e, from, q)
    BY DEF SharePublish, ShareClaim, SharePlans
<1>2. /\ pc[e] = from /\ row' = row /\ grants' = grants /\ Watch({e})
      /\ Hits(e) => restricted' /\ owner' = by[e]
      /\ ~Hits(e) => restricted' = restricted /\ owner' = owner
    BY <1>1 DEF SetOwner
<1>3. /\ pc'[e] = "delete" /\ inserted'[e] = {} /\ plan'[e] = q /\ at'[e] = 1
      /\ id'[e] = id[e] /\ want'[e] = want[e] /\ by'[e] = by[e] /\ onError'[e] = "fail"
    BY <1>1 DEF SetOwner, Follow, TypeOK, LocalsInv
<1>4. \A f \in Execs \ {e} : Same(f)
    BY <1>1 DEF SetOwner, Follow, TypeOK, Same
<1>5. Hits(e) /\ from = "claim" => restricted /\ owner = by[e]
    BY <1>2 DEF ShareHoldsOwnRow
<1>6. RowStep({e}) /\ RowInv'
  <2>1. RowStep({e})
    <3>1. CASE Hits(e) /\ from = "publish"
        BY <1>2, <3>1 DEF RowStep
    <3>2. CASE Hits(e) /\ from = "claim"
      <4>1. restricted' = restricted /\ owner' = owner
          BY <1>1, <1>5, <3>2 DEF SetOwner, TypeOK
      <4>2. QED
          BY <1>2, <4>1 DEF RowStep
    <3>3. CASE ~Hits(e)
        BY <1>2, <3>3 DEF RowStep
    <3>4. QED
        BY <3>1, <3>2, <3>3
  <2>2. RowInv'
      BY <1>2 DEF RowInv, Hits
  <2>3. QED
      BY <2>1, <2>2
<1>7. TypeOK'
  <2>1. restricted' \in BOOLEAN
      BY <1>1 DEF SetOwner, TypeOK
  <2>2. q \in Plans /\ 1 \in 1..4
      BY DEF Plans
  <2>3. plan' \in [Execs -> Plans] /\ at' \in [Execs -> 1..4]
      BY <1>1, <2>2 DEF SetOwner, Follow, TypeOK
  <2>4. owner' \in Users \cup {NoUser}
      BY <1>1 DEF SetOwner, TypeOK
  <2>5. onError' \in [Execs -> {"fail", "ignore", "again"}] /\ lost' \in [Execs -> SUBSET Tables]
      BY <1>1 DEF SetOwner, Follow, TypeOK
  <2>6. QED
      BY <1>1, <1>2, <2>1, <2>3, <2>4, <2>5, WatchType DEF SetOwner, TypeOK, Wrote, Writing
<1>8. LocalsInv(e)'
  <2>1. 1 <= Len(q)
      BY DEF SharePlans, PublishPlan, UpdatePlan
  <2>2. QED
      BY <1>3, <2>1 DEF LocalsInv
<1>9. ProgressInv(e)'
    BY <1>3 DEF ProgressInv
<1>10. BeforeInv(e)' /\ CurrentInv(e)'
  <2>1. e \notin dirty' => e \notin dirty
      BY <1>2, <1>3, WatchOwn
  <2>2. QED
      BY <1>2, <1>3, <2>1 DEF BeforeInv, CurrentInv
<1>11. HoldsOwn(e)'
    BY <1>2, <1>3 DEF HoldsOwn, Hits
<1>12. NeverWider(e)'
  <2>1. SUFFICES ASSUME Hits(e), e \notin dirty'
                 PROVE  AllowedNow' \subseteq before'[e] \cup AllowedBy(TRUE, owner', want'[e])
      BY <1>2, <1>3 DEF NeverWider, Hits
  <2>2. e \notin dirty /\ before'[e] = before[e]
      BY <1>2, <1>3, <2>1, WatchOwn
  <2>3. row # 0 /\ restricted' = TRUE /\ owner' = by[e]
      BY <1>1, <2>1 DEF Hits, SetOwner
  <2>4. AllowedNow' = AllowedBy(TRUE, owner', grants)
      BY <1>2, <2>3 DEF AllowedNow
  <2>5. CASE from = "publish"
    <3>1. grants = NoGrants
        BY <1>2, <2>1, <2>2, <2>5 DEF BeforeInv
    <3>2. AllowedBy(TRUE, owner', NoGrants) \subseteq AllowedBy(TRUE, owner', want[e])
        BY DEF AllowedBy, ByRoleOrGroup, NoGrants, Tables
    <3>3. QED
        BY <1>3, <2>4, <3>1, <3>2
  <2>6. CASE from = "claim"
    <3>1. restricted = TRUE /\ owner = by[e]
        BY <1>5, <2>1, <2>6 DEF TypeOK
    <3>2. AllowedNow = AllowedBy(TRUE, owner', grants)
        BY <2>3, <3>1 DEF AllowedNow
    <3>3. AllowedNow \subseteq before[e]
        BY <1>2, <2>1, <2>2, <2>6 DEF BeforeInv
    <3>4. QED
        BY <2>2, <2>4, <3>2, <3>3
  <2>7. QED
      BY <2>5, <2>6
<1>13. HandlerInv(e)' /\ pc'[e] # "publish"
    BY <1>3, <1>8, <1>9, <1>10, <1>11, <1>12 DEF HandlerInv
<1>14. QED
    BY <1>2, <1>4, <1>6, <1>7, <1>13, Assemble

\* Grants of which each was there or was asked for allow nobody else in. (Of an
\* account that is not restricted this is false: one without grants is open.)
LEMMA AskedAllowed ==
  ASSUME NEW o, NEW g, NEW h, NEW w, \A t \in Tables : h[t] \subseteq g[t] \cup w[t]
  PROVE  AllowedBy(TRUE, o, h) \subseteq AllowedBy(TRUE, o, g) \cup AllowedBy(TRUE, o, w)
BY DEF AllowedBy, ByRoleOrGroup, Tables

\* A handler writes the table it is at. S is what the table holds afterwards
\* and X what the handler has inserted into it.
LEMMA TableKeeps ==
  ASSUME AccessIInv, NEW e \in Execs, pc[e] \in Writing, pc' = [pc EXCEPT ![e] = "insert"],
         NEW X \in SUBSET (Users \cup Roles \cup Groups), inserted' = [inserted EXCEPT ![e] = X],
         NEW S \in SUBSET SubjectsOf[Table(e)],
         S \subseteq grants[Table(e)] \cup Asked(e, Table(e)),
         e \notin dirty /\ Hits(e) => S = X /\ X \subseteq Asked(e, Table(e)),
         grants' = IF Hits(e) THEN [grants EXCEPT ![Table(e)] = S] ELSE grants,
         UNCHANGED <<row, restricted, owner, lastRow, groups, by, id, plan, at, want, onError,
                     lost>>,
         Watch({e})
  PROVE  AccessIInv'
<1> USE DEF AccessIInv
<1> DEFINE t == Table(e)
<1>1. /\ plan[e] \in Plans /\ at[e] \in 1..4 /\ at[e] <= Len(plan[e]) /\ Len(plan[e]) \in 0..4
      /\ grants \in GrantTables /\ want[e] \in GrantTables
    BY PlanFacts DEF TypeOK, LocalsInv
<1>2. t \in Tables
  <2>1. at[e] \in 1..Len(plan[e])
      BY <1>1
  <2>2. QED
      BY <1>1, <2>1, PlanFacts DEF Table
<1>3. grants' \in GrantTables
    BY <1>1, <1>2, TableType
<1>4. /\ pc'[e] = "insert" /\ inserted'[e] = X
      /\ Hits(e)' <=> Hits(e)
    BY DEF TypeOK, Hits
<1>5. \A f \in Execs \ {e} : Same(f)
    BY DEF TypeOK, Same
<1>6. RowStep({e}) /\ RowInv'
    BY DEF RowStep, RowInv, Hits
<1>7. TypeOK'
    BY <1>3, WatchType DEF TypeOK, Wrote, Writing
<1>8. e \notin dirty' => e \notin dirty /\ before'[e] = before[e]
    BY <1>4, WatchOwn DEF Writing
<1>9. LocalsInv(e)' /\ CurrentInv(e)'
    BY <1>1, <1>4, <1>8 DEF LocalsInv, CurrentInv, Wrote, Writing
<1>10. Hits(e) => /\ grants'[t] = S
                  /\ \A s \in Tables \ {t} : grants'[s] = grants[s]
    BY <1>1, <1>2 DEF GrantTables
<1>11. ProgressInv(e)'
  <2> SUFFICES ASSUME Hits(e), e \notin dirty
               PROVE  /\ grants'[t] = X
                      /\ X \subseteq Asked(e, t)
                      /\ \A i \in 1..(at[e] - 1) : plan[e][i] \notin lost[e]
                            => grants'[plan[e][i]] = Asked(e, plan[e][i])
    <3>1. \A s : Asked(e, s)' = Asked(e, s)
        BY DEF Asked
    <3>2. QED
        BY <1>4, <1>8, <3>1 DEF ProgressInv, Table
  <2>1. ASSUME NEW i \in 1..(at[e] - 1), plan[e][i] \notin lost[e]
        PROVE  grants'[plan[e][i]] = Asked(e, plan[e][i])
    <3>1. i \in 1..Len(plan[e]) /\ at[e] \in 1..Len(plan[e]) /\ i # at[e]
        BY <1>1
    <3>2. plan[e][i] \in Tables \ {t}
        BY <1>1, <3>1, PlanFacts DEF Table
    <3>3. grants[plan[e][i]] = Asked(e, plan[e][i])
        BY <2>1 DEF ProgressInv
    <3>4. QED
        BY <1>10, <3>2, <3>3
  <2>2. QED
      BY <1>10, <2>1
<1>12. HoldsOwn(e)'
    BY <1>4 DEF HoldsOwn, ShareHoldsOwnRow
<1>13. BeforeInv(e)'
    BY <1>4 DEF BeforeInv
<1>14. NeverWider(e)'
  <2>1. SUFFICES ASSUME Hits(e), restricted, e \notin dirty'
                 PROVE  AllowedNow' \subseteq before'[e] \cup AllowedBy(TRUE, owner, want[e])
      BY <1>4 DEF NeverWider
  <2>2. row # 0 /\ row' = row /\ restricted = TRUE /\ restricted' = TRUE /\ owner' = owner
      BY <2>1 DEF Hits, TypeOK
  <2>3. AllowedNow = AllowedBy(TRUE, owner, grants) /\ AllowedNow' = AllowedBy(TRUE, owner, grants')
      BY <2>2 DEF AllowedNow
  <2>4. \A s \in Tables : grants'[s] \subseteq grants[s] \cup want[e][s]
      BY <1>10, <2>1 DEF Asked
  <2>5. AllowedBy(TRUE, owner, grants')
          \subseteq AllowedBy(TRUE, owner, grants) \cup AllowedBy(TRUE, owner, want[e])
      BY <2>4, AskedAllowed
  <2>6. AllowedNow \subseteq before[e] \cup AllowedBy(TRUE, owner, want[e])
      BY <1>8, <2>1 DEF PrivateIsNeverWider, Wrote
  <2>7. QED
      BY <1>8, <2>1, <2>3, <2>5, <2>6
<1>15. HandlerInv(e)' /\ pc'[e] # "publish"
    BY <1>4, <1>9, <1>11, <1>12, <1>13, <1>14 DEF HandlerInv
<1>16. QED
    BY <1>5, <1>6, <1>7, <1>15, Assemble

LEMMA WritesKeep ==
  ASSUME AccessIInv, NEW e \in Execs, NEW x, DeleteGrants(e) \/ InsertGrant(e, x)
  PROVE  AccessIInv'
<1> USE DEF AccessIInv
<1>1. CASE DeleteGrants(e)
  <2>1. inserted[e] = {} /\ inserted' = [inserted EXCEPT ![e] = {}]
      BY <1>1 DEF DeleteGrants, LocalsInv, TypeOK
  <2>2. QED
      BY <1>1, <2>1, TableKeeps DEF DeleteGrants, Writing
<1>2. CASE InsertGrant(e, x)
  <2>1. CASE InsertFails(e, x) /\ Fail(e) /\ UNCHANGED grants
      BY <1>2, <2>1, FailKeeps DEF InsertGrant, rowVars
  <2>2. CASE /\ ~InsertFails(e, x)
             /\ grants' = [grants EXCEPT ![Table(e)] = @ \cup {x}]
             /\ inserted' = [inserted EXCEPT ![e] = @ \cup {x}]
             /\ UNCHANGED <<pc, by, id, plan, at, want, onError, lost>>
    <3> DEFINE S == grants[Table(e)] \cup {x}
               X == inserted[e] \cup {x}
    <3>1. Hits(e) /\ pc[e] = "insert" /\ x \in Asked(e, Table(e))
        BY <1>2, <2>2 DEF InsertGrant, InsertFails
    <3>2. at[e] \in 1..Len(plan[e]) /\ plan[e] \in Plans
        BY <3>1, WriterFacts DEF Writing
    <3>3. Table(e) \in Tables
        BY <3>2, PlanFacts DEF Table
    <3>4. grants' = IF Hits(e) THEN [grants EXCEPT ![Table(e)] = S] ELSE grants
        BY <2>2, <3>1
    <3>5. inserted' = [inserted EXCEPT ![e] = X] /\ pc' = [pc EXCEPT ![e] = "insert"]
        BY <2>2, <3>1 DEF TypeOK
    <3>6. S \in SUBSET SubjectsOf[Table(e)]
        BY <3>1, <3>3 DEF TypeOK, GrantTables, Asked
    <3>7. e \notin dirty => /\ grants[Table(e)] = inserted[e]
                            /\ inserted[e] \subseteq Asked(e, Table(e))
        BY <3>1 DEF ProgressInv, Writing
    <3>8. X \in SUBSET (Users \cup Roles \cup Groups)
        BY <3>1, <3>3 DEF TypeOK, GrantTables, Asked
    <3>9. /\ S \subseteq grants[Table(e)] \cup Asked(e, Table(e))
          /\ e \notin dirty /\ Hits(e) => S = X /\ X \subseteq Asked(e, Table(e))
        BY <3>1, <3>7
    <3>10. /\ UNCHANGED <<row, restricted, owner, lastRow, groups, by, id, plan, at, want,
                          onError, lost>>
           /\ Watch({e}) /\ pc[e] \in Writing
        BY <1>2, <2>2, <3>1 DEF InsertGrant, Writing
    <3> HIDE DEF S, X
    <3>11. QED
        BY <3>4, <3>5, <3>6, <3>8, <3>9, <3>10, TableKeeps
  <2>3. QED
      BY <1>2, <2>1, <2>2 DEF InsertGrant
<1>3. QED
    BY <1>1, <1>2

\* Links of groups come and go without any handler.
LEMMA GroupsKeep ==
  ASSUME AccessIInv, NEW g \in Groups,
         LinkAccountGroup(g) \/ UnlinkAccountGroup(g) \/ DeleteGroup(g)
  PROVE  AccessIInv'
<1> USE DEF AccessIInv
<1>1. /\ UNCHANGED <<row, restricted, owner, lastRow, execVars>> /\ Watch({})
      /\ groups' \in SUBSET Groups
    BY DEF LinkAccountGroup, UnlinkAccountGroup, DeleteGroup, TypeOK
<1>2. PICK S \in SUBSET Groups : /\ grants' = [grants EXCEPT !["links"] = S]
                                 /\ row = 0 => S \subseteq grants["links"]
  <2>1. grants["links"] \in SUBSET Groups
      BY DEF TypeOK, GrantTables, SubjectsOf, Tables
  <2>2. QED
      BY <2>1 DEF LinkAccountGroup, UnlinkAccountGroup, DeleteGroup
<1>3. "links" \in Tables /\ SubjectsOf["links"] = Groups
    BY DEF Tables, SubjectsOf
<1>4. grants' \in GrantTables
  <2>1. S \in SUBSET SubjectsOf["links"] /\ grants \in GrantTables
      BY <1>3 DEF TypeOK
  <2>2. [grants EXCEPT !["links"] = S] \in GrantTables
      BY <1>3, <2>1, TableType
  <2>3. QED
      BY <1>2, <2>2
<1>5. RowInv'
  <2>1. row = 0 => grants' = NoGrants
    <3>1. ASSUME row = 0 PROVE S = {} /\ grants = NoGrants
        BY <1>2, <1>3, <3>1 DEF RowInv, NoGrants
    <3>2. QED
        BY <1>2, <1>3, <3>1 DEF NoGrants
  <2>2. QED
      BY <1>1, <2>1 DEF RowInv
<1>6. TypeOK'
    BY <1>1, <1>4, WatchType DEF TypeOK, execVars
<1>7. \A f \in Execs : Same(f)
    BY <1>1 DEF Same, execVars
<1>8. RowStep({})
    BY <1>1 DEF RowStep
<1>9. QED
    BY <1>1, <1>5, <1>6, <1>7, <1>8, Assemble

-----------------------------------------------------------------------------
\* Every step keeps the invariant.
LEMMA AccessStep ==
  AccessIInv /\ [Next]_vars => AccessIInv'
<1> SUFFICES ASSUME AccessIInv, [Next]_vars
             PROVE  AccessIInv'
    OBVIOUS
<1>0. ASSUME NEW w \in Requests PROVE w \in GrantTables
    BY AccessAssumption
<1>1. ASSUME NEW e \in Execs, Request(e) PROVE AccessIInv'
  <2>0. {} \in SUBSET Tables
      OBVIOUS
  <2>1. ASSUME NEW u \in Users, UnshareFind(e, u) \/ RemoveCheck(e, u) PROVE AccessIInv'
      BY <2>0, <2>1, StartKeeps, NoGrantsType DEF UnshareFind, RemoveCheck
  <2>2. ASSUME NEW w \in Requests, NEW u \in Users, ShareFind(e, u, w) PROVE AccessIInv'
    <3>1. [w EXCEPT !["shares"] = @ \ {u}, !["users"] = {}] \in GrantTables
        BY <1>0 DEF GrantTables, SubjectsOf, Tables
    <3>2. QED
        BY <2>0, <2>2, <3>1, StartKeeps DEF ShareFind
  <2>3. ASSUME NEW w \in Requests, NEW fields \in Patches, NEW read \in GrantTables,
               AccessCheck(e, w, fields, read)
        PROVE  AccessIInv'
    <3> DEFINE short == {t \in AccessTables \ fields : read[t] # grants[t]}
    <3>1. Merged(w, fields, read) \in GrantTables /\ short \in SUBSET Tables
        BY <1>0, MergedType DEF AccessTables, Tables
    <3>2. /\ Start(e, NoUser, row, Merged(w, fields, read), "delete")
          /\ Follow(e, AccessPlan, "fail", short)
          /\ UNCHANGED <<rowVars, lastRow, groups>> /\ Watch({e})
        BY <2>3 DEF AccessCheck
    <3> HIDE DEF short
    <3>3. QED
        BY <3>1, <3>2, StartKeeps
  <2>4. ASSUME NEW w \in Requests, RoleCheck(e, w) PROVE AccessIInv'
      BY <1>0, <2>0, <2>4, OnlyType, StartKeeps DEF RoleCheck
  <2>5. ASSUME NEW w \in Requests, ImportCSV(e, w) \/ ImportBackup(e, w) PROVE AccessIInv'
      BY <1>0, <2>0, <2>5, OnlyType, StartKeeps DEF ImportCSV, ImportBackup, ImportFind
  <2>6. ASSUME NEW w \in Requests, AddAccount(e, w) \/ WebAddAccount(e, w) PROVE AccessIInv'
      BY <1>0, <2>6, CreatesKeep
  <2>7. CASE AddWithoutRole(e)
      BY <2>7, NoGrantsType, CreatesKeep
  <2>8. QED
      BY <1>1, <2>1, <2>2, <2>3, <2>4, <2>5, <2>6, <2>7 DEF Request
<1>2. ASSUME NEW e \in Execs, ShareStep(e) PROVE AccessIInv'
    BY <1>2, OwnKeeps, CreatesKeep, SetOwnerKeeps, NoGrantsType DEF ShareStep
<1>3. ASSUME NEW e \in Execs, DeleteStep(e) PROVE AccessIInv'
    BY <1>3, OwnKeeps, ReturnKeeps DEF DeleteStep, Remove
<1>4. ASSUME NEW e \in Execs, WriteStep(e) PROVE AccessIInv'
    BY <1>4, WritesKeep, NextTableKeeps, UsersFailKeeps, ReturnKeeps DEF WriteStep, Answer
<1>5. ASSUME NEW e \in Execs, ImportStep(e) PROVE AccessIInv'
    BY <1>5, CreatesKeep, ImportAgainKeeps, NoGrantsType DEF ImportStep
<1>6. ASSUME NEW e \in Execs, StatementFails(e) PROVE AccessIInv'
    BY <1>6, FailKeeps DEF StatementFails
<1>7. ASSUME NEW g \in Groups, LinkAccountGroup(g) \/ UnlinkAccountGroup(g) \/ DeleteGroup(g)
      PROVE  AccessIInv'
    BY <1>7, GroupsKeep
<1>8. CASE UNCHANGED vars
  <2>1. TypeOK' /\ RowInv'
      BY <1>8 DEF vars, rowVars, execVars, AccessIInv, TypeOK, RowInv
  <2>2. \A e \in Execs : /\ Hits(e)' <=> Hits(e)
                         /\ Table(e)' = Table(e) /\ Promised(e)' = Promised(e)
                         /\ \A t : Asked(e, t)' = Asked(e, t)
      BY <1>8 DEF vars, rowVars, execVars, Hits, Table, Promised, Asked
  <2>3. ShareHoldsOwnRow'
      BY <1>8, <2>2 DEF vars, rowVars, execVars, AccessIInv, ShareHoldsOwnRow
  <2>4. AllowedNow' = AllowedNow
      BY <1>8 DEF vars, rowVars, AllowedNow
  <2>5. PrivateIsNeverWider'
      BY <1>8, <2>2, <2>4 DEF vars, rowVars, execVars, AccessIInv, PrivateIsNeverWider
  <2>6. ASSUME NEW e \in Execs
        PROVE  LocalsInv(e)' /\ CurrentInv(e)' /\ PublisherInv(e)' /\ BeforeInv(e)'
      BY <1>8, <2>2, <2>4 DEF vars, rowVars, execVars, AccessIInv, LocalsInv, CurrentInv,
         PublisherInv, BeforeInv
  <2>7. ASSUME NEW e \in Execs PROVE ProgressInv(e)'
      BY <1>8, <2>2 DEF vars, rowVars, execVars, AccessIInv, ProgressInv
  <2>8. QED
      BY <2>1, <2>3, <2>5, <2>6, <2>7 DEF AccessIInv
<1>9. QED
    BY <1>1, <1>2, <1>3, <1>4, <1>5, <1>6, <1>7, <1>8 DEF Next

LEMMA Inductive == Spec => []AccessIInv
<1>1. Init => AccessIInv
  <2>1. ASSUME Init PROVE TypeOK
    <3>1. restricted \in BOOLEAN /\ grants \in GrantTables /\ want \in [Execs -> GrantTables]
        BY <2>1, NoGrantsType DEF Init
    <3>2. QED
        BY <2>1, <3>1, AccessAssumption DEF Init, TypeOK, Plans
  <2>2. QED
      BY <2>1 DEF Init, AccessIInv, RowInv, ShareHoldsOwnRow, PrivateIsNeverWider, LocalsInv,
         CurrentInv, PublisherInv, ProgressInv, BeforeInv, Wrote, Writing
<1>2. QED
    BY <1>1, AccessStep, PTL DEF Spec

\* The row, the grants and the handlers keep their types: no table ever holds a
\* subject of another kind, and no handler an id that was never given out.
THEOREM TypeCorrect == Spec => []TypeOK
<1>1. AccessIInv => TypeOK
    BY DEF AccessIInv
<1>2. QED
    BY <1>1, Inductive, PTL

\* share_account and unshare_account write, or delete, by id after they asked for
\* the owner (store.go:2228-2307): the row they reach is still their caller's.
THEOREM ShareHolds == Spec => []ShareHoldsOwnRow
<1>1. AccessIInv => ShareHoldsOwnRow
    BY DEF AccessIInv
<1>2. QED
    BY <1>1, Inductive, PTL

\* Rewriting the grants of a private share table by table never lets anybody in
\* on the way, nor when it stops half-way.
THEOREM PrivateNeverWider == Spec => []PrivateIsNeverWider
<1>1. AccessIInv => PrivateIsNeverWider
    BY DEF AccessIInv
<1>2. QED
    BY <1>1, Inductive, PTL

\* The answer ok means that every table of the request holds what was asked for
\* and what was not asked about is left, unless somebody else wrote to the
\* account meanwhile or the code dropped an error of that table.
THEOREM SuccessExact == Spec => []SuccessIsExact
<1>1. ASSUME AccessIInv, NEW e \in Execs, pc[e] = "done", Hits(e), e \notin dirty,
             NEW t \in Promised(e)
      PROVE  grants[t] = want[e][t]
  <2>1. grants[t] = Asked(e, t)
      BY <1>1 DEF AccessIInv, ProgressInv
  <2>2. onError[e] # "again"
      BY <1>1 DEF AccessIInv, LocalsInv
  <2>3. QED
      BY <2>1, <2>2 DEF Asked
<1>2. AccessIInv => SuccessIsExact
    BY <1>1 DEF SuccessIsExact
<1>3. QED
    BY <1>2, Inductive, PTL

\* A handler that takes a row over either created it, and nobody has published
\* it since, or asked for the owner before, and it is the caller.
THEOREM OwnershipStable == Spec => OwnershipIsStable
<1>1. ASSUME AccessIInv, [Next]_vars
      PROVE  [row' = row /\ restricted => restricted' /\ owner' = owner]_vars
  <2>1. SUFFICES ASSUME Next, row' = row, restricted
                 PROVE  restricted' /\ owner' = owner
      BY <1>1
  <2>2. ASSUME UNCHANGED <<restricted, owner>> PROVE restricted' /\ owner' = owner
      BY <2>1, <2>2
  <2>3. ASSUME NEW e \in Execs, Request(e) PROVE UNCHANGED <<restricted, owner>>
      BY <2>3 DEF Request, UnshareFind, RemoveCheck, ShareFind, AccessCheck, RoleCheck, ImportCSV,
         ImportBackup, ImportFind, AddAccount, WebAddAccount, AddWithoutRole, AddThenRole,
         AddEQAccount, rowVars
  <2>4. ASSUME NEW e \in Execs, NEW from, NEW tables, from \in {"publish", "claim"},
               SetOwner(e, from, tables)
        PROVE  restricted' /\ owner' = owner
    <3>1. CASE ~Hits(e)
        BY <2>1, <2>4, <3>1 DEF SetOwner
    <3>2. CASE Hits(e)
      <4>1. pc[e] # "publish"
          BY <1>1, <2>1, <2>4, <3>2 DEF AccessIInv, PublisherInv
      <4>2. owner = by[e]
          BY <1>1, <2>4, <3>2, <4>1 DEF AccessIInv, ShareHoldsOwnRow, SetOwner
      <4>3. QED
          BY <2>4, <3>2, <4>2 DEF SetOwner
    <3>3. QED
        BY <3>1, <3>2
  <2>5. ASSUME NEW e \in Execs, ShareStep(e) PROVE restricted' /\ owner' = owner
    <3>1. CASE ShareOwn(e) \/ ShareCreate(e)
        BY <2>2, <3>1 DEF ShareOwn, ShareCreate, AddEQAccount, rowVars
    <3>2. CASE SharePublish(e) \/ ShareClaim(e)
        BY <2>4, <3>2 DEF SharePublish, ShareClaim
    <3>3. QED
        BY <2>5, <3>1, <3>2 DEF ShareStep
  <2>6. ASSUME NEW e \in Execs, DeleteStep(e) PROVE UNCHANGED <<restricted, owner>>
    <3>1. CASE UnshareOwn(e)
        BY <3>1 DEF UnshareOwn, rowVars
    <3>2. CASE Remove(e)
        BY <2>1, <3>2 DEF Remove, DeleteRow, Hits, rowVars
    <3>3. QED
        BY <2>6, <3>1, <3>2 DEF DeleteStep
  <2>7. ASSUME NEW e \in Execs, WriteStep(e) \/ ImportStep(e) \/ StatementFails(e)
        PROVE  UNCHANGED <<restricted, owner>>
      BY <2>7 DEF WriteStep, DeleteGrants, InsertGrant, NextTable, UsersFailUnseen, Answer,
         ImportStep, ImportAdd, ImportAgain, AddEQAccount, StatementFails, rowVars
  <2>8. ASSUME NEW g \in Groups, LinkAccountGroup(g) \/ UnlinkAccountGroup(g) \/ DeleteGroup(g)
        PROVE  UNCHANGED <<restricted, owner>>
      BY <2>8 DEF LinkAccountGroup, UnlinkAccountGroup, DeleteGroup
  <2>9. QED
      BY <2>1, <2>2, <2>3, <2>5, <2>6, <2>7, <2>8 DEF Next
<1>2. QED
    BY <1>1, Inductive, PTL DEF Spec, OwnershipIsStable
=============================================================================
