------------------------- MODULE GuardedTableProofs -------------------------
(* The theorems about GuardedTable, for any transactions, identities, series  *)
(* and keys.  The argument: guards exclude one another and a row has one      *)
(* uncommitted writer, so what a transaction writes lies in series it has for *)
(* itself (PendingIsGuarded), and a commit changes no series another relies   *)
(* on; the version a writer stored still follows the committed one when it    *)
(* commits; and a transaction that has settled no write has none to lose.     *)
EXTENDS GuardedTable, TLAPS

\* Two transactions share a guard or neither excludes the other.
GuardsExclude ==
    \A t, u \in Transactions : t # u => exclusive[t] \cap (exclusive[u] \cup shared[u]) = {}

\* A guard once granted is held until the transaction ends.
ReliedIsHeld == \A t \in Transactions : relied[t] \subseteq shared[t] \cup exclusive[t]

OneWriter ==
    \A t, u \in Transactions, i \in Ids :
        t # u /\ pending[t][i] # NoRow => pending[u][i] = NoRow

\* An uncommitted row p of i: in its series, and as many versions on as it was saved.
Follows(p, i) ==
    /\ row[i] = NoRow \/ row[i].series = p.series
    /\ p.version = row[i].version + p.saves

PendingIsGuarded ==
    \A t \in Transactions, i \in Ids : pending[t][i] # NoRow =>
        /\ Follows(pending[t][i], i)
        /\ i \in Plain => pending[t][i].series = None
        /\ i \notin Plain => pending[t][i].series \in exclusive[t]

RowsAreSound ==
    \A i \in Ids : row[i].version = row[i].saves /\ (i \in Plain => row[i].series = None)

\* What a transaction knows of its call when it comes to a statement.
Ready(t) ==
    LET w == want[t]
    IN  /\ stage[t] = "reading" => w.series \in Series
        /\ stage[t] \in {"loaded", "guarding", "writing", "keying", "refused"} => w.id \in Ids
        /\ stage[t] = "loaded" => w.series = None
        /\ stage[t] = "guarding" => w.id \notin Plain /\ w.series \in Series
        /\ stage[t] = "writing" =>
              IF w.id \in Plain THEN w.series = None ELSE w.series \in exclusive[t]
        /\ stage[t] = "keying" =>
              /\ w.id \notin Plain
              /\ pending[t][w.id] # NoRow
              /\ w.undo # NoRow => /\ Follows(w.undo, w.id)
                                   /\ w.undo.series = pending[t][w.id].series

CallIsReady == \A t \in Transactions : Ready(t)

\* A transaction without the mark has no guard and asks for none.
Marked(t) ==
    /\ ~guarded[t] => shared[t] = {} /\ exclusive[t] = {} /\ want[t].series = None
    /\ stage[t] \notin {"returned", "done"} => outcome[t] = "none"

MarksAreKept == \A t \in Transactions : Marked(t)

\* A transaction that has settled nothing has at most the write at hand, which
\* its savepoint undoes.
Unsettled(t) ==
    /\ outcome[t] = "rejected" => writes[t] = 0 /\ stage[t] \in {"returned", "done"}
    /\ writes[t] = 0 => enqueued[t] = 0
    /\ writes[t] = 0 => \A i \in Ids : pending[t][i] # NoRow =>
          \/ stage[t] = "keying" /\ i = want[t].id /\ want[t].undo = NoRow
          \/ stage[t] = "returned" /\ outcome[t] \notin Answers

FirstWrite == \A t \in Transactions : Unsettled(t)

GuardInv ==
    /\ TypeOK
    /\ GuardsExclude
    /\ ReliedIsHeld
    /\ OneWriter
    /\ PendingIsGuarded
    /\ RowsAreSound
    /\ CallIsReady
    /\ MarksAreKept
    /\ FirstWrite
    /\ SeriesStands

-----------------------------------------------------------------------------
(* Types.                                                                   *)

LEMMA NothingTyped == NoRow \in Rows /\ NoWant \in Want /\ NoRow \notin Row
  BY DEF NoRow, Rows, Row, NoWant, Want

LEMMA InitTyped == Init => TypeOK
  BY TableAssumption, NothingTyped DEF Init, TypeOK, TableAssumption, Stages, Outcomes

LEMMA ViewTyped ==
    ASSUME TypeOK, NEW t \in Transactions, NEW i \in Ids
    PROVE  View(t, i) \in Rows
  BY DEF TypeOK, View

\* What a Save stores is a row.
LEMMA StoredTyped ==
    ASSUME TypeOK, NEW t \in Transactions, want[t].id \in Ids
    PROVE  Stored(t) \in Row
  <1>1. want[t] \in Want /\ pending[t][want[t].id] \in Rows
    BY DEF TypeOK
  <1>2. pending[t][want[t].id].saves \in Nat
    BY <1>1 DEF Rows, Row, NoRow
  <1> QED
    BY <1>1, <1>2 DEF Stored, Row, Want

LEMMA DroppedTyped ==
    ASSUME TypeOK, NEW t \in Transactions, Dropped(t)
    PROVE  /\ want' \in [Transactions -> Want]
           /\ shared' \in [Transactions -> SUBSET Series]
           /\ exclusive' \in [Transactions -> SUBSET Series]
           /\ relied' \in [Transactions -> SUBSET Series]
           /\ seen' \in [Transactions -> [Series -> Nat]]
           /\ pending' \in [Transactions -> [Ids -> Rows]]
           /\ enqueued' \in [Transactions -> Nat]
  BY NothingTyped DEF TypeOK, Dropped

LEMMA UndoneTyped ==
    ASSUME TypeOK, NEW t \in Transactions, Undone(t)
    PROVE  /\ pending' \in [Transactions -> [Ids -> Rows]]
           /\ exclusive' \in [Transactions -> SUBSET Series]
  <1>1. want[t].undo \in Rows
    BY DEF TypeOK, Want
  <1> QED
    BY <1>1 DEF TypeOK, Undone

LEMMA CommittedTyped ==
    ASSUME TypeOK, NEW t \in Transactions, Committed(t)
    PROVE  row' \in [Ids -> Rows] /\ edition' \in [Series -> Nat]
  <1>1. ASSUME NEW i \in Ids, pending[t][i] # NoRow
        PROVE  [pending[t][i] EXCEPT !.saves = row[i].saves + @] \in Rows
    <2>1. pending[t][i] \in Row /\ row[i] \in Rows
      BY <1>1 DEF TypeOK, Rows
    <2>2. row[i].saves \in Nat
      BY <2>1 DEF Rows, Row, NoRow
    <2> QED
      BY <2>1, <2>2 DEF Rows, Row
  <1> QED
    BY <1>1 DEF Committed, TypeOK

LEMMA RelyTyped ==
    ASSUME TypeOK, NEW t \in Transactions, NEW s \in Series, Rely(t, s)
    PROVE  relied' \in [Transactions -> SUBSET Series] /\ seen' \in [Transactions -> [Series -> Nat]]
  BY DEF TypeOK, Rely

\* Every step keeps the types.
LEMMA NextTyped == ASSUME TypeOK, CallIsReady, [Next]_vars PROVE TypeOK'
  <1> USE DEF Goto, Return, Call, tables, locks, drafts
  <1>1. ASSUME NEW t \in Transactions, Begin(t) PROVE TypeOK'
    BY <1>1 DEF Begin, TypeOK, Stages
  <1>2. ASSUME NEW t \in Transactions, NEW s \in Series, QueryWithin(t, s) PROVE TypeOK'
    <2>1. want' \in [Transactions -> Want]
      BY <1>2, NothingTyped DEF QueryWithin, TypeOK, Want, NoWant
    <2> QED
      BY <1>2, <2>1 DEF QueryWithin, TypeOK, Stages
  <1>3. ASSUME NEW t \in Transactions, GuardedRead(t) PROVE TypeOK'
    <2>1. want[t].series \in Series
      BY <1>3 DEF GuardedRead, CallIsReady, Ready
    <2> QED
      BY <1>3, <2>1, RelyTyped DEF GuardedRead, TypeOK, Stages
  <1>4. ASSUME NEW t \in Transactions, NEW i \in Ids, Load(t, i) PROVE TypeOK'
    <2>1. View(t, i).version \in Nat
      BY ViewTyped DEF Rows, Row, NoRow
    <2>2. want' \in [Transactions -> Want]
      BY <1>4, <2>1, NothingTyped DEF Load, TypeOK, Want, NoWant
    <2> QED
      BY <1>4, <2>2 DEF Load, TypeOK, Stages
  <1>5. ASSUME NEW t \in Transactions, SavePlain(t) PROVE TypeOK'
    BY <1>5 DEF SavePlain, TypeOK, Stages
  <1>6. ASSUME NEW t \in Transactions, NEW s \in Series, NEW k \in Keys, SaveGuarded(t, s, k)
        PROVE  TypeOK'
    <2>1. want' \in [Transactions -> Want]
      BY <1>6, NothingTyped DEF SaveGuarded, TypeOK, Want
    <2> QED
      BY <1>6, <2>1 DEF SaveGuarded, TypeOK, Stages
  <1>7. ASSUME NEW t \in Transactions, Guard(t) PROVE TypeOK'
    <2>1. want[t].series \in Series
      BY <1>7 DEF Guard, CallIsReady, Ready
    <2> QED
      BY <1>7, <2>1, RelyTyped DEF Guard, TypeOK, Stages
  <1>8. ASSUME NEW t \in Transactions, Write(t) PROVE TypeOK'
    <2>1. want[t].id \in Ids
      BY <1>8 DEF Write, CallIsReady, Ready
    <2>2. Stored(t) \in Rows
      BY <2>1, StoredTyped DEF Rows
    <2>3. want' \in [Transactions -> Want]
      <3>1. pending[t][want[t].id] \in Rows /\ want[t] \in Want
        BY <2>1 DEF TypeOK
      <3>2. [want[t] EXCEPT !.undo = pending[t][want[t].id]] \in Want
        BY <3>1 DEF Want
      <3>3. want' = [want EXCEPT ![t] = [want[t] EXCEPT !.undo = pending[t][want[t].id]]]
        BY <1>8 DEF Write, TypeOK
      <3> QED
        BY <3>2, <3>3 DEF TypeOK
    <2>4. pending' \in [Transactions -> [Ids -> Rows]]
      BY <1>8, <2>1, <2>2 DEF Write, TypeOK
    <2>5. /\ stage' \in [Transactions -> Stages]
          /\ writes' \in [Transactions -> Nat]
          /\ outcome' = outcome
      <3>1. CASE want[t].id \in Plain
        <4>1. Settle(t)
          BY <1>8, <3>1 DEF Write
        <4> QED
          BY <4>1 DEF Settle, TypeOK, Stages
      <3>2. CASE want[t].id \notin Plain
        BY <1>8, <3>2 DEF Write, TypeOK, Stages
      <3> QED
        BY <3>1, <3>2
    <2> QED
      BY <1>8, <2>3, <2>4, <2>5 DEF Write, TypeOK
  <1>9. ASSUME NEW t \in Transactions, WriteConflicts(t) \/ Translate(t) \/ Accept(t) \/ Decline(t)
        PROVE  TypeOK'
    BY <1>9 DEF WriteConflicts, Translate, Rejection, Accept, Decline, TypeOK, Stages, Outcomes
  <1>10. ASSUME NEW t \in Transactions, CreateMeetsKey(t) PROVE TypeOK'
    BY <1>10 DEF CreateMeetsKey, TypeOK, Stages
  <1>11. ASSUME NEW t \in Transactions, Key(t) PROVE TypeOK'
    BY <1>11 DEF Key, Settle, TypeOK, Stages
  <1>12. ASSUME NEW t \in Transactions, KeyClashes(t) PROVE TypeOK'
    BY <1>12, UndoneTyped DEF KeyClashes, TypeOK, Stages
  <1>13. ASSUME NEW t \in Transactions, Fail(t) PROVE TypeOK'
    <2>1. CASE Dropped(t)
      BY <1>13, <2>1, DroppedTyped DEF Fail, TypeOK, Stages, Outcomes
    <2>2. CASE UNCHANGED <<want, locks, drafts>>
      BY <1>13, <2>2 DEF Fail, TypeOK, Stages, Outcomes
    <2> QED
      BY <1>13, <2>1, <2>2 DEF Fail
  <1>14. ASSUME NEW t \in Transactions, Rollback(t) PROVE TypeOK'
    BY <1>14, DroppedTyped DEF Rollback, Released, TypeOK, Stages
  <1>15. ASSUME NEW t \in Transactions, Commit(t) PROVE TypeOK'
    BY <1>15, DroppedTyped, CommittedTyped DEF Commit, Committed, Released, TypeOK, Stages
  <1>16. ASSUME NEW t \in Transactions, CommitFails(t) PROVE TypeOK'
    <2>1. outcome' \in [Transactions -> Outcomes] /\ upsets' \in Nat
      BY <1>16 DEF CommitFails, TypeOK, Outcomes
    <2>2. CASE Committed(t)
      BY <2>1, <2>2, DroppedTyped, CommittedTyped DEF Committed, Released, TypeOK, Stages
    <2>3. CASE Released(t) /\ UNCHANGED <<tables, writes, guarded, calls>>
      BY <2>1, <2>3, DroppedTyped DEF Released, TypeOK, Stages
    <2> QED
      BY <1>16, <2>2, <2>3 DEF CommitFails
  <1>17. ASSUME NEW t \in Transactions, Deadlock(t) PROVE TypeOK'
    <2>1. /\ stage' \in [Transactions -> Stages] /\ outcome' \in [Transactions -> Outcomes]
          /\ UNCHANGED <<row, edition, writes, guarded, calls, upsets>>
      BY <1>17 DEF Deadlock, TypeOK, Stages, Outcomes
    <2>2. CASE ~UnderSavepoint(t)
      BY <1>17, <2>1, <2>2, DroppedTyped DEF Deadlock, Killed, TypeOK
    <2>3. CASE UnderSavepoint(t)
      BY <1>17, <2>1, <2>3, UndoneTyped DEF Deadlock, Killed, TypeOK
    <2> QED
      BY <2>2, <2>3
  <1>18. ASSUME NEW t \in Transactions, Enqueue(t) PROVE TypeOK'
    BY <1>18 DEF Enqueue, Settle, TypeOK, Stages
  <1>19. CASE UNCHANGED vars
    BY <1>19 DEF vars, TypeOK
  <1> QED
    BY <1>1, <1>2, <1>3, <1>4, <1>5, <1>6, <1>7, <1>8, <1>9, <1>10, <1>11, <1>12, <1>13,
       <1>14, <1>15, <1>16, <1>17, <1>18, <1>19 DEF Next, Work

-----------------------------------------------------------------------------
(* Guards and rows.                                                         *)

\* The savepoint goes, whether the key clashed or the server killed the statement.
Restored(t) ==
    stage[t] = "keying" /\ Undone(t) /\ UNCHANGED <<row, edition, shared, relied, seen>>

\* What a step may do to the tables, the locks and the uncommitted rows.
LEMMA StepKinds ==
    ASSUME [Next]_vars
    PROVE  \/ UNCHANGED <<row, edition, shared, exclusive, relied, seen, pending>>
           \/ \E t \in Transactions :
                \/ GuardedRead(t) \/ Guard(t) \/ Write(t) \/ Restored(t) \/ Committed(t)
                \/ Dropped(t) /\ UNCHANGED <<row, edition>>
  <1>1. ASSUME NEW t \in Transactions, Work(t)
        PROVE  \/ UNCHANGED <<row, edition, shared, exclusive, relied, seen, pending>>
               \/ GuardedRead(t) \/ Guard(t) \/ Write(t) \/ Restored(t) \/ Committed(t)
               \/ Dropped(t) /\ UNCHANGED <<row, edition>>
    <2>1. CASE Deadlock(t) \/ KeyClashes(t)
      BY <2>1 DEF Deadlock, KeyClashes, Killed, Restored, tables, locks
    <2>2. CASE ~(Deadlock(t) \/ KeyClashes(t))
      BY <1>1, <2>2 DEF Work, Begin, QueryWithin, Load, Enqueue, Decline, SavePlain, SaveGuarded,
         WriteConflicts, CreateMeetsKey, Key, Translate, Accept, Rollback, Released, Commit,
         tables, locks, drafts
    <2> QED
      BY <2>1, <2>2
  <1>2. ASSUME NEW t \in Transactions, Fail(t) \/ CommitFails(t)
        PROVE  \/ UNCHANGED <<row, edition, shared, exclusive, relied, seen, pending>>
               \/ Committed(t)
               \/ Dropped(t) /\ UNCHANGED <<row, edition>>
    BY <1>2 DEF Fail, CommitFails, Released, tables, locks, drafts
  <1>3. CASE UNCHANGED vars
    BY <1>3 DEF vars
  <1> QED
    BY <1>1, <1>2, <1>3 DEF Next

\* A granted guard meets nobody it excludes.
LEMMA SharedIsGranted ==
    ASSUME NEW t \in Transactions, NEW u \in Transactions, t # u, GuardedRead(t)
    PROVE  want[t].series \notin exclusive[u]
  BY DEF GuardedRead, Blockers, Others

LEMMA ExclusiveIsGranted ==
    ASSUME NEW t \in Transactions, NEW u \in Transactions, t # u, Guard(t)
    PROVE  want[t].series \notin exclusive[u] \cup shared[u]
  BY DEF Guard, Blockers, Others

\* A statement that reaches its row meets no other writer of it.
LEMMA RowIsFree ==
    ASSUME NEW t \in Transactions, NEW u \in Transactions, t # u, Write(t), OneWriter,
           want[t].id \in Ids
    PROVE  pending[u][want[t].id] = NoRow
  <1>1. CASE pending[t][want[t].id] # NoRow
    BY <1>1 DEF OneWriter
  <1>2. CASE pending[t][want[t].id] = NoRow
    <2>1. (want[t].expected = 0) <=> (row[want[t].id] = NoRow)
      BY <1>2 DEF Write, Writable, View, Matches
    <2>2. want[t].expected # 0 => Matches(row[want[t].id], want[t])
      BY <1>2 DEF Write, Writable, View
    <2> QED
      BY <1>2, <2>1, <2>2 DEF Write, Blockers, Others
  <1> QED
    BY <1>1, <1>2

\* What a statement stores follows the committed row.
LEMMA StoredFollows ==
    ASSUME GuardInv, NEW t \in Transactions, Write(t)
    PROVE  /\ want[t].id \in Ids
           /\ Stored(t) \in Row
           /\ Follows(Stored(t), want[t].id)
           /\ pending[t][want[t].id] # NoRow =>
                 want[t].id \in Plain \/ pending[t][want[t].id].series = Stored(t).series
           /\ IF want[t].id \in Plain THEN Stored(t).series = None
              ELSE Stored(t).series \in exclusive[t]
  <1> DEFINE i == want[t].id
  <1>1. i \in Ids /\ want[t].expected \in Nat
    BY DEF Write, GuardInv, CallIsReady, Ready, TypeOK, Want
  <1>2. pending[t][i] \in Rows /\ row[i] \in Rows
    BY <1>1 DEF GuardInv, TypeOK
  <1>3. Stored(t) \in Row
    BY <1>1, StoredTyped DEF GuardInv
  <1>4. IF i \in Plain THEN want[t].series = None ELSE want[t].series \in exclusive[t]
    BY DEF Write, GuardInv, CallIsReady, Ready
  <1>5. i \in Plain => row[i].series = None /\ (pending[t][i] # NoRow => pending[t][i].series = None)
    BY <1>1 DEF GuardInv, RowsAreSound, PendingIsGuarded
  <1>6. CASE want[t].expected = 0
    <2>1. pending[t][i] = NoRow /\ row[i] = NoRow
      BY <1>6 DEF Write, Writable, View
    <2> QED
      BY <1>1, <1>3, <1>4, <1>6, <2>1 DEF Stored, Follows, NoRow
  <1>7. CASE want[t].expected # 0 /\ pending[t][i] = NoRow
    <2>1. Matches(row[i], want[t])
      BY <1>7 DEF Write, Writable, View
    <2> QED
      BY <1>1, <1>3, <1>4, <1>5, <1>7, <2>1 DEF Stored, Follows, Matches, NoRow
  <1>8. CASE want[t].expected # 0 /\ pending[t][i] # NoRow
    <2>1. Matches(pending[t][i], want[t])
      BY <1>8 DEF Write, Writable, View
    <2>2. Follows(pending[t][i], i)
      BY <1>1, <1>8 DEF GuardInv, PendingIsGuarded
    <2>3. row[i].version \in Nat /\ pending[t][i].saves \in Nat
      BY <1>2 DEF Rows, Row, NoRow
    <2> QED
      BY <1>1, <1>3, <1>4, <1>5, <1>8, <2>1, <2>2, <2>3 DEF Stored, Follows, Matches
  <1> QED
    BY <1>6, <1>7, <1>8

\* Guards go on excluding one another, and a guard relied on stays.
LEMMA GuardsStep == ASSUME GuardInv, [Next]_vars PROVE GuardsExclude' /\ ReliedIsHeld'
  <1> USE DEF GuardInv, TypeOK, GuardsExclude, ReliedIsHeld
  <1>1. ASSUME NEW t \in Transactions, GuardedRead(t) PROVE GuardsExclude' /\ ReliedIsHeld'
    <2>1. exclusive' = exclusive /\ shared' = [shared EXCEPT ![t] = @ \cup {want[t].series}]
      BY <1>1 DEF GuardedRead
    <2>2. relied' = [relied EXCEPT ![t] = @ \cup {want[t].series}]
      BY <1>1 DEF GuardedRead, Rely
    <2> QED
      BY <1>1, <2>1, <2>2, SharedIsGranted
  <1>2. ASSUME NEW t \in Transactions, Guard(t) PROVE GuardsExclude' /\ ReliedIsHeld'
    <2>1. shared' = shared /\ exclusive' = [exclusive EXCEPT ![t] = @ \cup {want[t].series}]
      BY <1>2 DEF Guard
    <2>2. relied' = [relied EXCEPT ![t] = @ \cup {want[t].series}]
      BY <1>2 DEF Guard, Rely
    <2> QED
      BY <1>2, <2>1, <2>2, ExclusiveIsGranted
  <1>3. ASSUME NEW t \in Transactions, Dropped(t) PROVE GuardsExclude' /\ ReliedIsHeld'
    BY <1>3 DEF Dropped
  <1>4. CASE UNCHANGED <<shared, exclusive, relied>>
    BY <1>4
  <1>5. ASSUME NEW t \in Transactions, Write(t) \/ Restored(t)
        PROVE  UNCHANGED <<shared, exclusive, relied>>
    BY <1>5 DEF Write, Restored, Undone, locks
  <1>6. ASSUME NEW t \in Transactions, Committed(t) PROVE Dropped(t)
    BY <1>6 DEF Committed, Released
  <1> QED
    BY StepKinds, <1>1, <1>2, <1>3, <1>4, <1>5, <1>6

\* A row keeps one uncommitted writer.
LEMMA OneWriterStep == ASSUME GuardInv, [Next]_vars PROVE OneWriter'
  <1> USE DEF GuardInv, TypeOK, OneWriter
  <1>1. ASSUME NEW t \in Transactions, Write(t) PROVE OneWriter'
    <2>1. pending' = [pending EXCEPT ![t][want[t].id] = Stored(t)]
      BY <1>1 DEF Write
    <2>2. \A u \in Transactions \ {t} : pending[u][want[t].id] = NoRow
      BY <1>1, StoredFollows, RowIsFree
    <2> QED
      BY <2>1, <2>2
  <1>2. ASSUME NEW t \in Transactions, Restored(t) PROVE OneWriter'
    <2>1. pending' = [pending EXCEPT ![t][want[t].id] = want[t].undo]
      BY <1>2 DEF Restored, Undone
    <2>2. want[t].id \in Ids /\ pending[t][want[t].id] # NoRow
      BY <1>2 DEF Restored, CallIsReady, Ready
    <2> QED
      BY <2>1, <2>2
  <1>3. ASSUME NEW t \in Transactions, Dropped(t) PROVE OneWriter'
    BY <1>3 DEF Dropped
  <1>4. CASE UNCHANGED pending
    BY <1>4
  <1>5. ASSUME NEW t \in Transactions, GuardedRead(t) \/ Guard(t) PROVE UNCHANGED pending
    BY <1>5 DEF GuardedRead, Guard, drafts
  <1>6. ASSUME NEW t \in Transactions, Committed(t) PROVE Dropped(t)
    BY <1>6 DEF Committed, Released
  <1> QED
    BY StepKinds, <1>1, <1>2, <1>3, <1>4, <1>5, <1>6

\* The rows a commit writes, and those it leaves.
LEMMA CommittedRow ==
    ASSUME GuardInv, NEW t \in Transactions, Committed(t), NEW i \in Ids
    PROVE  /\ pending[t][i] = NoRow => row'[i] = row[i]
           /\ pending[t][i] # NoRow =>
                 /\ row'[i].version = pending[t][i].version
                 /\ row'[i].series = pending[t][i].series
                 /\ row'[i].saves = row[i].saves + pending[t][i].saves
  <1>1. CASE pending[t][i] = NoRow
    BY <1>1 DEF Committed
  <1>2. CASE pending[t][i] # NoRow
    <2>1. pending[t][i] \in Row
      BY <1>2 DEF GuardInv, TypeOK, Rows
    <2>2. row'[i] = [pending[t][i] EXCEPT !.saves = row[i].saves + @]
      BY <1>2 DEF Committed
    <2> QED
      BY <1>2, <2>1, <2>2 DEF Row
  <1> QED
    BY <1>1, <1>2

\* Uncommitted rows stay in the series of their writer, committed ones count.
LEMMA RowsStep == ASSUME GuardInv, [Next]_vars PROVE PendingIsGuarded' /\ RowsAreSound'
  <1> USE DEF GuardInv, TypeOK
  <1>1. ASSUME NEW t \in Transactions, Write(t) PROVE PendingIsGuarded' /\ RowsAreSound'
    <2>1. pending' = [pending EXCEPT ![t][want[t].id] = Stored(t)]
      BY <1>1 DEF Write
    <2>2. UNCHANGED <<row, exclusive>>
      BY <1>1 DEF Write, tables, locks
    <2> QED
      BY <1>1, <2>1, <2>2, StoredFollows DEF PendingIsGuarded, Follows, RowsAreSound
  <1>2. ASSUME NEW t \in Transactions, Restored(t) PROVE PendingIsGuarded' /\ RowsAreSound'
    <2>1. pending' = [pending EXCEPT ![t][want[t].id] = want[t].undo]
      BY <1>2 DEF Restored, Undone
    <2>2. UNCHANGED <<row, exclusive>>
      BY <1>2 DEF Restored, Undone
    <2>3. /\ want[t].id \in Ids \ Plain
          /\ pending[t][want[t].id] # NoRow
          /\ want[t].undo # NoRow =>
                Follows(want[t].undo, want[t].id) /\ want[t].undo.series = pending[t][want[t].id].series
      BY <1>2 DEF Restored, CallIsReady, Ready
    <2> QED
      BY <2>1, <2>2, <2>3 DEF PendingIsGuarded, Follows, RowsAreSound
  <1>3. ASSUME NEW t \in Transactions, Dropped(t), UNCHANGED <<row, edition>>
        PROVE  PendingIsGuarded' /\ RowsAreSound'
    BY <1>3 DEF Dropped, PendingIsGuarded, Follows, RowsAreSound
  <1>4. ASSUME NEW t \in Transactions, Committed(t) PROVE PendingIsGuarded' /\ RowsAreSound'
    <2>1. RowsAreSound'
      <3> SUFFICES ASSUME NEW i \in Ids
                   PROVE  row'[i].version = row'[i].saves /\ (i \in Plain => row'[i].series = None)
        BY DEF RowsAreSound
      <3>1. CASE pending[t][i] = NoRow
        BY <1>4, <3>1, CommittedRow DEF RowsAreSound
      <3>2. CASE pending[t][i] # NoRow
        <4>1. row'[i].version = row[i].version + pending[t][i].saves
          BY <1>4, <3>2, CommittedRow DEF PendingIsGuarded, Follows
        <4>2. row'[i].saves = row[i].saves + pending[t][i].saves /\ row[i].version = row[i].saves
          BY <1>4, <3>2, CommittedRow DEF RowsAreSound
        <4>3. i \in Plain => row'[i].series = None
          BY <1>4, <3>2, CommittedRow DEF PendingIsGuarded
        <4> QED
          BY <4>1, <4>2, <4>3
      <3> QED
        BY <3>1, <3>2
    <2>2. PendingIsGuarded'
      <3> SUFFICES ASSUME NEW u \in Transactions, NEW i \in Ids, pending'[u][i] # NoRow
                   PROVE  /\ Follows(pending[u][i], i)'
                          /\ i \in Plain => pending'[u][i].series = None
                          /\ i \notin Plain => pending'[u][i].series \in exclusive'[u]
        BY DEF PendingIsGuarded
      <3>1. u # t /\ pending'[u] = pending[u] /\ exclusive'[u] = exclusive[u]
        BY <1>4 DEF Committed, Released, Dropped
      <3>2. row'[i] = row[i]
        BY <1>4, <3>1, CommittedRow DEF OneWriter
      <3> QED
        BY <3>1, <3>2 DEF PendingIsGuarded, Follows
    <2> QED
      BY <2>1, <2>2
  <1>5. ASSUME NEW t \in Transactions, GuardedRead(t) \/ Guard(t)
        PROVE  PendingIsGuarded' /\ RowsAreSound'
    <2>1. UNCHANGED <<row, pending>> /\ \A u \in Transactions : exclusive[u] \subseteq exclusive'[u]
      BY <1>5 DEF GuardedRead, Guard, tables, drafts
    <2> QED
      BY <2>1 DEF PendingIsGuarded, Follows, RowsAreSound
  <1>6. CASE UNCHANGED <<row, edition, shared, exclusive, relied, seen, pending>>
    BY <1>6 DEF PendingIsGuarded, Follows, RowsAreSound
  <1> QED
    BY StepKinds, <1>1, <1>2, <1>3, <1>4, <1>5, <1>6

\* A commit changes only series its transaction has for itself.
LEMMA ChangedIsExclusive ==
    ASSUME GuardInv, NEW t \in Transactions
    PROVE  Changed(t) \subseteq exclusive[t]
  <1> SUFFICES ASSUME NEW s \in Changed(t) PROVE s \in exclusive[t]
    OBVIOUS
  <1>1. PICK i \in Ids : pending[t][i] # NoRow /\ s \in {pending[t][i].series, row[i].series}
    BY DEF Changed
  <1>2. s \in Series /\ s # None
    BY TableAssumption DEF Changed, TableAssumption
  <1>3. i \notin Plain
    BY <1>1, <1>2 DEF GuardInv, PendingIsGuarded, RowsAreSound
  <1>4. row[i] = NoRow => row[i].series = None
    BY DEF NoRow
  <1> QED
    BY <1>1, <1>2, <1>3, <1>4 DEF GuardInv, PendingIsGuarded, Follows

LEMMA SeriesStep == ASSUME GuardInv, [Next]_vars PROVE SeriesStands'
  <1> USE DEF GuardInv, TypeOK, SeriesStands
  <1>1. ASSUME NEW t \in Transactions, GuardedRead(t) \/ Guard(t) PROVE SeriesStands'
    <2>1. edition' = edition /\ Rely(t, want[t].series) /\ want[t].series \in Series
      BY <1>1 DEF GuardedRead, Guard, tables, CallIsReady, Ready
    <2> QED
      BY <2>1 DEF Rely
  <1>2. ASSUME NEW t \in Transactions, Committed(t) PROVE SeriesStands'
    <2> SUFFICES ASSUME NEW u \in Transactions, NEW s \in relied'[u]
                 PROVE  seen'[u][s] = edition'[s]
      OBVIOUS
    <2>1. u # t /\ s \in relied[u] /\ seen'[u] = seen[u]
      BY <1>2 DEF Committed, Released, Dropped
    <2>2. s \in Series /\ s \notin exclusive[t]
      BY <2>1 DEF ReliedIsHeld, GuardsExclude
    <2>3. s \notin Changed(t)
      BY <2>2, ChangedIsExclusive
    <2>4. edition'[s] = edition[s]
      BY <1>2, <2>2, <2>3 DEF Committed
    <2> QED
      BY <2>1, <2>4
  <1>3. ASSUME NEW t \in Transactions, Dropped(t), UNCHANGED <<row, edition>> PROVE SeriesStands'
    BY <1>3 DEF Dropped
  <1>4. CASE UNCHANGED <<edition, relied, seen>>
    BY <1>4
  <1>5. ASSUME NEW t \in Transactions, Write(t) \/ Restored(t)
        PROVE  UNCHANGED <<edition, relied, seen>>
    BY <1>5 DEF Write, Restored, tables, locks
  <1> QED
    BY StepKinds, <1>1, <1>2, <1>3, <1>4, <1>5

-----------------------------------------------------------------------------
(* What a transaction knows of itself.                                      *)

Step(t) == Work(t) \/ Fail(t) \/ CommitFails(t)

\* A step of t leaves the other transactions as they are.
LEMMA Bystander ==
    ASSUME TypeOK, NEW t \in Transactions, NEW u \in Transactions, t # u, Step(t)
    PROVE  /\ stage'[u] = stage[u] /\ want'[u] = want[u]
           /\ pending'[u] = pending[u] /\ enqueued'[u] = enqueued[u]
           /\ shared'[u] = shared[u] /\ exclusive'[u] = exclusive[u]
           /\ writes'[u] = writes[u] /\ guarded'[u] = guarded[u] /\ outcome'[u] = outcome[u]
  <1> USE DEF TypeOK, Goto, Return, tables, locks, drafts
  <1>1. CASE \/ Begin(t) \/ \E s \in Series : QueryWithin(t, s)
             \/ GuardedRead(t) \/ (\E i \in Ids : Load(t, i)) \/ Enqueue(t) \/ Decline(t)
    BY <1>1 DEF Begin, QueryWithin, GuardedRead, Load, Enqueue, Settle, Decline, Call
  <1>2. CASE \/ SavePlain(t) \/ \E s \in Series, k \in Keys : SaveGuarded(t, s, k)
             \/ Guard(t) \/ WriteConflicts(t) \/ CreateMeetsKey(t)
    BY <1>2 DEF SavePlain, SaveGuarded, Guard, WriteConflicts, CreateMeetsKey
  <1>3. CASE Write(t)
    BY <1>3 DEF Write, Settle
  <1>4. CASE Key(t) \/ KeyClashes(t) \/ Translate(t)
    BY <1>4 DEF Key, Settle, KeyClashes, Undone, Translate
  <1>5. CASE Deadlock(t) \/ Accept(t) \/ Fail(t)
    BY <1>5 DEF Deadlock, Killed, Undone, Dropped, Accept, Fail
  <1>6. CASE Rollback(t) \/ Commit(t) \/ CommitFails(t)
    BY <1>6 DEF Rollback, Commit, CommitFails, Committed, Released, Dropped
  <1> QED
    BY <1>1, <1>2, <1>3, <1>4, <1>5, <1>6 DEF Step, Work

\* A commit of t does not touch the row another transaction is writing.
LEMMA RowStays ==
    ASSUME GuardInv, NEW t \in Transactions, NEW u \in Transactions, t # u, Step(t),
           NEW i \in Ids, pending[u][i] # NoRow
    PROVE  row'[i] = row[i]
  <1>1. CASE Committed(t)
    BY <1>1, CommittedRow DEF GuardInv, OneWriter
  <1>2. CASE ~Committed(t)
    BY <1>2 DEF Step, Work, Begin, QueryWithin, GuardedRead, Load, Enqueue, Decline, SavePlain, SaveGuarded, Guard,
       Write, WriteConflicts, CreateMeetsKey, Key, KeyClashes, Translate, Deadlock, Accept, Fail,
       Rollback, Commit, CommitFails, tables
  <1> QED
    BY <1>1, <1>2

LEMMA OthersReady ==
    ASSUME GuardInv, NEW t \in Transactions, NEW u \in Transactions, t # u, Step(t)
    PROVE  Ready(u)' /\ Marked(u)' /\ Unsettled(u)'
  <1>1. Ready(u) /\ Marked(u) /\ Unsettled(u)
    BY DEF GuardInv, CallIsReady, MarksAreKept, FirstWrite
  <1>2. TypeOK
    BY DEF GuardInv
  <1>3. Marked(u)' /\ Unsettled(u)'
    BY <1>1, <1>2, Bystander DEF Marked, Unsettled
  <1>4. stage[u] = "keying" => row'[want[u].id] = row[want[u].id]
    BY <1>1, RowStays DEF Ready
  <1>5. Ready(u)'
    BY <1>1, <1>2, <1>4, Bystander DEF Ready, Follows
  <1> QED
    BY <1>3, <1>5

\* Every action leaves its transaction ready for the next one.
LEMMA OwnReady ==
    ASSUME GuardInv, NEW t \in Transactions, Step(t)
    PROVE  Ready(t)' /\ Marked(t)' /\ Unsettled(t)'
  <1> USE DEF Goto, Return, tables, locks, drafts
  <1>1. TypeOK /\ Ready(t) /\ Marked(t) /\ Unsettled(t)
    BY DEF GuardInv, CallIsReady, MarksAreKept, FirstWrite
  <1>2. CASE Begin(t)
    BY <1>1, <1>2 DEF Begin, TypeOK, Ready, Marked, Unsettled
  <1>3. ASSUME NEW s \in Series, QueryWithin(t, s) PROVE Ready(t)' /\ Marked(t)' /\ Unsettled(t)'
    <2>1. stage'[t] = "reading" /\ want'[t].series = s /\ guarded'[t]
      BY <1>1, <1>3 DEF QueryWithin, TypeOK, NoWant
    <2> QED
      BY <1>1, <1>3, <2>1 DEF QueryWithin, Call, Ready, Marked, Unsettled
  <1>4. CASE GuardedRead(t)
    <2>1. guarded[t]
      BY <1>1, <1>4, TableAssumption DEF GuardedRead, Ready, Marked, TableAssumption
    <2> QED
      BY <1>1, <1>4, <2>1 DEF GuardedRead, TypeOK, Ready, Marked, Unsettled
  <1>5. ASSUME NEW i \in Ids, Load(t, i) PROVE Ready(t)' /\ Marked(t)' /\ Unsettled(t)'
    <2>1. stage'[t] = "loaded" /\ want'[t].series = None /\ want'[t].id = i
      BY <1>1, <1>5 DEF Load, TypeOK, NoWant
    <2> QED
      BY <1>1, <1>5, <2>1 DEF Load, Call, Ready, Marked, Unsettled
  <1>6. CASE SavePlain(t)
    BY <1>1, <1>6 DEF SavePlain, TypeOK, Ready, Marked, Unsettled
  <1>7. ASSUME NEW s \in Series, NEW k \in Keys, SaveGuarded(t, s, k)
        PROVE  Ready(t)' /\ Marked(t)' /\ Unsettled(t)'
    <2>1. stage'[t] = "guarding" /\ want'[t].series = s /\ want'[t].id = want[t].id /\ guarded'[t]
      BY <1>1, <1>7 DEF SaveGuarded, TypeOK
    <2> QED
      BY <1>1, <1>7, <2>1 DEF SaveGuarded, Ready, Marked, Unsettled
  <1>8. CASE Guard(t)
    <2>1. guarded[t]
      BY <1>1, <1>8, TableAssumption DEF Guard, Ready, Marked, TableAssumption
    <2> QED
      BY <1>1, <1>8, <2>1 DEF Guard, TypeOK, Ready, Marked, Unsettled
  <1>9. CASE Write(t)
    <2>1. want[t].id \in Ids /\ want[t] \in Want /\ pending[t][want[t].id] \in Rows
      BY <1>1, <1>9 DEF Write, Ready, TypeOK
    <2>2. /\ want'[t].id = want[t].id /\ want'[t].series = want[t].series
          /\ want'[t].undo = pending[t][want[t].id]
      BY <1>1, <1>9, <2>1 DEF Write, TypeOK, Want
    <2>3. /\ Stored(t) # NoRow
          /\ pending'[t][want[t].id] = Stored(t)
          /\ \A i \in Ids \ {want[t].id} : pending'[t][i] = pending[t][i]
      BY <1>1, <1>9, <2>1, StoredFollows, NothingTyped DEF Write, TypeOK
    <2>4. UNCHANGED <<row, shared, exclusive, guarded, outcome>>
      BY <1>9 DEF Write, Settle
    <2>5. Marked(t)'
      BY <1>1, <1>9, <2>2, <2>4 DEF Marked, Write
    <2>6. CASE want[t].id \in Plain
      <3>1. stage'[t] = "open" /\ writes'[t] # 0
        BY <1>1, <1>9, <2>6 DEF Write, Settle, TypeOK
      <3> QED
        BY <1>1, <1>9, <2>4, <2>5, <3>1 DEF Ready, Unsettled, Marked, Write
    <2>7. CASE want[t].id \notin Plain
      <3>1. stage'[t] = "keying" /\ writes' = writes
        BY <1>1, <1>9, <2>7 DEF Write, TypeOK
      <3>2. Ready(t)'
        <4>1. pending[t][want[t].id] # NoRow =>
                /\ Follows(pending[t][want[t].id], want[t].id)
                /\ pending[t][want[t].id].series = Stored(t).series
          BY <1>9, <2>1, <2>7, StoredFollows DEF GuardInv, PendingIsGuarded
        <4> QED
          BY <2>1, <2>2, <2>3, <2>4, <2>7, <3>1, <4>1 DEF Ready, Follows
      <3>3. Unsettled(t)'
        BY <1>1, <1>9, <2>1, <2>2, <2>3, <2>4, <3>1 DEF Unsettled, Marked, Write
      <3> QED
        BY <2>5, <3>2, <3>3
    <2> QED
      BY <2>6, <2>7
  <1>10. CASE WriteConflicts(t)
    BY <1>1, <1>10 DEF WriteConflicts, TypeOK, Ready, Marked, Unsettled
  <1>11. CASE CreateMeetsKey(t)
    BY <1>1, <1>11 DEF CreateMeetsKey, TypeOK, Ready, Marked, Unsettled
  <1>12. CASE Key(t)
    <2>1. stage'[t] = "open" /\ writes'[t] # 0 /\ outcome' = outcome
      BY <1>1, <1>12 DEF Key, Settle, TypeOK
    <2> QED
      BY <1>1, <1>12, <2>1 DEF Key, Ready, Marked, Unsettled
  <1>13. CASE KeyClashes(t)
    <2>1. want[t].id \in Ids /\ pending[t][want[t].id] # NoRow
      BY <1>1, <1>13 DEF KeyClashes, Ready
    <2>2. /\ stage'[t] = "refused" /\ pending'[t][want[t].id] = want[t].undo
          /\ \A i \in Ids \ {want[t].id} : pending'[t][i] = pending[t][i]
      BY <1>1, <1>13, <2>1 DEF KeyClashes, Undone, TypeOK
    <2>3. Ready(t)' /\ Marked(t)'
      BY <1>1, <1>13, <2>1, <2>2 DEF KeyClashes, Undone, Ready, Marked
    <2>4. Unsettled(t)'
      BY <1>1, <1>13, <2>1, <2>2 DEF KeyClashes, Marked, Unsettled
    <2> QED
      BY <2>3, <2>4
  <1>14. CASE Translate(t)
    <2>1. stage'[t] = "returned" /\ outcome'[t] \in {"conflict", "rejected", "violation"}
      BY <1>1, <1>14 DEF Translate, Rejection, TypeOK
    <2>2. outcome'[t] = "rejected" => writes[t] = 0
      BY <1>1, <1>14 DEF Translate, Rejection, TypeOK
    <2> QED
      BY <1>1, <1>14, <2>1, <2>2 DEF Translate, Ready, Marked, Unsettled
  <1>15. CASE Deadlock(t)
    <2>1. /\ stage'[t] = "returned" /\ outcome'[t] \in {"conflict", "deadlock"}
          /\ writes' = writes /\ guarded' = guarded
      BY <1>1, <1>15 DEF Deadlock, TypeOK
    <2>2. Ready(t)'
      BY <2>1 DEF Ready
    <2>3. CASE ~UnderSavepoint(t)
      <3>1. /\ want'[t].series = None /\ shared'[t] = {} /\ exclusive'[t] = {} /\ enqueued'[t] = 0
            /\ \A i \in Ids : pending'[t][i] = NoRow
        BY <1>1, <1>15, <2>3 DEF Deadlock, Killed, Dropped, TypeOK, NoWant
      <3> QED
        BY <2>1, <2>2, <3>1 DEF Marked, Unsettled
    <2>4. CASE UnderSavepoint(t)
      <3>1. UNCHANGED <<want, shared, exclusive, enqueued>>
        BY <1>15, <2>4 DEF Deadlock, Killed, Undone
      <3> QED
        BY <1>1, <2>1, <2>2, <3>1 DEF Marked, Unsettled, Answers
    <2> QED
      BY <2>3, <2>4
  <1>16. CASE Accept(t)
    <2>1. stage'[t] = "returned" /\ outcome'[t] = "accepted"
      BY <1>1, <1>16 DEF Accept, TypeOK
    <2> QED
      BY <1>1, <1>16, <2>1 DEF Accept, Ready, Marked, Unsettled
  <1>17. CASE Fail(t)
    <2>1. stage'[t] = "returned" /\ outcome'[t] = "error"
      BY <1>1, <1>17 DEF Fail, TypeOK
    <2>2. CASE Dropped(t)
      <3>1. /\ want'[t].series = None /\ shared'[t] = {} /\ exclusive'[t] = {} /\ enqueued'[t] = 0
            /\ \A i \in Ids : pending'[t][i] = NoRow
        BY <1>1, <2>2 DEF Dropped, TypeOK, NoWant
      <3> QED
        BY <1>17, <2>1, <3>1 DEF Fail, Ready, Marked, Unsettled
    <2>3. CASE UNCHANGED <<want, locks, drafts>>
      BY <1>1, <1>17, <2>1, <2>3 DEF Fail, Ready, Marked, Unsettled, Answers
    <2> QED
      BY <1>17, <2>2, <2>3 DEF Fail
  <1>18. CASE Rollback(t) \/ Commit(t) \/ CommitFails(t)
    <2>1. /\ stage'[t] = "done" /\ want'[t].series = None
          /\ shared'[t] = {} /\ exclusive'[t] = {}
          /\ enqueued'[t] = 0 /\ \A i \in Ids : pending'[t][i] = NoRow
      BY <1>1, <1>18 DEF Rollback, Commit, CommitFails, Committed, Released, Dropped, TypeOK, NoWant
    <2>2. /\ guarded' = guarded /\ writes' = writes
          /\ outcome'[t] = outcome[t] \/ outcome'[t] = "error"
      BY <1>1, <1>18 DEF Rollback, Commit, CommitFails, Committed, TypeOK
    <2> QED
      BY <1>1, <2>1, <2>2 DEF Ready, Marked, Unsettled
  <1>19. CASE Enqueue(t)
    <2>1. stage'[t] = "open" /\ writes'[t] # 0 /\ outcome' = outcome
      BY <1>1, <1>19 DEF Enqueue, Settle, TypeOK
    <2> QED
      BY <1>1, <1>19, <2>1 DEF Enqueue, Call, Ready, Marked, Unsettled
  <1>20. CASE Decline(t)
    <2>1. stage'[t] = "returned" /\ outcome'[t] = "declined"
      BY <1>1, <1>20 DEF Decline, TypeOK
    <2> QED
      BY <1>1, <1>20, <2>1 DEF Decline, Ready, Marked, Unsettled
  <1> QED
    BY <1>2, <1>3, <1>4, <1>5, <1>6, <1>7, <1>8, <1>9, <1>10, <1>11, <1>12, <1>13, <1>14,
       <1>15, <1>16, <1>17, <1>18, <1>19, <1>20 DEF Step, Work

LEMMA LocalStep ==
    ASSUME GuardInv, [Next]_vars
    PROVE  CallIsReady' /\ MarksAreKept' /\ FirstWrite'
  <1>1. ASSUME NEW t \in Transactions, Step(t) PROVE CallIsReady' /\ MarksAreKept' /\ FirstWrite'
    BY <1>1, OwnReady, OthersReady DEF CallIsReady, MarksAreKept, FirstWrite
  <1>2. CASE UNCHANGED vars
    BY <1>2 DEF vars, GuardInv, CallIsReady, Ready, Follows, MarksAreKept, Marked, FirstWrite, Unsettled
  <1> QED
    BY <1>1, <1>2 DEF Next, Step

-----------------------------------------------------------------------------
(* Theorems.                                                                *)

LEMMA InitGuardInv == Init => GuardInv
  <1> SUFFICES ASSUME Init PROVE GuardInv
    OBVIOUS
  <1>1. TypeOK
    BY InitTyped
  <1>2. GuardsExclude /\ ReliedIsHeld /\ OneWriter /\ PendingIsGuarded /\ SeriesStands
    BY DEF Init, GuardsExclude, ReliedIsHeld, OneWriter, PendingIsGuarded, SeriesStands
  <1>3. RowsAreSound
    BY TableAssumption DEF Init, RowsAreSound, TableAssumption
  <1>4. CallIsReady /\ MarksAreKept /\ FirstWrite
    BY DEF Init, CallIsReady, Ready, MarksAreKept, Marked, FirstWrite, Unsettled, NoWant
  <1> QED
    BY <1>1, <1>2, <1>3, <1>4 DEF GuardInv

LEMMA NextGuardInv == ASSUME GuardInv, [Next]_vars PROVE GuardInv'
  <1>1. TypeOK'
    BY NextTyped DEF GuardInv
  <1> QED
    BY <1>1, GuardsStep, OneWriterStep, RowsStep, LocalStep, SeriesStep DEF GuardInv

LEMMA GuardInvariant == Spec => []GuardInv
  BY InitGuardInv, NextGuardInv, PTL DEF Spec

\* Tables, locks and transactions keep their types.
THEOREM TypeCorrect == Spec => []TypeOK
  <1>1. GuardInv => TypeOK
    BY DEF GuardInv
  <1> QED
    BY <1>1, GuardInvariant, PTL

\* The precondition read under a guard holds until the decision commits.
THEOREM PreconditionsHold == Spec => []SeriesStands
  <1>1. GuardInv => SeriesStands
    BY DEF GuardInv
  <1> QED
    BY <1>1, GuardInvariant, PTL

\* No committed Save is lost under another.
THEOREM NoSaveIsLost == Spec => []VersionCountsSaves
  <1>1. GuardInv => VersionCountsSaves
    BY DEF GuardInv, RowsAreSound, VersionCountsSaves
  <1> QED
    BY <1>1, GuardInvariant, PTL

\* A refusal declared for the unique constraint commits no aggregate and no message.
THEOREM RejectionsAreEmpty == Spec => []RejectedWritesNothing
  <1>1. GuardInv => RejectedWritesNothing
    BY DEF GuardInv, FirstWrite, Unsettled, RejectedWritesNothing, Answers
  <1> QED
    BY <1>1, GuardInvariant, PTL

\* A deadlock over a guard is a conflict to repeat.
THEOREM RacesAreRetryable == Spec => RaceIsRetryable
  <1> DEFINE A == \A t \in Transactions :
                    outcome[t] = "none" /\ outcome'[t] = "deadlock" =>
                       shared[t] \cup exclusive[t] = {} /\ want[t].series = None
  <1>1. ASSUME GuardInv, [Next]_vars PROVE A
    <2> SUFFICES ASSUME NEW u \in Transactions, outcome[u] = "none", outcome'[u] = "deadlock"
                 PROVE  shared[u] \cup exclusive[u] = {} /\ want[u].series = None
      OBVIOUS
    <2>1. TypeOK /\ Marked(u)
      BY <1>1 DEF GuardInv, MarksAreKept
    <2>2. ~ UNCHANGED vars
      BY DEF vars
    <2>3. PICK t \in Transactions : Step(t)
      BY <1>1, <2>2 DEF Next, Step
    <2>4. u = t
      BY <2>1, <2>3, Bystander
    <2>5. Deadlock(t)
      BY <2>1, <2>3, <2>4 DEF Step, Work, Begin, QueryWithin, GuardedRead, Load, Enqueue, Decline,
         SavePlain, SaveGuarded, Guard, Write, Settle, WriteConflicts, CreateMeetsKey, Key,
         KeyClashes, Translate, Rejection, Accept, Fail, Rollback, Commit, CommitFails, Return,
         Goto, TypeOK
    <2>6. ~guarded[t]
      BY <2>1, <2>4, <2>5 DEF Deadlock, Return, TypeOK
    <2> QED
      BY <2>1, <2>4, <2>6 DEF Marked
  <1>2. []GuardInv /\ [][Next]_vars => [][A]_vars
    BY <1>1, PTL
  <1> QED
    BY <1>2, GuardInvariant, PTL DEF Spec, RaceIsRetryable

\* A create that lost its identity to another is never refused as a duplicate.
THEOREM RefusalsAreNoRaces == Spec => RefusalIsNoRace
  <1> DEFINE A == \A t \in Transactions :
                    outcome[t] = "none" /\ outcome'[t] = "rejected" /\ want[t].expected = 0
                       => row[want[t].id] = NoRow
  <1>1. ASSUME GuardInv, [Next]_vars PROVE A
    <2> SUFFICES ASSUME NEW u \in Transactions, outcome[u] = "none", outcome'[u] = "rejected",
                        want[u].expected = 0
                 PROVE  row[want[u].id] = NoRow
      OBVIOUS
    <2>1. TypeOK
      BY <1>1 DEF GuardInv
    <2>2. ~ UNCHANGED vars
      BY DEF vars
    <2>3. PICK t \in Transactions : Step(t)
      BY <1>1, <2>2 DEF Next, Step
    <2>4. u = t
      BY <2>1, <2>3, Bystander
    <2>5. Translate(t)
      BY <2>1, <2>3, <2>4 DEF Step, Work, Begin, QueryWithin, GuardedRead, Load, Enqueue, Decline,
         SavePlain, SaveGuarded, Guard, Write, Settle, WriteConflicts, CreateMeetsKey, Key, KeyClashes,
         Deadlock, Accept, Fail, Rollback, Commit, CommitFails, Return, Goto, TypeOK
    <2>6. ~IdentityTaken(t)
      BY <2>1, <2>4, <2>5 DEF Translate, Return, TypeOK
    <2> QED
      BY <2>4, <2>6 DEF IdentityTaken, View
  <1>2. []GuardInv /\ [][Next]_vars => [][A]_vars
    BY <1>1, PTL
  <1> QED
    BY <1>2, GuardInvariant, PTL DEF Spec, RefusalIsNoRace

=============================================================================
