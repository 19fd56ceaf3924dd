---------------------------- MODULE GuardedTable ----------------------------
(* Units of work over two tables of one tenant (postgres/uow.go, table.go,    *)
(* guard.go, unique.go).  The guarded table declares a Guard, the column that *)
(* names the series a row belongs to, and a Unique key; the plain one, whose  *)
(* identities are Plain, declares neither.  A callback reads a series under   *)
(* its shared guard (QueryWithin) and loads and saves aggregates: Save takes  *)
(* the exclusive guard of the series, opens a savepoint and writes.  What the *)
(* server does of its own accord is external: whom a statement waits for,     *)
(* which transaction it kills to break a cycle.                               *)
EXTENDS Naturals, FiniteSets

CONSTANTS Transactions,  \* executions of Within
          Ids,           \* identities of the two tables
          Plain,         \* those of the table without guard and uniqueness
          Series, Keys,  \* values of the guard column and of the unique one
          None,          \* the columns a plain row does not have
          Seed,          \* the rows at the start
          MaxCalls,      \* bound on the calls of one callback
          MaxUpsets      \* bound on the technical failures of one behaviour

\* saves counts the Saves that were committed to the row, whatever its version
\* says; in an uncommitted row, those of its own transaction.
Row == [version : Nat \ {0}, saves : Nat, series : Series \cup {None}, key : Keys \cup {None}]
NoRow == [version |-> 0, saves |-> 0, series |-> None, key |-> None]

Rows == Row \cup {NoRow}

ASSUME TableAssumption ==
    /\ Plain \subseteq Ids
    /\ None \notin Series \cup Keys \cup Ids
    /\ Seed \in [Ids -> Rows]
    /\ \A i \in Ids : Seed[i].version = Seed[i].saves
    /\ \A i \in Plain : Seed[i].series = None
    /\ MaxCalls \in Nat
    /\ MaxUpsets \in Nat

VARIABLES
    row,        \* the committed rows
    edition,    \* of each series: how many commits have changed it
    stage,      \* where each transaction is
    want,       \* the call it is executing
    shared,     \* the series whose guard it shares
    exclusive,  \* the series whose guard it has for itself
    relied,     \* the series whose guard it was ever granted
    seen,       \* of those: the edition at that moment
    pending,    \* its uncommitted rows
    enqueued,   \* its uncommitted messages in the outbox
    writes,     \* Tx.writes
    guarded,    \* Tx.guarded
    outcome,    \* what its callback answered
    calls,      \* the calls it has made
    upsets      \* technical failures so far

tables == <<row, edition>>
locks == <<shared, exclusive, relied, seen>>
drafts == <<pending, enqueued>>
vars == <<row, edition, stage, want, shared, exclusive, relied, seen, pending, enqueued, writes,
          guarded, outcome, calls, upsets>>

\* "reading" waits for a shared guard, "guarding" for an exclusive one, "writing"
\* for the row or the identity, "keying" for the unique key; "refused" has undone
\* its savepoint; "returned" is back from the callback.
Stages == {"idle", "open", "reading", "loaded", "guarding", "writing", "keying",
           "refused", "returned", "done"}

\* "declined" is a refusal of the aggregate itself, "rejected" the one declared for
\* the unique constraint, "violation" a UniqueViolation without a rejection,
\* "deadlock" a 40P01 left without a category, "error" any other technical failure.
Outcomes == {"none", "accepted", "declined", "rejected", "conflict", "violation",
             "deadlock", "error"}

\* The answers that are no error: Within commits.
Answers == {"accepted", "declined", "rejected"}

\* The arguments of the call; undo is what its savepoint restores.
Want == [id : Ids \cup {None}, series : Series \cup {None}, key : Keys \cup {None},
         expected : Nat, undo : Rows]
NoWant == [id |-> None, series |-> None, key |-> None, expected |-> 0, undo |-> NoRow]

TypeOK ==
    /\ row \in [Ids -> Rows]
    /\ edition \in [Series -> Nat]
    /\ stage \in [Transactions -> Stages]
    /\ want \in [Transactions -> Want]
    /\ shared \in [Transactions -> SUBSET Series]
    /\ exclusive \in [Transactions -> SUBSET Series]
    /\ relied \in [Transactions -> SUBSET Series]
    /\ seen \in [Transactions -> [Series -> Nat]]
    /\ pending \in [Transactions -> [Ids -> Rows]]
    /\ enqueued \in [Transactions -> Nat]
    /\ writes \in [Transactions -> Nat]
    /\ guarded \in [Transactions -> BOOLEAN]
    /\ outcome \in [Transactions -> Outcomes]
    /\ calls \in [Transactions -> Nat]
    /\ upsets \in Nat

Init ==
    /\ row = Seed
    /\ edition = [s \in Series |-> 0]
    /\ stage = [t \in Transactions |-> "idle"]
    /\ want = [t \in Transactions |-> NoWant]
    /\ shared = [t \in Transactions |-> {}]
    /\ exclusive = [t \in Transactions |-> {}]
    /\ relied = [t \in Transactions |-> {}]
    /\ seen = [t \in Transactions |-> [s \in Series |-> 0]]
    /\ pending = [t \in Transactions |-> [i \in Ids |-> NoRow]]
    /\ enqueued = [t \in Transactions |-> 0]
    /\ writes = [t \in Transactions |-> 0]
    /\ guarded = [t \in Transactions |-> FALSE]
    /\ outcome = [t \in Transactions |-> "none"]
    /\ calls = [t \in Transactions |-> 0]
    /\ upsets = 0

-----------------------------------------------------------------------------
(* The server.                                                              *)

\* What a statement of t finds under READ COMMITTED: its own writes, and what
\* the others have committed by now.
View(t, i) == IF pending[t][i] # NoRow THEN pending[t][i] ELSE row[i]

\* Mutant: the UPDATE does not ask for the version that was read.
MatchesAnyVersion(r, w) == r # NoRow /\ (w.id \in Plain \/ r.series = w.series)

\* The WHERE of the UPDATE: the version read, and a guard that does not change.
Matches(r, w) == r # NoRow /\ r.version = w.expected /\ (w.id \in Plain \/ r.series = w.series)

Others(t) == Transactions \ {t}

\* Whom the statement at hand waits for.  An INSERT waits for a transaction that
\* has inserted its identity, an UPDATE for one that has written its row, and the
\* unique index for one that has taken the key or may still give it back.
Blockers(t) ==
    LET w == want[t]
        Holds(u) ==
            \/ stage[t] = "reading" /\ w.series \in exclusive[u]
            \/ stage[t] = "guarding" /\ w.series \in exclusive[u] \cup shared[u]
            \/ /\ stage[t] = "writing"
               /\ pending[t][w.id] = NoRow
               /\ pending[u][w.id] # NoRow
               /\ (w.expected = 0) <=> (row[w.id] = NoRow)
               /\ w.expected # 0 => Matches(row[w.id], w)
            \/ /\ stage[t] = "keying"
               /\ \E i \in Ids \ (Plain \cup {w.id}) :
                    pending[u][i] # NoRow /\ w.key \in {pending[u][i].key, row[i].key}
    IN  {u \in Others(t) : Holds(u)}

\* t waits in a cycle: a set in which everyone waits for one of the others, and
\* no part of which could go on without the rest.
InCycle(t) ==
    \E C \in SUBSET Transactions :
        /\ t \in C
        /\ \A D \in SUBSET C \ {{}} :
             \E u \in D : Blockers(u) \cap (IF D = C THEN C ELSE C \ D) # {}

-----------------------------------------------------------------------------
(* The callback.                                                            *)

Goto(t, s) == stage' = [stage EXCEPT ![t] = s]

\* The callback returns.
Return(t, o) ==
    /\ Goto(t, "returned")
    /\ outcome' = [outcome EXCEPT ![t] = o]

Call(t) ==
    /\ stage[t] = "open"
    /\ calls[t] < MaxCalls
    /\ calls' = [calls EXCEPT ![t] = @ + 1]

\* Within: the transaction is open and the callback runs.
Begin(t) ==
    /\ stage[t] = "idle"
    /\ Goto(t, "open")
    /\ UNCHANGED <<tables, want, locks, drafts, writes, guarded, outcome, calls, upsets>>

\* Mutant: QueryWithin does not mark the transaction as guarded.
QueryWithinUnmarked(t, s) ==
    /\ Call(t)
    /\ Goto(t, "reading")
    /\ want' = [want EXCEPT ![t] = [NoWant EXCEPT !.series = s]]
    /\ UNCHANGED <<tables, locks, drafts, writes, guarded, outcome, upsets>>

\* QueryWithin asks for the shared guard of the series.
QueryWithin(t, s) ==
    /\ Call(t)
    /\ Goto(t, "reading")
    /\ want' = [want EXCEPT ![t] = [NoWant EXCEPT !.series = s]]
    /\ guarded' = [guarded EXCEPT ![t] = TRUE]
    /\ UNCHANGED <<tables, locks, drafts, writes, outcome, upsets>>

\* A guard is granted, and what follows is read or written after it.
Rely(t, s) ==
    /\ relied' = [relied EXCEPT ![t] = @ \cup {s}]
    /\ seen' = IF s \in relied[t] THEN seen ELSE [seen EXCEPT ![t][s] = edition[s]]

\* The lock is granted and the SELECT, a statement of its own, reads the series.
GuardedRead(t) ==
    LET s == want[t].series
    IN  /\ stage[t] = "reading"
        /\ Blockers(t) = {}
        /\ shared' = [shared EXCEPT ![t] = @ \cup {s}]
        /\ Rely(t, s)
        /\ Goto(t, "open")
        /\ UNCHANGED <<tables, want, exclusive, drafts, writes, guarded, outcome, calls, upsets>>

\* Load: the row and its version, zero when there is none.
Load(t, i) ==
    /\ Call(t)
    /\ Goto(t, "loaded")
    /\ want' = [want EXCEPT ![t] = [NoWant EXCEPT !.id = i, !.expected = View(t, i).version]]
    /\ UNCHANGED <<tables, locks, drafts, writes, guarded, outcome, upsets>>

\* Decide: the aggregate refuses, which is no error and saves nothing of its own;
\* what the callback saved before stays.
Decline(t) ==
    /\ stage[t] = "loaded"
    /\ Return(t, "declined")
    /\ UNCHANGED <<tables, want, locks, drafts, writes, guarded, calls, upsets>>

\* Save of the state the aggregate decided on.  The state of a guarded row has a
\* series and a key of its own, which for an existing row may be others.
SavePlain(t) ==
    /\ stage[t] = "loaded"
    /\ want[t].id \in Plain
    /\ Goto(t, "writing")
    /\ UNCHANGED <<tables, want, locks, drafts, writes, guarded, outcome, calls, upsets>>

SaveGuarded(t, s, k) ==
    /\ stage[t] = "loaded"
    /\ want[t].id \notin Plain
    /\ Goto(t, "guarding")
    /\ want' = [want EXCEPT ![t] = [id |-> @.id, series |-> s, key |-> k,
                                    expected |-> @.expected, undo |-> NoRow]]
    /\ guarded' = [guarded EXCEPT ![t] = TRUE]
    /\ UNCHANGED <<tables, locks, drafts, writes, outcome, calls, upsets>>

\* The exclusive guard is granted; the savepoint opens after it.
Guard(t) ==
    LET s == want[t].series
    IN  /\ stage[t] = "guarding"
        /\ Blockers(t) = {}
        /\ exclusive' = [exclusive EXCEPT ![t] = @ \cup {s}]
        /\ Rely(t, s)
        /\ Goto(t, "writing")
        /\ UNCHANGED <<tables, want, shared, drafts, writes, guarded, outcome, calls, upsets>>

Stored(t) ==
    LET w == want[t]
    IN  [version |-> w.expected + 1, saves |-> pending[t][w.id].saves + 1, series |-> w.series, key |-> w.key]

\* The statement is one of Tx.writes, and the callback goes on.
Settle(t) ==
    /\ writes' = [writes EXCEPT ![t] = @ + 1]
    /\ Goto(t, "open")
    /\ UNCHANGED outcome

\* The outbox takes a message, which counts as a write.
Enqueue(t) ==
    /\ Call(t)
    /\ Settle(t)
    /\ enqueued' = [enqueued EXCEPT ![t] = @ + 1]
    /\ UNCHANGED <<tables, want, locks, pending, guarded, upsets>>

\* The row, or the identity, is t's: the statement affects it.
Writable(t) ==
    LET w == want[t]
    IN  IF w.expected = 0 THEN View(t, w.id) = NoRow ELSE Matches(View(t, w.id), w)

\* The INSERT or the UPDATE reaches its row.  The unique index comes next.
Write(t) ==
    LET i == want[t].id
    IN  /\ stage[t] = "writing"
        /\ Blockers(t) = {}
        /\ Writable(t)
        /\ want' = [want EXCEPT ![t].undo = pending[t][i]]
        /\ pending' = [pending EXCEPT ![t][i] = Stored(t)]
        /\ IF i \in Plain THEN Settle(t)
           ELSE Goto(t, "keying") /\ UNCHANGED <<writes, outcome>>
        /\ UNCHANGED <<tables, locks, enqueued, guarded, calls, upsets>>

\* No row is affected: ON CONFLICT DO NOTHING, or the WHERE does not match.
WriteConflicts(t) ==
    /\ stage[t] = "writing"
    /\ Blockers(t) = {}
    /\ ~Writable(t)
    /\ Return(t, "conflict")
    /\ UNCHANGED <<tables, want, locks, drafts, writes, guarded, calls, upsets>>

\* A concurrent create of the same identity and key may be reported on the
\* unique constraint, before the primary key.
CreateMeetsKey(t) ==
    LET w == want[t]
    IN  /\ stage[t] = "writing"
        /\ Blockers(t) = {}
        /\ w.id \notin Plain
        /\ w.expected = 0
        /\ row[w.id] # NoRow
        /\ row[w.id].key = w.key
        /\ pending[t][w.id] = NoRow
        /\ Goto(t, "refused")
        /\ UNCHANGED <<tables, want, locks, drafts, writes, guarded, outcome, calls, upsets>>

Clash(t) ==
    \E i \in Ids \ (Plain \cup {want[t].id}) : View(t, i).key = want[t].key

\* The key is free: the savepoint is released.
Key(t) ==
    /\ stage[t] = "keying"
    /\ Blockers(t) = {}
    /\ ~Clash(t)
    /\ Settle(t)
    /\ UNCHANGED <<tables, want, locks, drafts, guarded, calls, upsets>>

\* Mutant: the guard is taken after the savepoint, and goes with it.
UndoneWithGuard(t) ==
    /\ pending' = [pending EXCEPT ![t][want[t].id] = want[t].undo]
    /\ exclusive' = [exclusive EXCEPT ![t] = @ \ {want[t].series}]

\* ROLLBACK TO SAVEPOINT: the write goes, the guard taken before it stays.
Undone(t) ==
    /\ pending' = [pending EXCEPT ![t][want[t].id] = want[t].undo]
    /\ exclusive' = exclusive

KeyClashes(t) ==
    /\ stage[t] = "keying"
    /\ Blockers(t) = {}
    /\ Clash(t)
    /\ Undone(t)
    /\ Goto(t, "refused")
    /\ UNCHANGED <<tables, want, shared, relied, seen, enqueued, writes, guarded, outcome, calls, upsets>>

\* Mutant: the identity is not looked up before the refusal.
IdentityNotProbed(t) == FALSE

\* identityTaken, for a create: the violation was a race for the identity.
IdentityTaken(t) == want[t].expected = 0 /\ View(t, want[t].id) # NoRow

\* Mutant: the rejection does not look at the writes before it.
RejectionAlways(t) == "rejected"

\* Only the first write of a transaction turns into a rejection (DEC-10).
Rejection(t) == IF writes[t] = 0 THEN "rejected" ELSE "violation"

Translate(t) ==
    /\ stage[t] = "refused"
    /\ Return(t, IF IdentityTaken(t) THEN "conflict" ELSE Rejection(t))
    /\ UNCHANGED <<tables, want, locks, drafts, writes, guarded, calls, upsets>>

\* The server drops the locks and the writes of a transaction it aborts or that
\* has ended.
Dropped(t) ==
    /\ want' = [want EXCEPT ![t] = NoWant]
    /\ shared' = [shared EXCEPT ![t] = {}]
    /\ exclusive' = [exclusive EXCEPT ![t] = {}]
    /\ relied' = [relied EXCEPT ![t] = {}]
    /\ seen' = [seen EXCEPT ![t] = [s \in Series |-> 0]]
    /\ pending' = [pending EXCEPT ![t] = [i \in Ids |-> NoRow]]
    /\ enqueued' = [enqueued EXCEPT ![t] = 0]

\* The statement at hand is inside the savepoint of its Save.
UnderSavepoint(t) == stage[t] \in {"writing", "keying"} /\ want[t].id \notin Plain

\* What goes with a statement the server kills: the transaction, or the savepoint,
\* which undo rolls back to.
Killed(t) ==
    IF ~UnderSavepoint(t) THEN Dropped(t)
    ELSE /\ IF stage[t] = "keying" THEN Undone(t) ELSE UNCHANGED <<pending, exclusive>>
         /\ UNCHANGED <<want, shared, relied, seen, enqueued>>

\* conflictOnDeadlock, on the statement the server chose to kill.
Deadlock(t) ==
    /\ InCycle(t)
    /\ Return(t, IF guarded[t] THEN "conflict" ELSE "deadlock")
    /\ Killed(t)
    /\ UNCHANGED <<tables, writes, guarded, calls, upsets>>

Accept(t) ==
    /\ stage[t] = "open"
    /\ Return(t, "accepted")
    /\ UNCHANGED <<tables, want, locks, drafts, writes, guarded, calls, upsets>>

\* A statement fails, and the server aborts the transaction at once, or the
\* context ends or the callback panics, and it does so when Within rolls back.
Fail(t) ==
    /\ stage[t] \notin {"idle", "returned", "done"}
    /\ upsets < MaxUpsets
    /\ upsets' = upsets + 1
    /\ Return(t, "error")
    /\ Dropped(t) \/ UNCHANGED <<want, locks, drafts>>
    /\ UNCHANGED <<tables, writes, guarded, calls>>

-----------------------------------------------------------------------------
(* Within ends.                                                             *)

\* The transaction is over.
Released(t) == Goto(t, "done") /\ Dropped(t)

\* Mutant: Within returns the callback's error and leaves the transaction open.
RollbackSkipped(t) ==
    /\ stage[t] = "returned"
    /\ outcome[t] \notin Answers
    /\ Goto(t, "done")
    /\ UNCHANGED <<tables, want, locks, drafts, writes, guarded, outcome, calls, upsets>>

Rollback(t) ==
    /\ stage[t] = "returned"
    /\ outcome[t] \notin Answers
    /\ Released(t)
    /\ UNCHANGED <<tables, writes, guarded, outcome, calls, upsets>>

\* The series whose rows the commit of t changes.
Changed(t) ==
    {s \in Series : \E i \in Ids : pending[t][i] # NoRow /\ s \in {pending[t][i].series, row[i].series}}

Committed(t) ==
    /\ stage[t] = "returned"
    /\ outcome[t] \in Answers
    /\ row' = [i \in Ids |-> IF pending[t][i] = NoRow THEN row[i]
                             ELSE [pending[t][i] EXCEPT !.saves = row[i].saves + @]]
    /\ edition' = [s \in Series |-> IF s \in Changed(t) THEN edition[s] + 1 ELSE edition[s]]
    /\ Released(t)
    /\ UNCHANGED <<writes, guarded, calls>>

Commit(t) == Committed(t) /\ UNCHANGED <<outcome, upsets>>

\* The commit fails, or succeeds and its answer is lost.
CommitFails(t) ==
    /\ stage[t] = "returned"
    /\ outcome[t] \in Answers
    /\ upsets < MaxUpsets
    /\ upsets' = upsets + 1
    /\ outcome' = [outcome EXCEPT ![t] = "error"]
    /\ \/ Committed(t)
       \/ Released(t) /\ UNCHANGED <<tables, writes, guarded, calls>>

-----------------------------------------------------------------------------

Work(t) ==
    \/ Begin(t)
    \/ \E s \in Series : QueryWithin(t, s)
    \/ GuardedRead(t)
    \/ \E i \in Ids : Load(t, i)
    \/ Enqueue(t)
    \/ Decline(t)
    \/ SavePlain(t)
    \/ \E s \in Series, k \in Keys : SaveGuarded(t, s, k)
    \/ Guard(t) \/ Write(t) \/ WriteConflicts(t) \/ CreateMeetsKey(t)
    \/ Key(t) \/ KeyClashes(t) \/ Translate(t) \/ Deadlock(t) \/ Accept(t)
    \/ Rollback(t) \/ Commit(t)

Next == \E t \in Transactions : Work(t) \/ Fail(t) \/ CommitFails(t)

Spec == Init /\ [][Next]_vars

\* The process runs its callbacks, and the server grants what is free and breaks
\* every cycle.
FairSpec == Spec /\ \A t \in Transactions : WF_vars(Work(t))

-----------------------------------------------------------------------------
(* Properties.                                                              *)

\* ADR-067: from the moment a guard is granted until the transaction ends, a
\* refused Save included, nobody else commits a change to the rows of the series:
\* the precondition that was read still holds when the decision commits.
SeriesStands ==
    \A t \in Transactions : \A s \in relied[t] : seen[t][s] = edition[s]

\* UOW-06: two transactions that loaded the same version never both commit their
\* Save, nor two creates of one identity, whoever waited for whom.
VersionCountsSaves == \A i \in Ids : row[i].version = row[i].saves

\* DEC-10: a refusal declared for the unique constraint, which is no error and
\* commits, leaves neither an aggregate nor a message behind, whatever the callback
\* had saved or enqueued before the refused write.  (A refusal of the aggregate
\* itself, "declined", commits what was saved before it.)
RejectedWritesNothing ==
    \A t \in Transactions : outcome[t] = "rejected" =>
        enqueued[t] = 0 /\ \A i \in Ids : pending[t][i] = NoRow

\* A create that lost a race for its own identity is a conflict, which the caller
\* may repeat, and never a refusal of the business (unique.go identityTaken).
RefusalIsNoRace ==
    [][\A t \in Transactions :
          outcome[t] = "none" /\ outcome'[t] = "rejected" /\ want[t].expected = 0
             => row[want[t].id] = NoRow]_vars

\* A cycle never surfaces without a category in a transaction that held a guard
\* or waited for one: the caller is told to repeat (guard.go conflictOnDeadlock).
RaceIsRetryable ==
    [][\A t \in Transactions :
          outcome[t] = "none" /\ outcome'[t] = "deadlock" =>
             shared[t] \cup exclusive[t] = {} /\ want[t].series = None]_vars

\* No transaction waits for ever, and none leaves a guard behind.
EveryTransactionEnds ==
    <>[](\A t \in Transactions :
            /\ stage[t] \in {"idle", "done"}
            /\ shared[t] \cup exclusive[t] = {})

=============================================================================
