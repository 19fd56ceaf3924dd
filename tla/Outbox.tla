------------------------------- MODULE Outbox -------------------------------
(***************************************************************************)
(* The rows of the `outbox` table and the SQL statements the drain side    *)
(* runs on them (libs/backend/go/postgres/{outbox,claim,purge}.go and      *)
(* outbox.sql).  Each statement is an operator from a row to a row; the    *)
(* modules that run them decide when, and on which row.                    *)
(*                                                                         *)
(* Instants are abstracted to the comparisons the statements make with the *)
(* clock of whoever runs them: available_at is "due" or "later",           *)
(* locked_until is NULL, "ahead" or "past".  A deadline passes on its own, *)
(* so every ordering of deadlines, and every skew between the clocks of    *)
(* two relays, is a behaviour of the modules built on this one.            *)
(***************************************************************************)
EXTENDS Naturals

\* What the status column holds, and the two ways a message has no row.
Statuses == {"absent", "pending", "publishing", "published", "failed", "purged"}

\* A row is in the table unless it was never written or was purged.
InTable(x) == x.status \notin {"absent", "purged"}

\* locked_by is the identity of one execution of Claim; 0 is NULL.
NoClaim == 0

Row == [status: Statuses, lockedBy: Nat, lockedUntil: {"null", "ahead", "past"},
        availableAt: {"due", "later"}, attemptCount: Nat,
        lastError: {"null", "own", "transport"}]

NoRow == [status |-> "absent", lockedBy |-> NoClaim, lockedUntil |-> "null",
          availableAt |-> "later", attemptCount |-> 0, lastError |-> "null"]

\* insertOutbox and the column defaults: available_at is occurred_at, which the
\* clock of a relay may or may not have reached.
InsertOutbox(at) ==
    [NoRow EXCEPT !.status = "pending", !.availableAt = at]

\* Mutant: the NULL clause of the eligibility predicate is missing.
ClaimableWithoutNull(x) ==
    /\ x.availableAt = "due"
    /\ \/ x.status = "pending"
       \/ x.status = "publishing" /\ x.lockedUntil = "past"

\* The WHERE clause of claimStatement, the metadata test apart.
Claimable(x) ==
    /\ x.availableAt = "due"
    /\ \/ x.status = "pending"
       \/ x.status = "publishing" /\ x.lockedUntil \in {"null", "past"}

\* Mutant: the claim does not count itself as an attempt.
ClaimStatementUncounted(x, c) ==
    [x EXCEPT !.status = "publishing", !.lockedBy = c, !.lockedUntil = "ahead"]

ClaimStatement(x, c) ==
    [x EXCEPT !.status = "publishing", !.lockedBy = c, !.lockedUntil = "ahead",
              !.attemptCount = @ + 1]

\* Mutant: the transition is conditional on the id alone.
HeldByAnyone(x, c) == InTable(x)

\* The guard id = $1 AND locked_by = $2 the three transitions share: it reads
\* neither the status nor the lease.
HeldBy(x, c) == InTable(x) /\ x.lockedBy = c

MarkPublishedStatement(x) ==
    [x EXCEPT !.status = "published", !.lockedUntil = "null", !.lastError = "null"]

\* COALESCE(NULLIF(reason, ''), last_error): "null" is the empty reason of the
\* graceful release, which keeps the diagnosis the row already carries.
RescheduleStatement(x, at, reason) ==
    [x EXCEPT !.availableAt = at, !.lockedUntil = "null",
              !.lastError = IF reason = "null" THEN @ ELSE reason]

FailStatement(x, reason) ==
    [x EXCEPT !.status = "failed", !.lockedUntil = "null", !.lastError = reason]

\* The WHERE clause of deletePublished; the retention cutoff is the caller's.
Purgeable(x) == x.status = "published"

DeletePublished(x) ==
    [NoRow EXCEPT !.status = "purged", !.attemptCount = x.attemptCount]

=============================================================================
