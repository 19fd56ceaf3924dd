# TLA+ verification of the DMPF messaging kernel

This directory holds a formal model of the reliability core of DMPF (the Go kernel
under `libs/backend/go` and the services of `apps/backend` built on it): TLA+ modules
translated from the code, TLC configurations that check them on small instances, and
TLAPS proofs of the main results for every value of the constants.

`PROJECT.json` is the machine-readable index: components, runs, the source lines each
definition models, the mutants that show each property can fail, hazards and theorems.

Contents

1. [The system](#1-the-system)
2. [Modules and how they correspond to the code](#2-modules-and-how-they-correspond-to-the-code)
3. [Runs: what is checked, on which bounds](#3-runs-what-is-checked-on-which-bounds)
4. [Fairness](#4-fairness)
5. [What disagrees with the documentation or the comments](#5-what-disagrees-with-the-documentation-or-the-comments)
6. [Proofs](#6-proofs)
7. [Assumptions about what is outside the repository](#7-assumptions-about-what-is-outside-the-repository)
8. [What is not modelled, and the plan](#8-what-is-not-modelled-and-the-plan)
9. [Running it](#9-running-it)

## 1. The system

A service built on the kernel changes business state and emits events in one database
transaction, drains the events to a broker, and consumes the events of other services
with an effect that happens once. Commands that arrive synchronously may be repeated by
their clients and execute once within a retention.

```
 grpc/http edge -> application.Execute -> unit of work ---------------+
   (retries)        (idempotency key)     | aggregate, command inbox  |
                                          | outbox row (same tx)      |
                                          +---------------------------+
                                                        |
                     relay (several processes): claim -> publish -> mark
                                                        |
                                            Kafka topic / SQS queue
                                                        |
           kafka.Consumer / sqs.Consumer: partition worker, receipt heartbeat
                                                        |
              app.Consumer -> handler -> unit of work: inbox row, aggregate,
                                          outbox row; then ack/contain/release
 purge loops: published outbox rows, inbox rows, expired command entries, attempts
```

### Components, state, operations

| Component | State it keeps | Operations | How it meets the others | What makes it correct |
|---|---|---|---|---|
| outbox table (`postgres/outbox.go`, `claim.go`) | one row per message: status, claim identity, lease, due time, attempts, last error | insert, claim, mark published, reschedule, fail, delete published | written in the producer's transaction, drained by relays | status only advances; every transition is conditional on the claim |
| outbox relay (`app/relay`) | claim of the current scan, held records, per-delivery progress | scan loop, delivery goroutines, release, shutdown, panic containment | claims rows, publishes without a database lock, writes one transition | at least once; nothing `published` that the broker has not; every claim is handed back |
| message consumption (`app/consumer.go`, `application/disposition.go`, `postgres/inbox.go`, a handler such as `reservations/application/consume.go`) | inbox rows, aggregate version, quarantine, outbox | admit, register, decide, save, complete, commit; ack, contain, release | called by a transport, which redelivers | one effect per message id; nothing confirmed and lost; no update lost |
| command idempotency (`application/execute.go`, `idempotent.go`, `postgres/inbox.go`) | entry per tenant and key: outcome, fingerprint, expiry | resolve identity, register, replay, run, complete, purge | called by the edges; shares the inbox table | the outcome stands for its retention; answers are true |
| Kafka consumer (`kafka/consumer.go`, `worker.go`, `offsets.go`) | per partition: queue, cursor, paused/stalled/revoked flags; the committed offset | poll, enqueue, process, retry, stall, commit, assign, revoke, settle, stop | drives `app.Consumer`; the coordinator moves partitions | only acknowledged offsets are committed, in order, never backwards |
| unit of work, tables, guards (`postgres/uow.go`, `table.go`, `guard.go`, `unique.go`) | a transaction, its uncommitted rows and savepoint, row versions, advisory locks | within, query under a guard, load, save, undo, commit | under every write above | a precondition read under a guard still holds at the commit; no lost update; a refused unique key writes nothing |
| external command cycle (`application/dispatch.go`, `resolve.go`, `abandon.go`, `sweep.go`, `postgres/attempt_ledger.go`) | numbered attempts of an intention, their classes, findings and identifiers | dispatch, finish, resolve, abandon, sweep, purge | calls a partner outside the transaction | one call awaited at a time; one step per outcome; nothing recorded is overwritten; every attempt is closed |
| SQS (`sqs/consumer.go`, `heartbeat.go`, `acknowledger.go`) | slots, receipts with a visibility deadline, a heartbeat per message | receive, extend, ack, release, fault | drives `app.Consumer` | one live attempt per message; a gesture is made and not undone |
| bulkhead and breaker (`observability/resilience`) | slots and admissions, breaker state, generation, window, probes | acquire, give up, admit, record, release | decorate outgoing calls | slots and probes are conserved; an outcome counts in its own cycle |
| retry and its budget (`observability/retry`, `resilience/retry_decorator.go`, `timeout.go`) | balance shared by the dependencies of one execution | arm, evaluate, reserve, wait, settle | inside the breaker | the balance is spent once; a denial is reported |
| session revocation (`authn`, `redis/revocation.go`) | deny-list entries with an expiry, a poll's window and cursor | push, poll, apply, check | the identity provider feeds it, every request asks it | what was applied denies; what was not does not; every ended session comes to be denied |
| admission, token verification, edges, in-memory providers, bootstrap, observability, object store, generator, test kit | see `PROJECT.json` | | | |

### What is hard

* *Concurrency*: several relays over one table; several workers over one key or one
  aggregate; a poll loop, a goroutine and the rebalance callbacks over one partition worker.
* *Failure*: processes crash between any two steps; a commit, a publish or a claim may take
  effect and lose its answer; a delivery may panic.
* *Time*: leases lapse under a running delivery; a command reads its clock before it waits;
  the clocks of replicas disagree; a purge removes what another transaction just met.
* *Ordering*: copies reach the broker after their publisher gave up; the pause and the
  resume of a fetch are decided under a lock and called after it; logout events arrive twice,
  late and in any order; a call returns in another cycle of the breaker than admitted it.
* *Statements*: READ COMMITTED makes each statement of a transaction see another state.
* *Limits*: pools, probes, budgets, caps on entries and attempts, met by several at once.

The `hazards` of `PROJECT.json` name the ones that bite hardest, at their line, with the
properties that would catch each going wrong.

## 2. Modules and how they correspond to the code

| Module | Models | Used by |
|---|---|---|
| `Outbox` | the rows of the outbox and the SQL statements, as operators from a row to a row | `OutboxRelay` |
| `OutboxRelay` | the relays, the producer, the broker, the purge of published rows | `MCOutboxRelay`, `OutboxRelayProofs` |
| `AtLeastOnce` | abstract: what the outbox promises | `OutboxRelay` (`Contract`), `OutboxRelayProofs` |
| `InboxConsumer` | the consumer, its handler, the inbox, the quarantine, a redelivering transport | `MCInboxConsumer`, `InboxConsumerProofs` |
| `IdempotentCommand` | `Execute`/`RunIdempotent`, the command inbox, the purge of expired entries, skewed clocks | `MCIdempotentCommand`, `CommandProofs` |
| `KafkaConsumer` | one partition, the members of its group, three threads in each | `MCKafkaConsumer`, `KafkaConsumerProofs` |
| `ExternalAttempt` | dispatch, resolution, sweep and purge over the attempt ledger of one outbound key | `MCExternalAttempt`, `CommandProofs` |
| `SqsConsumer` | the workers, heartbeats and gestures of one queue, and the broker's visibility | `MCSqsConsumer`, `SqsConsumerProofs` |
| `DependencyGuard` | bulkhead and circuit breaker around one dependency | `MCResilience`, `ResilienceProofs` |
| `RetryBudget` | retry loop and attempt timeout of several dependencies over one budget | `MCResilience`, `ResilienceProofs` |
| `SessionRevocation` | the deny-list, its push and its poll, the identity provider | `MCSessionRevocation`, `SessionRevocationProofs` |
| `GuardedTable` | units of work over a guarded and a plain table, PostgreSQL's locks | `MCGuardedTable`, `GuardedTableProofs` |
| `OutboxRelayProofs`, `InboxConsumerProofs`, `CommandProofs`, `GuardedTableProofs`, `KafkaConsumerProofs`, `SqsConsumerProofs`, `ResilienceProofs`, `SessionRevocationProofs` | theorems (section 6) | |

The composition follows the code: `OutboxRelay` is over `Outbox` and implements
`AtLeastOnce`, and the broker it ends in is the redelivering transport of `InboxConsumer`;
`KafkaConsumer` and `SqsConsumer` are the two transports that call the same consumer;
`RetryBudget` is what `DependencyGuard` decorates, in the order of `compose.go`;
`GuardedTable` is the unit of work the consumer and the command commit through.
`CommandProofs` and `ResilienceProofs` extend two components each, which is why the names of
`IdempotentCommand` and `RetryBudget` (`CommandInit`, `BudgetNext`, `mishaps`, ...) are their own.
`MCResilience` extends two as well: they share no state, so a behaviour of it moves one of the two,
chosen at its start, and each is explored in full.

In most modules adversities (a crash, a failure, a lost answer, a lease that lapses under
its holder, a rebalance, ...) go through `Upset` (in `IdempotentCommand`, `Mishap`), which counts
them up to `MaxUpsets`. The
counter bounds the exploration; the proofs hold for every value of it. Operators that no
specification uses and that stand before a definition of a similar name (their comment begins
with "Mutant" or names the slip) are plausible wrong versions of it; section 3 says
what they are for.

### OutboxRelay

`row` is the table. Instants are kept as the comparisons the SQL makes (`availableAt` is
due or later, `lockedUntil` is null, ahead or past) and pass by actions of their own
(`BecomesDue`, `LeaseLapses`), so every order of deadlines and every skew between relays is
a behaviour. `claim` is the identity of one execution of `Claim` (`NewClaimID`: fresh
every time, so a counter), `job` what each delivery goroutine of a scan has reached,
`attempt` the count the claim returned, which the code never reads again. `log` and `wire`
are the broker: copies it accepted and copies still on their way after their publisher saw an
error; both carry the claim they were published under.

| Action | Code |
|---|---|
| `Enqueue` | `insertOutbox` in the producer's transaction |
| `Claim`, `ClaimAnswerLost`, `ClaimFails` | `Run`/`scan` up to the claim |
| `Send`, `PublishAccepted`, `PublishRefused`, `LateArrival` | `deliver`: assemble and publish, and the broker's side |
| `MarkPublished`, `Reschedule`, `Fail`, `Abandon` | the transition `deliver` writes, or none when the shutdown cancelled it |
| `DeliveryPanics`, `DrainPanics` | `panic.go`, `drain.go` |
| `Release`, `EndScan`, `Cancel`, `Stop`, `Start`, `Crash` | `shutdown.go`, the loop of `Run`, the process |
| `PurgePublished` | `PurgePublished`, one row of its batch |

`Transition` is the one shape of a conditional UPDATE: it lands only on a row that still
carries the claim, zero rows affected settles the delivery as well, and an error, whether
the write landed or not, leaves the record held.

### InboxConsumer

A worker is a goroutine or a replica. `stage` says where `Consume` is: before the
registration, inside the transaction (`Open`), or owing the broker a gesture. A transaction
writes nothing visible until `Commit`; `KeyFree` and `AggregateFree` are the waits READ
COMMITTED imposes on an INSERT or an UPDATE of a key with an uncommitted write. `Reception`
is `Register`'s verdict R1..R4, `Gesture` the table of dispositions against attempts, and
`Classify` appears as the disposition a failure returns. The domain's decision is free:
`Reject` and `Save` are both possible. `queue` and `deliveries` are the transport, which may
hand an item to two workers at once and may restart its count. All messages concern one
aggregate, which is the case with the most contention.

| Action | Code |
|---|---|
| `Deliver` | `Consume`: admission of the envelope, up to the handler |
| `Register`, `RegisterTimeout` | `Inbox.Register` with its lock wait |
| `Load`, `Reject`, `Save` | the handler (`consume.go`), `table.go` Save with the version check |
| `Commit`, `CommitAnswerLost`, `Fail` | `Within` and `Classify` |
| `Contain`, `Ack`, `Release` | `contain`, `admitted`, the acknowledger |
| `PurgeInbox` | `PurgeInbox`, within the window INB-14 requires |

### IdempotentCommand

Time is explicit here because the correctness of a retention depends on it. `clock` is real
time; each call reads the clock of its replica once (`Resolve`), within `MaxSkew` of real
time, and `now` is what `expires_at` and the replacement test of `insertCommand` use.
`began` and `registered` are history. `lock` is the row lock of the key: `Register` takes it
whether it inserts, replaces, or is refused by the WHERE of DO UPDATE, which is why the row
it met cannot be purged before it is read. `CommandTick` is not enabled while an unanswered
call is at its deadline: by then it has answered, or its context cancels what it was doing
(`CallFails`).

### KafkaConsumer

`client[m]` is a member's process and kgo client (its generation, position, the batch being
dispatched, whether the fetch is paused), `worker[m]` its `partitionWorker`. The lock `w.mu`
is not a variable: what the code does under one acquisition is one action, and what it does
after the unlock is another (`Enqueue` then `PauseFetch`, `Take` then `ResumeFetch`, `Gate`
then `CommitRecords`). `Release`, `Settle` and `SettleStuck` are the revocation, the final
commit and the grace that ran out; `NewGeneration` is the coordinator, which fences commits
of an older generation and nothing else.

### ExternalAttempt

One outbound key. `ledger[n]` is the row of attempt `n` (state, class, terminal finding,
identifiers seen, conflicts, queries), `worker` a handler execution between its three
transactions. `Begin` is three statements and so three actions (`SelectDone`, `SelectLast`,
`Insert`), each seeing what is committed when it runs; the other transactions lock the row
first and are one action each. `applied` records the steps `Finish` and `Observe` let through.
`straddled` notes a purge that fell between the read and the insert of a `Begin`.

| Action | Code |
|---|---|
| `SelectDone`, `SelectLast`, `Insert` | `beginRound` and its rounds, `resume` |
| `Submit`, `RecordRetryable` | `submit`: the partner's answer, a retryable class closed at once |
| `SettleFirst`, `SettleRepeat`, `SettleUnknown` | `settle`, `close`, `markFinished`: first delivery, repeat, presumption |
| `Observe` | `Resolve` and `txAttemptLedger.Observe` |
| `SweepList`, `SweepClose`, `SweepFail` | `Stale`, `Abandon`, a page that fails |
| `PurgeAttempts`, `Fail`, `Deliver`, `Tick` | the purge, a failed transaction or a process that dies, the broker, time |

### SqsConsumer

Durations are countdowns of one clock, so a behaviour goes on for ever. A heartbeat is
`armed`, `calling` (its tick is in flight), `landed` (applied, not answered) or `done`.
`adrift` holds extensions whose caller gave up and which the broker may still apply; `promise`
is the rest of a backoff that was asked for. `Stopped` is `heartbeat.Stop`: a gesture waits for
the tick in flight, whose timeout is one interval. `Reaches`: the gesture is made under the context
of the attempt (`process` hands `attemptCtx` to the sink, and `app/consumer.go` its own to `Ack` and
`Release`), so that once the attempt was cancelled, or its deadline passed, the call never leaves.
`Cancel` is the fault that ends the consumer.

### DependencyGuard

`pool` is the two channels of the bulkhead with the calls blocked on the second, `breaker` the
state, cooldown, probes in flight and window of samples by age, `call` a caller between
`admitted` and `returning`. A generation is compared with the present one only, so a ticket
carries `current` instead of a number. `Met` is the breaker as `admit` finds it (an open one
whose cooldown ended is half-open). `Panic` is a decorated call that panics: `record` is not
deferred, so the probe it held stays counted; the ghost `leaked` counts those.

### RetryBudget

`Arm` and `Size` are two actions because `Budget.Arm` publishes the flag before the amount;
`Evaluate` and `Reserve` are two because the verdict reads the balance that `Reserve` claims
later. `Settle` returns or debits the difference between the claim and the cost, and `Debit`
stops at zero. `Claims`, what the loops have claimed and not settled, is the number of ticks
claimed, each counted with its dependency. `books` is history: what was sized, spent, lost with a wait that was cut, and
not charged because the balance had ended.

### SessionRevocation

Ticks are parts of a second: events carry the tick, a token's and a logout token's `iat`
the second. `store` maps sessions and subjects to a cutoff and an expiry and keeps the greatest
of each. A poll fixes its window (`Begin`), reads page after page of two sources (`Fetch`) and
applies event by event (`ApplyNext`); it may fail anywhere, and a token the provider withdrew
is renewed once (`Refused`). `Backchannel` is the push.

### GuardedTable

`shared` and `exclusive` are the advisory locks of each transaction, `pending` its uncommitted
rows, `enqueued` its uncommitted messages, `want` the call at hand, `writes` and `guarded` the two
fields of `Tx`; `writes` counts Saves and messages alike. `Blockers` is
whom a statement waits for, `InCycle` what the deadlock detector finds. A statement that is killed
takes its transaction with it, locks and writes, unless it is inside the savepoint of its Save, which
`undo` rolls back to (`Killed`). The callback is free: it may load, save and enqueue in any order and
answer at any point; `Answers` are the outcomes that are no error, which `Within` commits, the two
kinds of refusal among them: `declined` is the aggregate's own (`Decide`), `rejected` the one a
context declares for a unique constraint (`DeclaredRejection`). `edition` counts the
commits that changed a series and `seen` is its value when the guard was granted: history for
`SeriesStands`.

| Action | Code |
|---|---|
| `Begin`, `Commit`, `CommitFails`, `Rollback`, `Fail` | `Within` |
| `QueryWithin`, `GuardedRead` | `Relation.QueryWithin`, the shared guard and the read |
| `Load`, `SavePlain`, `SaveGuarded`, `Guard` | `Load`, `Save`, the exclusive guard and the savepoint |
| `Write`, `WriteConflicts`, `CreateMeetsKey`, `Key`, `KeyClashes` | the INSERT or UPDATE, the version check, the unique index |
| `Enqueue` | `txOutbox.Enqueue` |
| `Translate`, `Decline`, `Accept` | `translate` with `identityTaken`; the refusal of the aggregate; the callback's answer |
| `Deadlock` | `lockFailed`, `conflictOnDeadlock`, `undo` |

## 3. Runs: what is checked, on which bounds

| Run | Instance | Distinct states | Shows |
|---|---|---|---|
| `relay_drain` | 2 relays, 2 records, one that cannot be assembled, batch of 2, one delivery at a time, 2 attempts, 2 upsets | 248,196 | table, broker and deliveries stay consistent, the drain implements `AtLeastOnce`, every row leaves it, a stop ends |
| `inbox_consumption` | 2 workers; a message, another payload under its id, a second message of the aggregate, a refused and an unsubscribed envelope; 2 attempts, 1 upset | 757,464 | one effect per key, no lost update, nothing confirmed and lost, every item confirmed |
| `command_retention` | a command, its retry and another payload under one key; retention 4, deadline 1, clocks up to 1 off, clock to 4, 1 upset | 655,580 | the outcome stands, executions are apart, answers are true, expired entries leave |
| `kafka_partition` | 2 members, 2 records, a queue of 2, 2 attempts, 2 upsets | 484,742 | offsets acknowledged, in order, never back; one handler per process; the partition drains |
| `kafka_pause_race` | 1 member, 4 records, a queue of 2, no upset | violation | section 5 |
| `external_attempts` | 2 handlers, 2 messages of one key, 2 observations that contradict each other, 3 replies, retention and a handler's life 1, deliveries to 2, clock to 3, 1 upset | 694,887 | one caller per attempt, one step per outcome, recorded outcomes stand, attempts are closed |
| `external_resend` | the same | violation | section 5 |
| `sqs_receipts` | 2 workers, 1 message, visibility 4, heartbeat 2, deadline 8, ceiling 9, backoff 3 | 187,190 | invisible between ticks, backoffs served, gestures made, nothing stranded |
| `sqs_two_intervals` | the same, visibility 5 | violation | section 5 |
| `resilience` | 5 callers, 3 slots, a queue of 1, 2 probes, a window of 2. Beside it: 2 dependencies, deadline 6, up to 3 attempts, a declared budget of 3 or none | 831,229 | slots, admissions and probes accounted for; only probes decide; never shut for good; the budget is exact and never overdrawn; denials are reported |
| `session_revocation` | 2 sessions of a subject, 2 tokens, 2 events, pages of 1, clocks 1 apart, 1 upset | 577,735 | what was applied denies, nothing else is denied, every ended session comes to be |
| `guarded_table` | 2 transactions of 2 calls, 2 rows of each table, 2 series, 2 keys, 1 upset | 527,697 | preconditions hold, no update lost, refused keys write nothing, races retryable, everyone ends |

The properties, in words (a name that ends in `Inv`, `GuardAccounted` and `StepsAreSound` are
conjunctions of the named parts given with them; the type invariant of a module is part of
its conjunction, or proved, section 6):

* **Relay.** `RelayInv`: `PublishedWasAccepted` (no row says published before the broker has a
  copy), `FailedForCause` (failed only for a record that cannot be assembled, or whose own
  counter reached the ceiling), `NoLeaseLeftBehind` (a lease outlives its scan only after a
  crash or a failed write), with the facts that make them inductive. `CopiesWithinAttempts`: the
  row's counter bounds the duplicates. `SupersededClaimIsInert`: a delivery whose claim was
  replaced leaves the row alone. `RefinesAtLeastOnce`. `EveryRowSettles`, `ShutdownEnds`.
* **Inbox.** `EffectsMatchRows`: an effect at most once, and exactly when the row says
  processed. `NoLostUpdate`. `NothingLost`: whatever was confirmed is settled.
  `EveryItemEnds`.
* **Command.** `CommandInv`: `EntryStands` (a committed outcome is its key's entry until a
  replica's clock reaches the expiry), `AnswersAreTruthful`, `ConflictingRowRemains`, with the
  inductive facts. `RepeatsAreApart`: two executions of one key are at least
  `Retention - Deadline - 2*MaxSkew` apart in real time; ADR-056 accepts that a retry around the
  expiry may execute again, this is the bound the code gives, and it is tight.
  `ExpiredEntriesLeave`.
* **Kafka.** `PartitionInv`: `CommittedIsAcked`, `AckedInOrder`. `NoRewind`, `OneHandler`.
  `Drains`: every record is acknowledged unless a worker stalls on one or the pause race of
  section 5 happened, and nothing else stops the partition.
* **External.** `LedgerInv`: `OneBegun`, `OneCaller`, `RowBounded`. `StepsAreSound`: `StepOnce`,
  `TerminalIsLast`, `OneStepPerMessage`, `AppliedIsRecorded`, `UnknownStaysOpen` (an outcome
  nobody knows is never taken for a success, a failure or a resend). `RecordedStands`: a late
  answer or an observation changes neither class nor terminal finding. `BegunIsClosed`.
* **SQS.** `ReceiptInv`: `InvisibleBetweenTicks` (the message of an attempt that goes on is
  invisible whenever no tick is in flight, unless it was received again before). `LiveIsAlone`, that
  no second live attempt has the message, is what `Validate` is meant to give and does not
  (section 5). `ReleaseStands`: no extension undoes a backoff, be it in flight at the gesture or
  given up before. `GestureIsMade`, `NotStranded`.
* **Guard.** `GuardAccounted`: `PoolAccounted`, `ProbesAccounted`. `OnlyProbesDecide`: a call of
  an earlier cycle neither closes nor opens a half-open breaker. `KeepsAdmitting`: the breaker
  shuts for good only if every probe of a cycle panicked.
* **Budget.** `BudgetInv`: `BalanceCovered` (no balance is spent twice), `Accounted` (the books
  balance exactly). `DenialIsReported`.
* **Revocation.** `DenyInv`: `AppliedDenies`. `DeniedForCause`, `ComesToDeny`.
* **Table.** `SeriesStands`: from the grant of a guard to the end of the transaction nobody else
  changes the series. `VersionCountsSaves`: no update lost. `RejectedWritesNothing`: a refusal
  declared for a unique constraint commits neither an aggregate nor a message (the aggregate's own
  refusal commits what the callback saved before it, and is left out). `RaceIsRetryable`: a deadlock
  surfaces without a category only if its transaction neither held nor awaited a guard.
  `RefusalIsNoRace`, `EveryTransactionEnds`.

*Why the bounds are enough.* Each race listed as a hazard involves one record, key, message or
series and two actors, or an actor, its successor and a restart; the instances have two or
more, and enough upsets for the lapse or crash that starts a race. Limits are small enough to be
exceeded: attempts, begin rounds, entries of an attempt, queue, slots, probes, budget. In
`external_attempts` a late `Finish` meets a full row; an observation of a full row takes a third
observation and is left to the proofs, as are the findings that are not terminal. In
`command_retention` the clock passes, with the skew, the expiry of the first entries: they are
purged or replaced, and the key executes again, also for a call that read its clock a tick before it
registers. `sqs_receipts` has the shortest visibility `Validate` accepts. Two Kafka records suffice
for "one given up, the next behind it". `resilience` needs five callers: three that fill the pool, one
queued, one refused, and with them a straggler of an earlier cycle beside two probes;
`MaxSamples` bounds what its window counts. What the bounds cut off is covered, as far
as safety goes, by the proofs of section 6, which have none; liveness has the bounds only.

`CHECK_DEADLOCK FALSE` where the modelled system really has nothing left to do once every
record is settled, every call answered and the adversities spent; `resilience`,
`session_revocation` and `sqs_receipts`, which go on for ever, are checked for deadlock.

Every property of a passing run has a mutant (a definition changed as a plausible bug would)
under which TLC reports it violated: dropping the claim from the WHERE of a transition,
forgetting NULL in the claim predicate, a stall that skips the record, a Finish that overwrites,
a gesture that outlives its attempt, a probe given back by a call of another cycle, a claim
made on a balance read earlier, a store that keeps the latest instead of the greatest, a guard
released with its savepoint, and so on.

## 4. Fairness

All liveness is under weak fairness and finitely many adversities (`MaxUpsets`): a system
that crashes for ever finishes nothing.

* **Relay**: `Loop` (the process runs, and the orchestrator restarts it), `Deliver` per
  record (a goroutine is scheduled and its calls return, all of them having timeouts), a
  lease nobody attends lapses and a due time passes (time), and a row that stays claimable is
  taken by some relay (the claim orders by age, so no row is passed over for ever).
* **Consumer**: a worker goes on with its delivery (statements have timeouts), and an
  unconfirmed item that nobody holds is delivered again (what SQS and Kafka both do).
* **Command**: time passes, each call's steps are scheduled, the purge loop runs over each key.
* **Kafka**: poll loop and goroutine run; settle, stop, exit and restart happen; a member out
  of the generation learns of it; the coordinator assigns a partition nobody holds. Nothing is
  assumed about rebalances that are not needed, expiries, failures, stops and crashes.
* **External**: time passes, a handler that began goes on, the sweep lists and closes
  (`RunSweep` runs on its interval). No redelivery, observation or purge is assumed to come.
* **SQS**: time passes, the heartbeat's goroutine runs and a gesture that was begun goes on.
  Nothing is assumed of the sink (it may never return) nor of the broker (a tick may only end by
  its timeout).
* **Guard**: time passes, a call that waits acquires or gives up, and a call let through
  answers, which the timeout inside it guarantees. No call is assumed to arrive.
* **Revocation**: time passes, the poll loop runs, and the provider lists an event in the end.
  No push is assumed to arrive.
* **Table**: the statements of an open transaction run and return, or fail at their deadline.
* **Budget**: no liveness is checked: every loop is bounded by its attempts.

## 5. What disagrees with the documentation or the comments

Three runs end in a violation; `findings` in `PROJECT.json` has the quotations.

1. **The pause may be called after the resume** (`kafka/worker.go:70`). The pause is decided
   under `w.mu` and called after the unlock; if the worker drains the queue in between, the
   client stays paused while `w.paused` is false, and nothing resumes it. `Drains` names this
   state as its exception.
2. **A message may be submitted again** (`postgres/attempt_ledger.go:147`). The two reads of a
   `Begin` are two statements under READ COMMITTED; an attempt of the same message that finishes
   between them is missed by the first and seen as finished by the second.
3. **Two heartbeat intervals do not renew a visibility in time** (`sqs/consumer.go:92-95`). The
   comment of `Validate` and `sqs/README.md:81-83` count the interval a tick may take before the next
   is armed, and not the one the next may take to be applied: a tick applied at once and answered at
   its timeout, and the next in flight when the visibility ends. The message is received again while
   its first attempt is live. Three intervals less than the visibility suffice
   (`ThreeIntervalsSuffice`).

Observations made while modelling, each visible in the model and stated where a property
depends on it:

* *Kafka*: with a queue of one the resume threshold `QueuePerPartition/2` is zero
  (`worker.go:129`), a capacity `Validate` accepts (`consumer.go:83`): a full queue is never
  resumed.
* *Inbox*: a commit whose answer is lost is classified as a failure (`uow.go:73`); under R1×D4 a
  message that took effect is also quarantined. `EffectsMatchRows` holds all the same.
* *External*: a purge between the read and the insert of a `Begin` lets two attempts be begun
  (`attempt_ledger.go:99-101`); `OneBegun` states the exception (`straddled`). `OneCaller` needs
  a retention no shorter than what a handler may last (`Life <= Retention`), as its proof showed:
  below that a sweep may close, from a list made earlier, a row inserted again under the same
  number, and a purge remove it, while its handler still awaits the partner. That there is a
  retention is checked (`ErrNoAttemptRetention`), its length is the operator's.
* *SQS*: an extension whose answer was given up may reach the broker after the heartbeat has ended,
  and `Stop` cannot wait for it (`heartbeat.go:51-65`). That it undoes no backoff is due to the
  context: giving up cancels the attempt before `Stop` returns, and the release, made under the same
  context, fails without leaving the process. A sink that made its gesture under a context of its own
  would lose the backoff: the mutant of `ReleaseStands`.
* *Breaker*: `record` is not deferred, so a panic leaks its probe (`breaker.go:117-130`);
  `KeepsAdmitting` states the exception. A late answer of an ordinary call of an earlier cycle is
  counted in the window of the present one when the breaker is closed again.
* *Budget*: the last attempt may run past what is left of the budget, which stops at zero
  (`books.owed`); the documentation accepts one attempt too many
  (`docs/dmpf/resiliencia-observabilidade.md:489-495`, `702-704`). `Arm` publishes its flag before
  its amount, so a dependency that fails in between is denied.
* *Revocation*: `ComesToDeny` needs that the pages of one poll hold every event of the window
  (`MaxPages * PageSize > MaxEvents`), an order of events of one instant that is the same on every
  page (`Rank`), and clocks within `Skew`; without the poll a lost push is never made up for.

## 6. Proofs

Every safety property the passing runs check is proved, for every value of the constants. All proofs are
checked by tlapm (Z3, Zenon, LS4); nothing is assumed but the named assumptions on constants,
which TLC evaluates on each instance: `ConstantsAssumption`, `ConsumerAssumption`,
`CommandAssumption`, `TableAssumption`, `KafkaAssumption`, `ExternalAssumption`, `SqsAssumption`,
`GuardAssumption`, `BudgetAssumption` and `RevocationAssumption`. They bound nothing: any number of
relays, workers, calls, members, records, messages, attempts, ticks and adversities. Where a
property counts (saves, slots, probes, claims) the sets counted are finite. Two theorems have a
hypothesis besides, which section 5 explains: `LedgerStaysSound` that the retention of attempts
covers the life of a handler, `ThreeIntervalsSuffice` that three heartbeats are less than the
visibility.

**Relay** (`OutboxRelayProofs`). None of the safety properties is inductive. That a row
says published only with a copy in the broker needs that an accepted delivery has its copy
(`DeliveriesAreConsistent`); that a failed row reached its own ceiling needs that, while the
row still carries the delivery's claim, the count the claim returned is the row's count; and
that needs fresh identities (`ClaimsAreFresh`): two relays never share one and no row, copy
or orphan carries one not yet drawn. `RowsAreConsistent` ties leases to statuses.
`RelayInv` is their conjunction with the properties. The proof goes action by action:
`TypeCorrect`, `RelayInvariant`, then `PublishedIsSound`, `FailedIsJustified`,
`ClaimsAreHandedBack`. `CopiesAreCounted` needs one more invariant (`PromisesCounted`): the claims
under which a record was sent, or may still be sent by a delivery that has not begun, are no more
than the row's attempts; a claim adds one to both sides and a copy uses up what was promised.

**Contract** (`OutboxRelayProofs`). `DrainImplementsContract`: under the mapping "owed is
what the status column means, reached is what the log holds a copy of", initial states map
to initial states and, from `RelayInv`, every step maps to `Commit`, `Reach`, `Confirm`,
`GiveUp` or a stutter. The case that needs the invariant is a transition that lands: the row
is still publishing, so nothing confirmed is undone. `StatusAdvances` and
`SupersededWritesNothing` follow from the same case analysis.

**Inbox** (`InboxConsumerProofs`). An uncommitted row keeps every other transaction off its
key (`KeyMutex`), so a transaction that registered first still finds no committed row when
it commits (`OpenFresh`): hence one effect (`EffectsOnce`). A purged key has nothing in
flight (`PurgedGone`), a worker owes an ack only for a settled envelope (`AckOwed`): hence
`NothingIsLost`. The one transaction that wrote the aggregate read the version it still has
(`VersionHeld`): hence `NoUpdateIsLost`. `OutcomesStand` is the action property. The actions
are grouped by what they disturb (inside a transaction, returning, committing, ...), one
lemma each.

**Command** (`CommandProofs`). A key is in one open transaction at most
(`LocksAreOwned`), what a call read of its clock is within the skew of when it began and it has
not outlived its deadline (`InstantsAreOrdered`), an entry is the outcome of a committed
execution (`EntriesAreCommitted`), and an execution that is no longer its key's entry had
expired, less the skew, before whoever took the key registered (`SupersededHadExpired`).
The last gives `ExecutionsAreApart` by arithmetic for every retention, deadline and skew;
the others give `OutcomeStands`, `AnswersHold` and `ConflictIsReadable`.

**Table** (`GuardedTableProofs`). `SeriesStands` is not inductive: that a commit changes no series
another transaction relies on needs that what is written lies in series its writer has for
itself (`PendingIsGuarded`), that guards exclude one another (`GuardsExclude`) and that a guard
once granted is kept to the end, over an undone savepoint too (`ReliedIsHeld`).
`VersionCountsSaves` needs one uncommitted writer per row (`OneWriter`) and that its version
still follows the committed one; `RejectedWritesNothing` that a transaction that has settled no
write has enqueued nothing and saved at most the row at hand (`FirstWrite`); `RaceIsRetryable` that
a transaction without the mark neither holds nor awaits a guard (`MarksAreKept`). `CallIsReady` is
what a call knows of its row at each
stage. `GuardInv` is their conjunction; `PreconditionsHold`, `NoSaveIsLost` and `RejectionsAreEmpty`
follow from it, `RacesAreRetryable` and `RefusalsAreNoRaces` are action properties.

**External** (`CommandProofs`). Most steps are calm (`Calm`): they move the row of one attempt
forward (`Moved`) and let no handler ask for a number, so one lemma keeps the ledger over all of
them. The others are a delivery, the choice of a number, the insert that wins, a purge and the
clock. A handler about to insert has the number after the last attempt, or has lost the race
(`InsertIsNext`); hence an attempt that is begun is the last (`BegunIsLast`), both unless a purge
came between. Every number was paid for by a delivery (`NumbersAreLeft`), so the numbers of the
model never run out. The steps applied stay the ones the row records (`AppliedIsKept`), and a
message settles once (`SettledOnce`).
`StepsStaySound` and `OutcomesStand` follow without any hypothesis. That a handler keeps the row
it inserted (`CallsAreOwned`) is an invariant of its own, kept by the retention, and gives
`LedgerStaysSound`.

**Kafka** (`KafkaConsumerProofs`). What a worker has still to take, its queue and the batch its
client is dispatching, is an interval that ends at the fetch position (`Contiguous`). The record at
hand is the one entry of the cursor and all before it are acknowledged (`AtHand`); between two
records the cursor is empty and everything before that interval is acknowledged, unless the worker
stalled or was revoked (`Between`). So the cursor never has more than one entry (`CursorIsSound`)
and the acknowledged offsets are a prefix (`AckedIsPrefix`): `PartitionIsSound`.
`CommitsOnlyForward` needs that one member at most can move the committed offset (`OneHolder`; the
others are fenced) and that what it has to commit lies past it (`AheadOfCommit`).
`HandlersAreAlone`: a running handler is joined by no second one in its process.

**SQS** (`SqsConsumerProofs`). A message has one latest receipt at most (`OneLatest`). If the holder
of the latest receipt has an extension adrift it was cancelled, and if a backoff is being served
its heartbeat is over (`Settled`). So a release that reaches the broker finds nothing adrift, and
nothing comes adrift before the next receipt (`Clear`): `ReleasesStand`. `ReceiptsAreKept` needs in
addition how much of the visibility is left at each stage of the heartbeat (`Margin`, `Covered`): two
intervals, armed and answering late, fit by the assumption. The third, in flight, does not, and gives
`ThreeIntervalsSuffice` its hypothesis.

**Resilience** (`ResilienceProofs`). Of the guard: a call waits once (`WaitsOnce`), only a half-open
breaker has probes of its own (`ProbesAreOfHalfOpen`), and the counters are the cardinalities of the
sets of calls they count; each action adds or removes one. `GuardIsAccounted`, `ProbesAloneDecide`.
Of the budget: a loop that has claimed is asleep or on its way back (`LoopIsSound`), nothing was
claimed before the budget had its amount (`UnsizedIsEmpty`), which one call gives it (`SizedByOne`),
and a call that found none to arm had no time left (`UnarmedIsLate`). `Claimed` is a set of
ticks, so the sum over the dependencies is a cardinality and a claim adds a disjoint interval:
`BudgetIsExact`, `DenialsAreReported`.

**Revocation** (`SessionRevocationProofs`). An event that was applied has an entry no earlier than
its second which lasts as long as a token it ends, or its time is over (`AppliedStays`); entries
stand for events that happened (`EntriesAreSound`), tokens and the events of a poll too
(`TokensArePast`, `PollIsSound`). The greatest of two cutoffs and of two expiries keeps both facts,
in whatever order events arrive: `AppliedGoesOnDenying`, `DeniedOnlyForCause`.

**Only model-checked**: liveness (`EveryRowSettles`, `ShutdownEnds`, `EveryItemEnds`,
`ExpiredEntriesLeave`, `Drains`, `BegunIsClosed`, `GestureIsMade`, `NotStranded`, `KeepsAdmitting`,
`ComesToDeny`, `EveryTransactionEnds`), which rests on fairness and is out of this prover's reach;
and the three runs that end in a violation.

## 7. Assumptions about what is outside the repository

* **PostgreSQL** gives READ COMMITTED: a statement that writes a key waits for an open
  transaction that wrote it, and reads committed rows; `ON CONFLICT DO UPDATE` locks the
  row it meets even when its WHERE refuses; SKIP LOCKED skips.
* **INB-14**: the operator keeps the inbox retention above the transport's redelivery
  window, and the attempts' retention above the life of a handler. `PurgeInbox` is guarded by the
  first, `LedgerStaysSound` assumes the second; the code cannot check either.
* **Context deadlines end a call**: what `CommandTick` relies on.
* **Kafka**: the coordinator accepts commits of the current generation only, a fetch is not
  fenced, a rebalance is blocked while a batch is dispatched (`BlockRebalanceOnPoll`), a
  paused partition stays paused.
* **The broker** may accept a copy long after its publisher saw an error, or never.
* **SQS** applies a change of visibility by the latest receipt handle only, at any moment between
  the request and its answer, or later when the caller gave up; a new receipt supersedes what is
  still on its way. A request made under a context that has ended does not leave the process.
* **PostgreSQL's locks**: an advisory lock lasts for the transaction, a savepoint rolled back
  releases none that was taken before it; a cycle of waits is broken by killing one of its members.
* **The identity provider** lists every event it commits in the end, stamps its own clock, and may
  push a logout late, twice or never.
* **A decorated call** answers within its timeout.

## 8. What is not modelled, and the plan

Left out of modelled components: spans, metrics, logs, message wording; tenant and
destination columns; the codec of stored outcomes and the encoding of fingerprints (kept as
equality); the derivation of outbound keys; the DLQ producers of Kafka and SQS; panics outside
the handler in the Kafka worker; the loops around the purge statements (an interval, a batch and
a stop; the statements themselves are actions).

Not modelled:

* *Admission control* (`transport/admission`): a token bucket per route and tenant, with the
  eviction of idle buckets, decided in one critical section: a sequential computation. (An
  evicted bucket forgets what was spent: when it is made again it starts full.)
* *In-memory providers*: doubles of the PostgreSQL ones, serialised by one mutex.
* *Ports, domain kernel, channels, edges, token claims*: value types, declarations and stateless
  mappings between errors and statuses.
* *Object storage*: single conditional requests.
* *Bootstrap, observability*: wiring and telemetry; the shutdowns that matter are in the relay
  and in the consumers.
* *Reference applications*: sequential aggregates over the kernel; the consumer of reservations is
  the handler of `InboxConsumer`.
* *Conformance tools, generator, contracts, test kit, load suite*: build time, generated or test
  code. With the edges and the wiring these are most of the repository's lines, which is why the
  share of lines the model covers is small although every component with concurrent or
  persistent state of its own is modelled; within `postgres`, `application`, `kafka`, `sqs`,
  `authn`, `app/relay` and `observability/{resilience,retry}` it is between a quarter and three quarters,
  the rest being configuration, validation, telemetry and codecs.

What remains worth doing, in this order:

1. The composition of a transport with `InboxConsumer`: `KafkaConsumer` and `SqsConsumer` shown to
   implement the redelivering transport it assumes.
2. A queue of one and two polls of the provider with too few pages, as properties of the
   configurations `Validate` accepts.
3. The DLQ producers.

## 9. Running it

In this directory:

```
tlasany OutboxRelay.tla
tlc -workers 2 -config MCOutboxRelay.cfg MCOutboxRelay
tlapm OutboxRelayProofs.tla
```

Each `MC*.cfg` names the bounds of its run in its first lines or its constants. The longest
run takes about three minutes with two workers, the longest proof a few minutes.
