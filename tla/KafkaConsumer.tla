--------------------------- MODULE KafkaConsumer ---------------------------
(***************************************************************************)
(* The Kafka transport of the kernel (libs/backend/go/kafka): one          *)
(* partition, the members of its consumer group, and in each member the    *)
(* three threads that share a partition's worker: the poll loop            *)
(* (consumer.go run, worker.go enqueue), the worker's goroutine (worker.go *)
(* run, process, commitContiguous) and the rebalance callbacks or the      *)
(* shutdown (consumer.go assign, release, settle, stopAll).                *)
(*                                                                         *)
(* The group coordinator and the kgo client are external: a commit is      *)
(* accepted from any member of the current generation, a fetch is not      *)
(* fenced, and a paused partition stays paused across rebalances.          *)
(***************************************************************************)
EXTENDS Naturals, Sequences, FiniteSets

CONSTANTS Members,            \* the processes of the group
          Records,            \* the partition holds the offsets 1..Records
          QueuePerPartition,  \* capacity of a worker's queue
          MaxAttempts,        \* the channel's attempt limit
          MaxPoll,            \* most records of one poll
          MaxUpsets           \* bound on the adversities of one behaviour

ASSUME KafkaAssumption ==
    /\ Records \in Nat
    /\ QueuePerPartition \in Nat \ {0}
    /\ MaxAttempts \in Nat \ {0}
    /\ MaxPoll \in Nat \ {0}
    /\ MaxUpsets \in Nat

VARIABLES
    committed,  \* the group's committed offset: 1..committed are done with
    acked,      \* history: offsets some handler acknowledged
    client,     \* of each member: the kgo client and the Consumer around it
    worker,     \* of each member: its partitionWorker
    upsets      \* adversities so far

vars == <<committed, acked, client, worker, upsets>>

Offsets == 1..Records

\* state "stopping": the run context is done; "leaving": stopAll began and Run
\* is on its way out.  current: the member is of the group's current generation.
Down == [state |-> "down", current |-> FALSE, assigned |-> FALSE, position |-> 1,
         paused |-> FALSE, batch |-> <<>>, pausing |-> FALSE,
         releasing |-> FALSE, stuck |-> FALSE]

\* pc: "idle" waits for the signal, "next" takes a record, "handle" runs the
\* sink, "returned" has its gesture, "gate" enters commitContiguous, "commit"
\* is in CommitRecords, "backoff" sleeps, "left" has closed done.  fenced: the
\* generation of the commit under way is over.
Fresh == [pc |-> "idle", rec |-> 0, tries |-> 0, gesture |-> "undecided",
          queue |-> <<>>, signal |-> FALSE, paused |-> FALSE, stalled |-> FALSE,
          revoked |-> FALSE, cancelled |-> FALSE, cursor |-> <<>>,
          upto |-> 0, fenced |-> FALSE, resuming |-> FALSE]

NoWorker == [Fresh EXCEPT !.pc = "none"]

Tracked == [offset: Offsets, acked: BOOLEAN]

Client == [state: {"up", "stopping", "leaving", "down"}, current: BOOLEAN, assigned: BOOLEAN,
           position: 1..(Records + 1), paused: BOOLEAN, batch: Seq(Offsets),
           pausing: BOOLEAN, releasing: BOOLEAN, stuck: BOOLEAN]

Worker == [pc: {"none", "idle", "next", "handle", "returned", "gate", "commit", "backoff", "left"},
           rec: 0..Records, tries: 0..MaxAttempts, gesture: {"undecided", "acked", "released"},
           queue: Seq(Offsets), signal: BOOLEAN, paused: BOOLEAN, stalled: BOOLEAN,
           revoked: BOOLEAN, cancelled: BOOLEAN, cursor: Seq(Tracked),
           upto: 0..Records, fenced: BOOLEAN, resuming: BOOLEAN]

TypeOK ==
    /\ committed \in 0..Records
    /\ acked \subseteq Offsets
    /\ client \in [Members -> Client]
    /\ worker \in [Members -> Worker]
    /\ upsets \in 0..MaxUpsets

Init ==
    /\ committed = 0
    /\ acked = {}
    /\ client = [m \in Members |-> [Down EXCEPT !.state = "up", !.current = TRUE]]
    /\ worker = [m \in Members |-> NoWorker]
    /\ upsets = 0

Upset == upsets < MaxUpsets /\ upsets' = upsets + 1

-----------------------------------------------------------------------------
(* The cursor (offsets.go).                                                *)

Track(c, o) == Append(c, [offset |-> o, acked |-> FALSE])

Mark(c, o) ==
    [j \in DOMAIN c |-> IF c[j].offset = o THEN [c[j] EXCEPT !.acked = TRUE] ELSE c[j]]

\* The length of the acknowledged prefix NextContiguous pops.
Prefix(c) ==
    CHOOSE n \in 0..Len(c) :
        /\ \A j \in 1..n : c[j].acked
        /\ n < Len(c) => ~c[n + 1].acked

Popped(c) == SubSeq(c, Prefix(c) + 1, Len(c))

-----------------------------------------------------------------------------
(* The poll loop.                                                          *)

Dispatching(m) == client[m].batch # <<>> \/ client[m].pausing

\* PollRecords returns records; the rebalance stays blocked until the batch is
\* dispatched.
Poll(m) ==
    LET c == client[m] IN
    /\ c.state = "up" /\ c.assigned /\ ~c.releasing /\ ~c.paused
    /\ ~Dispatching(m)
    /\ \E n \in 1..MaxPoll :
         /\ c.position + n <= Records + 1
         /\ client' = [client EXCEPT
              ![m].batch = [j \in 1..n |-> c.position + j - 1],
              ![m].position = c.position + n]
    /\ UNCHANGED <<committed, acked, worker, upsets>>

\* enqueue up to the unlock: when the queue reaches its capacity the pause is
\* decided here, and called only afterwards.
Enqueue(m) ==
    LET w == worker[m]
        q == Append(w.queue, Head(client[m].batch))
        pause == ~w.paused /\ Len(q) >= QueuePerPartition
    IN
    /\ client[m].batch # <<>> /\ ~client[m].pausing
    /\ worker' = [worker EXCEPT ![m].queue = q,
                                ![m].paused = w.paused \/ pause,
                                ![m].signal = w.signal \/ ~pause]
    /\ client' = [client EXCEPT ![m].batch = Tail(@), ![m].pausing = pause]
    /\ UNCHANGED <<committed, acked, upsets>>

\* The rest of enqueue after a pause was decided.
PauseFetch(m) ==
    /\ client[m].pausing
    /\ client' = [client EXCEPT ![m].pausing = FALSE, ![m].paused = TRUE]
    /\ worker' = [worker EXCEPT ![m].signal = TRUE]
    /\ UNCHANGED <<committed, acked, upsets>>

-----------------------------------------------------------------------------
(* The worker's goroutine.                                                 *)

\* process is over: the goroutine goes for the next record.
Ready(w) == [w EXCEPT !.pc = "next", !.rec = 0, !.tries = 0, !.gesture = "undecided",
                      !.upto = 0, !.fenced = FALSE]

Wake(m) ==
    /\ worker[m].pc = "idle" /\ worker[m].signal /\ ~worker[m].cancelled
    /\ worker' = [worker EXCEPT ![m].pc = "next", ![m].signal = FALSE]
    /\ UNCHANGED <<committed, acked, client, upsets>>

\* next finds nothing to do: the queue is empty or the partition stalled.
Rest(m) ==
    /\ worker[m].pc = "next" /\ ~worker[m].cancelled
    /\ worker[m].stalled \/ worker[m].queue = <<>>
    /\ worker' = [worker EXCEPT ![m].pc = "idle"]
    /\ UNCHANGED <<committed, acked, client, upsets>>

\* next pops the head and process tracks it; the fetch may resume once less than
\* half of the capacity is queued.
Take(m) ==
    LET w == worker[m]
        resume == w.paused /\ Len(w.queue) - 1 < QueuePerPartition \div 2
    IN
    /\ w.pc = "next" /\ ~w.cancelled
    /\ ~w.stalled /\ w.queue # <<>>
    /\ worker' = [worker EXCEPT ![m].pc = "handle", ![m].rec = Head(w.queue),
                                ![m].queue = Tail(w.queue), ![m].tries = 1,
                                ![m].paused = w.paused /\ ~resume,
                                ![m].resuming = resume,
                                ![m].cursor = Track(w.cursor, Head(w.queue))]
    /\ UNCHANGED <<committed, acked, client, upsets>>

\* The resume decided under the lock is called after it.
ResumeFetch(m) ==
    /\ worker[m].resuming
    /\ client' = [client EXCEPT ![m].paused = FALSE]
    /\ worker' = [worker EXCEPT ![m].resuming = FALSE]
    /\ UNCHANGED <<committed, acked, upsets>>

\* The sink returns with a gesture; without one it panicked or gave up.
Handle(m, g) ==
    /\ worker[m].pc = "handle" /\ ~worker[m].resuming
    /\ IF g = "acked"
       THEN acked' = acked \cup {worker[m].rec} /\ UNCHANGED upsets
       ELSE Upset /\ UNCHANGED acked
    /\ worker' = [worker EXCEPT ![m].pc = "returned", ![m].gesture = g]
    /\ UNCHANGED <<committed, client>>

Confirm(m) ==
    LET w == worker[m] IN
    /\ w.pc = "returned" /\ ~w.cancelled /\ w.gesture = "acked"
    /\ worker' = [worker EXCEPT ![m].pc = "gate", ![m].cursor = Mark(w.cursor, w.rec)]
    /\ UNCHANGED <<committed, acked, client, upsets>>

\* The limit is reached, or the sink returned without a gesture.
GivesUp(w) == w.gesture = "undecided" \/ (w.gesture = "released" /\ w.tries >= MaxAttempts)

\* Mutant: the record is skipped, not stalled on.
StallSkipping(m) ==
    /\ worker[m].pc = "returned" /\ ~worker[m].cancelled /\ GivesUp(worker[m])
    /\ worker' = [worker EXCEPT ![m] = Ready(@)]
    /\ UNCHANGED <<committed, acked, client, upsets>>

\* stall: the partition stays paused with its queue; only a revocation ends it.
Stall(m) ==
    LET w == worker[m] IN
    /\ w.pc = "returned" /\ ~w.cancelled /\ GivesUp(w)
    /\ worker' = [worker EXCEPT ![m] = [Ready(w) EXCEPT !.stalled = TRUE, !.paused = TRUE]]
    /\ client' = [client EXCEPT ![m].paused = @ \/ ~w.paused]
    /\ UNCHANGED <<committed, acked, upsets>>

\* pauseForBackoff.
Backoff(m) ==
    LET w == worker[m] IN
    /\ w.pc = "returned" /\ ~w.cancelled
    /\ w.gesture = "released" /\ w.tries < MaxAttempts
    /\ worker' = [worker EXCEPT ![m].pc = "backoff", ![m].paused = TRUE]
    /\ client' = [client EXCEPT ![m].paused = @ \/ ~w.paused]
    /\ UNCHANGED <<committed, acked, upsets>>

\* Mutant: the fetch is not resumed after the backoff.
RetryPaused(m) ==
    /\ worker[m].pc = "backoff"
    /\ worker' = [worker EXCEPT ![m].pc = "handle", ![m].tries = @ + 1]
    /\ UNCHANGED <<committed, acked, client, upsets>>

\* resumeAfterBackoff, and the next attempt.
Retry(m) ==
    LET w == worker[m]
        resume == w.paused /\ ~w.stalled /\ Len(w.queue) < QueuePerPartition
    IN
    /\ w.pc = "backoff"
    /\ worker' = [worker EXCEPT ![m].pc = "handle", ![m].tries = @ + 1,
                                ![m].paused = w.paused /\ ~resume,
                                ![m].resuming = resume]
    /\ UNCHANGED <<committed, acked, client, upsets>>

\* Mutant: the worker commits a partition that was revoked.
GateOpen(m) ==
    LET w == worker[m] IN
    /\ w.pc = "gate"
    /\ IF Prefix(w.cursor) = 0
       THEN worker' = [worker EXCEPT ![m] = Ready(@)]
       ELSE worker' = [worker EXCEPT ![m].pc = "commit",
                                     ![m].upto = w.cursor[Prefix(w.cursor)].offset,
                                     ![m].fenced = ~client[m].current,
                                     ![m].cursor = Popped(w.cursor)]
    /\ UNCHANGED <<committed, acked, client, upsets>>

\* commitContiguous up to the unlock: a revoked worker leaves the commit to the
\* revocation.
Gate(m) ==
    LET w == worker[m] IN
    /\ w.pc = "gate"
    /\ IF w.revoked \/ Prefix(w.cursor) = 0
       THEN worker' = [worker EXCEPT ![m] = Ready(@)]
       ELSE worker' = [worker EXCEPT ![m].pc = "commit",
                                     ![m].upto = w.cursor[Prefix(w.cursor)].offset,
                                     ![m].fenced = ~client[m].current,
                                     ![m].cursor = Popped(w.cursor)]
    /\ UNCHANGED <<committed, acked, client, upsets>>

\* CommitRecords returns.  The coordinator accepts the current generation only;
\* a failure is logged and nothing else.
CommitRecords(m) ==
    LET w == worker[m] IN
    /\ w.pc = "commit"
    /\ \/ ~w.fenced /\ committed' = w.upto /\ UNCHANGED upsets
       \/ UNCHANGED committed /\ IF w.fenced \/ w.cancelled
                                 THEN UNCHANGED upsets ELSE Upset
    /\ worker' = [worker EXCEPT ![m] = Ready(@)]
    /\ UNCHANGED <<acked, client>>

\* The worker sees its context done between two steps of run or process.
Quit(m) ==
    /\ worker[m].cancelled /\ ~worker[m].resuming
    /\ worker[m].pc \in {"idle", "next", "handle", "returned"}
    /\ worker' = [worker EXCEPT ![m] = [Ready(@) EXCEPT !.pc = "left", !.queue = <<>>]]
    /\ UNCHANGED <<committed, acked, client, upsets>>

-----------------------------------------------------------------------------
(* The rebalance and the shutdown.                                         *)

\* markRevoked, then cancel.
Revoked(w) == [w EXCEPT !.revoked = TRUE, !.cancelled = TRUE]

\* release begins, in a revocation or once the client learns that its
\* generation is over (lost).  A stuck partition has no worker to release.
Release(m) ==
    LET c == client[m] IN
    /\ c.assigned /\ c.state # "down" /\ ~c.releasing /\ ~Dispatching(m)
    /\ IF c.current THEN Upset ELSE UNCHANGED upsets
    /\ IF c.stuck
       THEN client' = [client EXCEPT ![m].assigned = FALSE] /\ UNCHANGED worker
       ELSE /\ client' = [client EXCEPT ![m].releasing = TRUE]
            /\ worker' = [worker EXCEPT ![m] = Revoked(@)]
    /\ UNCHANGED <<committed, acked>>

\* settle for a worker that left: resumeFetch, and the final commit.
Settle(m) ==
    LET c == client[m]
        w == worker[m]
        n == Prefix(w.cursor)
    IN
    /\ c.releasing /\ w.pc = "left"
    /\ \/ n > 0 /\ c.current /\ committed' = w.cursor[n].offset /\ UNCHANGED upsets
       \/ UNCHANGED committed /\ IF n > 0 /\ c.current THEN Upset ELSE UNCHANGED upsets
    /\ client' = [client EXCEPT ![m].releasing = FALSE, ![m].assigned = FALSE,
                                ![m].paused = @ /\ ~w.paused]
    /\ worker' = [worker EXCEPT ![m] = NoWorker]
    /\ UNCHANGED acked

\* settle for a worker still running when the grace expires: the process ends.
SettleStuck(m) ==
    /\ client[m].releasing /\ worker[m].pc # "left"
    /\ Upset
    /\ client' = [client EXCEPT ![m].releasing = FALSE, ![m].assigned = FALSE,
                                ![m].paused = TRUE, ![m].stuck = TRUE,
                                ![m].state = IF @ = "up" THEN "stopping" ELSE @]
    /\ UNCHANGED <<committed, acked, worker>>

\* The members without the partition are the ones a rebalance finds joined.
Joined(x) == client[x].state # "down" /\ ~client[x].assigned

\* A new generation of the joined members; what others sent before is fenced.
NewGeneration(c, w) ==
    /\ client' = [x \in Members |-> [c[x] EXCEPT !.current = Joined(x)]]
    /\ worker' = [x \in Members |-> [w[x] EXCEPT !.fenced = (w[x].pc = "commit")]]

\* The client's side of an assignment: it starts at the committed offset.
Given(m) ==
    [client EXCEPT ![m].assigned = TRUE, ![m].position = committed + 1]

\* Mutant: a stuck worker does not keep the partition from getting another.
AssignAnyway(m) ==
    /\ Joined(m)
    /\ \A x \in Members : client[x].assigned => ~client[x].current
    /\ NewGeneration(Given(m), [worker EXCEPT ![m] = Fresh])
    /\ UNCHANGED <<committed, acked, upsets>>

\* The coordinator gives the partition, held by nobody of this generation, to m,
\* and assign creates its worker unless an old one is stuck.
Assign(m) ==
    /\ Joined(m)
    /\ \A x \in Members : client[x].assigned => ~client[x].current
    /\ NewGeneration(Given(m),
                     [worker EXCEPT ![m] = IF client[m].stuck THEN @ ELSE Fresh])
    /\ UNCHANGED <<committed, acked, upsets>>

\* The coordinator gives up on m, which goes on without knowing.
Expire(m) ==
    /\ client[m].assigned /\ client[m].current
    /\ Upset
    /\ NewGeneration(client, worker)
    /\ UNCHANGED <<committed, acked>>

\* The run context is done; the worker's may descend from it.
Stop(m) ==
    /\ client[m].state = "up"
    /\ Upset
    /\ client' = [client EXCEPT ![m].state = "stopping"]
    /\ \/ UNCHANGED worker
       \/ worker' = [worker EXCEPT ![m].cancelled = TRUE]
    /\ UNCHANGED <<committed, acked>>

\* stopAll, once the poll loop is out: release what there is to release.
StopAll(m) ==
    LET c == client[m]
        held == worker[m].pc # "none" /\ ~c.stuck
    IN
    /\ c.state = "stopping" /\ ~c.releasing /\ ~Dispatching(m)
    /\ client' = [client EXCEPT ![m].state = "leaving", ![m].releasing = held]
    /\ worker' = [worker EXCEPT ![m] = IF held THEN Revoked(@) ELSE @]
    /\ UNCHANGED <<committed, acked, upsets>>

Gone(m) ==
    /\ client' = [client EXCEPT ![m] = Down]
    /\ worker' = [worker EXCEPT ![m] = NoWorker]
    /\ UNCHANGED <<committed, acked>>

\* Run returns and the process ends, with a stuck handler if there is one.
Exit(m) ==
    /\ client[m].state = "leaving" /\ ~client[m].releasing
    /\ Gone(m)
    /\ UNCHANGED upsets

Crash(m) ==
    /\ client[m].state # "down"
    /\ Upset
    /\ Gone(m)

Restart(m) ==
    /\ client[m].state = "down"
    /\ client' = [client EXCEPT ![m].state = "up"]
    /\ UNCHANGED <<committed, acked, worker, upsets>>

-----------------------------------------------------------------------------

PollLoop(m) == Poll(m) \/ Enqueue(m) \/ PauseFetch(m)

Goroutine(m) ==
    \/ Wake(m) \/ Rest(m) \/ Take(m) \/ ResumeFetch(m)
    \/ \E g \in {"acked", "released", "undecided"} : Handle(m, g)
    \/ Confirm(m) \/ Stall(m) \/ Backoff(m) \/ Retry(m)
    \/ Gate(m) \/ CommitRecords(m) \/ Quit(m)

Lifecycle(m) ==
    \/ Release(m) \/ Settle(m) \/ SettleStuck(m) \/ Assign(m) \/ Expire(m)
    \/ Stop(m) \/ StopAll(m) \/ Exit(m) \/ Crash(m) \/ Restart(m)

Next == \E m \in Members : PollLoop(m) \/ Goroutine(m) \/ Lifecycle(m)

Spec == Init /\ [][Next]_vars

-----------------------------------------------------------------------------
(* Properties.                                                             *)

\* TRP-29: the committed offset never passes a record no handler acknowledged,
\* whichever member, revocation or shutdown commits it (worker.go
\* commitContiguous, offsets.go NextContiguous).
CommittedIsAcked == 1..committed \subseteq acked

\* KFK-09, TRP-47: records take effect in their order.  A record is
\* acknowledged for the first time only when all before it are, across stalls,
\* retries, rebalances and restarts (worker.go stall).
AckedInOrder == acked = 1..Cardinality(acked)

\* What stays true of the partition: offsets are committed only for acknowledged
\* records, and records are acknowledged in their order.
PartitionInv == TypeOK /\ CommittedIsAcked /\ AckedInOrder

\* TRP-48: the committed offset never moves back.  A worker of a revoked
\* partition does not commit over the one that follows it (worker.go
\* markRevoked, commitContiguous).
NoRewind == [][committed' >= committed]_vars

\* A running handler is never joined by a second one in its process: its worker
\* is replaced only after it left, or with the whole process (consumer.go
\* worker, settle).
OneHandler ==
    [][\A m \in Members :
         worker[m].pc \in {"handle", "returned"} /\ client'[m].state # "down" =>
             worker'[m].pc # "idle"]_vars

\* Scheduling: every thread runs; the coordinator assigns a partition nobody
\* holds, a member learns that its generation is over, a process is restarted.
Fairness ==
    \A m \in Members :
        /\ WF_vars(PollLoop(m))
        /\ WF_vars(Goroutine(m))
        /\ WF_vars(Settle(m) \/ StopAll(m) \/ Exit(m) \/ Restart(m))
        /\ WF_vars(~client[m].current /\ Release(m))
        /\ WF_vars(Assign(m))

FairSpec == Spec /\ Fairness

\* The fetch is paused although the worker has nothing queued and nothing at hand.
LeftPaused(m) ==
    /\ worker[m].pc = "idle"
    /\ worker[m].queue = <<>>
    /\ ~worker[m].stalled
    /\ client[m].paused

\* Left paused while the worker's flag says that the fetch runs.
PausedInError(m) == LeftPaused(m) /\ ~worker[m].paused

\* Every record is acknowledged in the end, unless a worker stalls on one or a
\* pause was called after the resume it precedes, so that the fetch is paused
\* and the worker's flag says it is not (PauseEnds): no backoff, rebalance, lost
\* lease, stuck handler, stop or crash loses the partition otherwise.
Drains ==
    <>[](acked = Offsets \/ \E m \in Members : worker[m].stalled \/ PausedInError(m))

\* worker.go enqueue: "above the declared capacity the partition's fetch is
\* paused until the queue drains".  A worker with nothing queued and nothing at
\* hand is fetched for again.
PauseEnds ==
    \A m \in Members :
        LeftPaused(m) ~> (~client[m].paused \/ worker[m].stalled)

=============================================================================
