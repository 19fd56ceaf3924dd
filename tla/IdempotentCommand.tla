------------------------- MODULE IdempotentCommand -------------------------
(***************************************************************************)
(* A synchronous command received through the inbox of its context         *)
(* (libs/backend/go/application/{execute,idempotent}.go over the command   *)
(* side of postgres/inbox.go).  Execute reads the clock once, before the   *)
(* transaction; Register inserts the key or meets the entry of an earlier  *)
(* call; a first reception runs the use case and stores its outcome in the *)
(* same transaction; any other answers from the entry.  An entry carries   *)
(* its own expiry, and a purge loop removes the expired ones.              *)
(*                                                                         *)
(* Every replica reads a clock of its own, within MaxSkew of real time,    *)
(* and a call lives at most Deadline after it read it: between reading the *)
(* clock and registering it may wait for a connection or for the key,      *)
(* while other calls commit, entries expire and the purge runs.            *)
(*                                                                         *)
(* No name is one of ExternalAttempt's: CommandProofs extends both.        *)
(***************************************************************************)
EXTENDS Integers

CONSTANTS Calls,        \* executions of a command, a client's retries included
          Keys,         \* tenant and idempotency key: the message_id of the entry
          Key,          \* the key each call carries
          Payload,      \* the fingerprint of each call
          NoCall,       \* no call
          KeyRetention, \* IdempotencyPolicy.Retention, in ticks
          Deadline,     \* what a call may last, in ticks
          MaxSkew,      \* how far a replica's clock may be from real time
          LastTick,     \* bound on the clock
          MaxMishaps    \* bound on the adversities of one behaviour

Parameters ==
    /\ Key \in [Calls -> Keys]
    /\ NoCall \notin Calls
    /\ KeyRetention \in Nat \ {0}
    /\ Deadline \in Nat
    /\ MaxSkew \in Nat
    /\ LastTick \in Nat
    /\ MaxMishaps \in Nat

ASSUME CommandAssumption == Parameters

VARIABLES
    clock,   \* real time
    entry,   \* the committed inbox row of each key
    lock,    \* the call whose open transaction holds the row of a key
    call,    \* the progress of each call
    ran,     \* history: the calls whose Run was committed, with what it enqueued
    mishaps  \* adversities so far

commandVars == <<clock, entry, lock, call, ran, mishaps>>

\* The call that ran stands for the stored outcome; its fingerprint is the
\* payload_hash.  expires is expires_at.
Entry == [by: Calls \cup {NoCall}, status: {"absent", "processed", "rejected"}, expires: Int]

NoEntry == [by |-> NoCall, status |-> "absent", expires |-> 0]

\* "waiting" until Register returns, "conflict" between the two statements of a
\* Register that met an entry, "first" with the key inserted, "ran" once Complete
\* wrote the outcome; the others are answers.
Answers == {"new", "replayed", "mismatch", "inflight", "failed"}
CallStages == {"idle", "waiting", "conflict", "first", "ran"} \cup Answers

Open == {"conflict", "first", "ran"}

\* now is identity.OccurredAt; began and registered are the real instants of the
\* reading and of the registration, kept as the history of an execution; from is the
\* call whose outcome the answer carries.
Call == [stage: CallStages, now: Int, began: Nat, registered: Nat,
         status: {"absent", "processed", "rejected"}, from: Calls \cup {NoCall}]

IdleCall == [stage |-> "idle", now |-> 0, began |-> 0, registered |-> 0,
         status |-> "absent", from |-> NoCall]

CommandTypeOK ==
    /\ clock \in 0..LastTick
    /\ entry \in [Keys -> Entry]
    /\ lock \in [Keys -> Calls \cup {NoCall}]
    /\ call \in [Calls -> Call]
    /\ ran \subseteq Calls
    /\ mishaps \in 0..MaxMishaps

CommandInit ==
    /\ clock = 0
    /\ entry = [k \in Keys |-> NoEntry]
    /\ lock = [k \in Keys |-> NoCall]
    /\ call = [c \in Calls |-> IdleCall]
    /\ ran = {}
    /\ mishaps = 0

Mishap == mishaps < MaxMishaps /\ mishaps' = mishaps + 1

\* What some replica's clock may show now.
Readings == (clock - MaxSkew)..(clock + MaxSkew)

\* The call ends without an outcome of its own: what it read is gone with it.
Answer(c, a) == call' = [call EXCEPT ![c] = [IdleCall EXCEPT !.stage = a]]

\* The transaction ends: what it locked is free.
Unlock(c) == lock' = [lock EXCEPT ![Key[c]] = IF @ = c THEN NoCall ELSE @]

-----------------------------------------------------------------------------
(* One call.                                                               *)

\* Execute past Authorize: ResolveIdentity reads the clock, before Within.
Resolve(c) ==
    /\ call[c].stage = "idle"
    /\ \E t \in Readings :
         call' = [call EXCEPT ![c] = [IdleCall EXCEPT !.stage = "waiting", !.now = t, !.began = clock]]
    /\ UNCHANGED <<clock, entry, lock, ran, mishaps>>

\* Mutant: the bound in the WHERE of the ON CONFLICT branch is one tick early.
ReplaceableEarly(x, now) == x.by = NoCall \/ x.expires <= now + 1

\* The insert takes the key: no row, or one the DO UPDATE branch of
\* insertCommand replaces, expired for the clock this call read.
Replaceable(x, now) == x.by = NoCall \/ x.expires <= now

\* insertCommand.  It waits while another transaction holds the key, and locks
\* the row it meets even when the WHERE of DO UPDATE refuses to replace it.
Register(c) ==
    LET k == Key[c]
    IN  /\ call[c].stage = "waiting"
        /\ lock[k] = NoCall
        /\ lock' = [lock EXCEPT ![k] = c]
        /\ call' = [call EXCEPT ![c].registered = clock,
                                ![c].stage = IF Replaceable(entry[k], call[c].now)
                                             THEN "first" ELSE "conflict"]
        /\ UNCHANGED <<clock, entry, ran, mishaps>>

\* lock_timeout passes while another call holds the key: ErrIdempotencyInFlight.
RegisterTimeout(c) ==
    /\ call[c].stage = "waiting"
    /\ lock[Key[c]] # NoCall
    /\ Answer(c, "inflight")
    /\ UNCHANGED <<clock, entry, lock, ran, mishaps>>

\* selectInbox and the branches of Match: R2 and R3 return the stored outcome,
\* R4 refuses, and a row gone after the conflict is an error.
Replay(c) ==
    LET x == entry[Key[c]]
    IN  /\ call[c].stage = "conflict"
        /\ \/ x.by = NoCall /\ Answer(c, "failed")
           \/ x.by # NoCall /\ Payload[x.by] # Payload[c] /\ Answer(c, "mismatch")
           \/ /\ x.by # NoCall
              /\ Payload[x.by] = Payload[c]
              /\ call' = [call EXCEPT ![c] = [IdleCall EXCEPT !.stage = "replayed", !.from = x.by]]
        /\ Unlock(c)
        /\ UNCHANGED <<clock, entry, ran, mishaps>>

\* Run and Complete: acceptance and business refusal are both outcomes.
Run(c) ==
    /\ call[c].stage = "first"
    /\ \E s \in {"processed", "rejected"} :
         call' = [call EXCEPT ![c].stage = "ran", ![c].status = s]
    /\ UNCHANGED <<clock, entry, lock, ran, mishaps>>

\* The entry, the business state and the outbox commit together.
Committed(c) ==
    /\ call[c].stage = "ran"
    /\ entry' = [entry EXCEPT ![Key[c]] =
                   [by |-> c, status |-> call[c].status, expires |-> call[c].now + KeyRetention]]
    /\ ran' = ran \cup {c}
    /\ Unlock(c)
    /\ UNCHANGED clock

Commit(c) ==
    /\ Committed(c)
    /\ call' = [call EXCEPT ![c].stage = "new", ![c].from = c]
    /\ UNCHANGED mishaps

\* The commit is applied and its answer lost, or the response is.
CommitAnswerLost(c) ==
    /\ Committed(c)
    /\ Mishap
    /\ call' = [call EXCEPT ![c].stage = "failed"]

\* Any statement fails, the stored outcome cannot be decoded, the deadline
\* passes or the process dies: the transaction rolls back.
CallFails(c) ==
    /\ call[c].stage \in {"waiting"} \cup Open
    /\ Mishap
    /\ Answer(c, "failed")
    /\ Unlock(c)
    /\ UNCHANGED <<clock, entry, ran>>

-----------------------------------------------------------------------------
(* Time and the purge loop.                                                *)

\* A call does not outlive its context: the deadline ends it first.
CommandTick ==
    /\ clock < LastTick
    /\ \A c \in Calls : call[c].stage \in {"waiting"} \cup Open => clock - call[c].began < Deadline
    /\ clock' = clock + 1
    /\ UNCHANGED <<entry, lock, call, ran, mishaps>>

\* Mutants: its cutoff subtracts the retention a second time; it removes what is
\* about to expire.
PurgeTwiceRetained(k) ==
    /\ entry[k].by # NoCall
    /\ lock[k] = NoCall
    /\ \E t \in Readings : entry[k].expires <= t - KeyRetention
    /\ entry' = [entry EXCEPT ![k] = NoEntry]
    /\ UNCHANGED <<clock, lock, call, ran, mishaps>>
PurgeByReception(k) ==
    /\ entry[k].by # NoCall
    /\ lock[k] = NoCall
    /\ \E t \in Readings : entry[k].expires - KeyRetention < t
    /\ entry' = [entry EXCEPT ![k] = NoEntry]
    /\ UNCHANGED <<clock, lock, call, ran, mishaps>>

\* PurgeExpiredInbox, one row of its batch: expired for the clock of the process
\* that runs the loop, and not locked (FOR UPDATE SKIP LOCKED).
PurgeExpired(k) ==
    /\ entry[k].by # NoCall
    /\ lock[k] = NoCall
    /\ \E t \in Readings : entry[k].expires <= t
    /\ entry' = [entry EXCEPT ![k] = NoEntry]
    /\ UNCHANGED <<clock, lock, call, ran, mishaps>>

-----------------------------------------------------------------------------

Execute(c) ==
    \/ Resolve(c) \/ Register(c) \/ RegisterTimeout(c) \/ Replay(c)
    \/ Run(c) \/ Commit(c)

CommandNext ==
    \/ \E c \in Calls : Execute(c) \/ CommitAnswerLost(c) \/ CallFails(c)
    \/ CommandTick
    \/ \E k \in Keys : PurgeExpired(k)

CommandSpec == CommandInit /\ [][CommandNext]_commandVars

-----------------------------------------------------------------------------
(* Properties.                                                             *)

\* IDM-05, IDM-09: the outcome of a committed Run stays the entry of its key for
\* as long as no replica's clock has reached its expiry, whatever is retried,
\* fails or is purged meanwhile.
EntryStands ==
    \A c \in ran : clock + MaxSkew < call[c].now + KeyRetention =>
        entry[Key[c]].by = c /\ entry[Key[c]].status = call[c].status

\* Two executions of one key are a retention apart in real time, less what one
\* call may last and the skew of two clocks: a retry that read the clock before
\* the expiry and registers after the purge executes no earlier than that.
RepeatsAreApart ==
    \A c, d \in ran : c # d /\ Key[c] = Key[d] =>
        \/ call[d].registered - call[c].registered >= KeyRetention - Deadline - 2 * MaxSkew
        \/ call[c].registered - call[d].registered >= KeyRetention - Deadline - 2 * MaxSkew

\* IDM-04, IDM-06, IDM-08: a replay returns the outcome of a committed execution
\* of the same key and fingerprint, and is not one; a refused call and one told
\* to repeat later executed nothing.
AnswersAreTruthful ==
    \A c \in Calls :
        /\ call[c].stage = "replayed" =>
              /\ c \notin ran
              /\ call[c].from \in ran
              /\ Key[call[c].from] = Key[c]
              /\ Payload[call[c].from] = Payload[c]
        /\ call[c].stage = "new" => c \in ran
        /\ call[c].stage \in {"mismatch", "inflight"} => c \notin ran

\* The row a Register met is still there when it is read: the error for a row
\* absent after the conflict is never returned, although the purge runs at any
\* moment (inbox.go Register).
ConflictingRowRemains ==
    \A c \in Calls : call[c].stage = "conflict" => entry[Key[c]].by # NoCall

\* The purge loop runs, a call's steps are scheduled, and time passes.
Fairness ==
    /\ WF_commandVars(CommandTick)
    /\ \A c \in Calls : WF_commandVars(Execute(c))
    /\ \A k \in Keys : WF_commandVars(PurgeExpired(k))

CommandFairSpec == CommandSpec /\ Fairness

\* IDM-09: no key keeps an expired entry for ever: it leaves the table, or a new
\* execution takes it over; no retention is counted twice.
ExpiredEntriesLeave ==
    \A k \in Keys :
        []<>(entry[k].by = NoCall \/ entry[k].expires > clock)

-----------------------------------------------------------------------------
(* The inductive invariant.                                                *)

\* The transaction of a call holds its key exactly while it is open, so a key
\* is in one open transaction at most.
LocksAreOwned ==
    /\ \A c \in Calls : call[c].stage \in Open <=> lock[Key[c]] = c
    /\ \A k \in Keys : lock[k] # NoCall => Key[lock[k]] = k

\* What a call read of the two clocks, and that it has not outlived its deadline.
InstantsAreOrdered ==
    \A c \in Calls :
        /\ call[c].stage = "idle" => c \notin ran
        /\ call[c].stage \in {"waiting"} \cup Open =>
              c \notin ran /\ clock - call[c].began <= Deadline /\ call[c].began <= clock
        /\ call[c].stage \in Open => call[c].began <= call[c].registered
        /\ call[c].stage # "idle" =>
              /\ call[c].now >= call[c].began - MaxSkew
              /\ call[c].now <= call[c].began + MaxSkew
        /\ call[c].registered <= clock
        /\ call[c].began <= clock

\* An entry is the outcome of a committed execution of its key.
EntriesAreCommitted ==
    \A k \in Keys : entry[k].by # NoCall =>
        /\ entry[k].by \in ran
        /\ Key[entry[k].by] = k
        /\ entry[k].status = call[entry[k].by].status
        /\ entry[k].expires = call[entry[k].by].now + KeyRetention

\* A committed execution that is no longer its key's entry had expired by now,
\* and before the call that holds the key, or the one that is the entry, registered.
SupersededHadExpired ==
    \A c \in ran :
        LET end == call[c].now + KeyRetention - MaxSkew
        IN  /\ call[c].stage # "idle"
            /\ call[c].registered <= call[c].began + Deadline
            /\ entry[Key[c]].by # c => end <= clock
            /\ \A d \in Calls : /\ d # c
                                /\ Key[d] = Key[c]
                                /\ call[d].stage \in {"first", "ran"}
                 => end <= call[d].registered

CommandInv ==
    /\ LocksAreOwned
    /\ InstantsAreOrdered
    /\ EntriesAreCommitted
    /\ SupersededHadExpired
    /\ EntryStands
    /\ AnswersAreTruthful
    /\ ConflictingRowRemains

=============================================================================
