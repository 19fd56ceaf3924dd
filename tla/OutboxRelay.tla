---------------------------- MODULE OutboxRelay ----------------------------
(***************************************************************************)
(* The relays that drain the outbox (libs/backend/go/app/relay): several   *)
(* processes run the same loop over one table.  A scan claims a batch      *)
(* under a fresh claim identity, delivers each record in a goroutine of    *)
(* its own (assemble, publish with no database lock held, then write one   *)
(* transition conditional on the claim), waits for all of them and hands   *)
(* back the claims nobody finished.                                        *)
(*                                                                         *)
(* Between any two of those steps a lease may lapse and another relay may  *)
(* take the record, the process may crash, panic or be told to stop, the   *)
(* broker may accept a message and lose the answer, and a database write   *)
(* may land and lose its answer.  Each such adversity is counted in        *)
(* `upsets`, bounded by MaxUpsets so that behaviours stay finite.          *)
(***************************************************************************)
EXTENDS Outbox, FiniteSets

CONSTANTS Relays,         \* the relay processes
          Messages,       \* message ids; one outbox row each
          Incomplete,     \* rows whose metadata fails the eligibility test (D5)
          Unassemblable,  \* rows Assemble refuses: bad hash, version, tenant
          BatchSize,      \* records one claim acquires
          Concurrency,    \* deliveries one scan runs at a time
          MaxAttempts,    \* ceiling of OBX-06; 0 means none
          MaxUpsets       \* bound on the adversities of one behaviour

ASSUME ConstantsAssumption ==
    /\ Incomplete \subseteq Messages
    /\ Unassemblable \subseteq Messages
    /\ BatchSize \in Nat \ {0}
    /\ Concurrency \in Nat \ {0}
    /\ MaxAttempts \in Nat
    /\ MaxUpsets \in Nat

VARIABLES
    row,        \* the outbox table, one row per message
    log,        \* <<m, c>>: the broker accepted the copy of m published under claim c
    wire,       \* <<m, c>>: a copy in transit whose publisher already saw an error
    phase,      \* of each relay: "down", "idle" between scans, "scan"
    cancelled,  \* the context of Run is cancelled
    panicked,   \* the fault of the current scan
    claim,      \* the claim identity of the current scan
    job,        \* the delivery of each record of the current scan
    attempt,    \* AttemptCount as Claim returned it: a copy, never read again
    lastClaim,  \* the last identity ClaimIDs.NewClaimID returned
    upsets,     \* adversities so far
    orphaned    \* history: <<m, c>> claims that ended without being handed back

table   == <<row>>
broker  == <<log, wire>>
relayVars == <<phase, cancelled, panicked, claim, job, attempt>>
ghosts  == <<upsets, orphaned>>
vars    == <<table, broker, relayVars, lastClaim, ghosts>>

Phases == {"down", "idle", "scan"}

\* One delivery: "queued" behind the concurrency limit, "sending" inside
\* Publish, then the answer deliver acts on ("accepted", "refused", or
\* "invalid" when Assemble refused it), and at last "settled" (out of the held
\* set) or "unfinished" (still held when the scan ends).
Jobs == {"none", "queued", "sending", "accepted", "refused", "invalid",
         "settled", "unfinished"}

Answered == {"accepted", "refused", "invalid"}

TypeOK ==
    /\ row \in [Messages -> Row]
    /\ log \subseteq Messages \X Nat
    /\ wire \subseteq Messages \X Nat
    /\ phase \in [Relays -> Phases]
    /\ cancelled \in [Relays -> BOOLEAN]
    /\ panicked \in [Relays -> BOOLEAN]
    /\ claim \in [Relays -> Nat]
    /\ job \in [Relays -> [Messages -> Jobs]]
    /\ attempt \in [Relays -> [Messages -> Nat]]
    /\ lastClaim \in Nat
    /\ upsets \in 0..MaxUpsets
    /\ orphaned \subseteq Messages \X Nat

NoJobs == [m \in Messages |-> "none"]
NoAttempts == [m \in Messages |-> 0]

Init ==
    /\ row = [m \in Messages |-> NoRow]
    /\ log = {}
    /\ wire = {}
    /\ phase = [r \in Relays |-> "down"]
    /\ cancelled = [r \in Relays |-> FALSE]
    /\ panicked = [r \in Relays |-> FALSE]
    /\ claim = [r \in Relays |-> NoClaim]
    /\ job = [r \in Relays |-> NoJobs]
    /\ attempt = [r \in Relays |-> NoAttempts]
    /\ lastClaim = NoClaim
    /\ upsets = 0
    /\ orphaned = {}

Upset == upsets < MaxUpsets /\ upsets' = upsets + 1

\* held.remaining(): the records the current scan still has to finish.
Held(r) == {m \in Messages : job[r][m] \notin {"none", "settled"}}

\* Deliveries that hold a concurrency slot.
Running(r) == {m \in Messages : job[r][m] \in {"sending"} \cup Answered}

\* Mutant: the release waits for the claims it is there to hand back.
DrainedWhenSettled(r) == \A m \in Messages : job[r][m] \in {"none", "settled"}

\* group.Wait() returned: every record was started and every delivery ended.
Drained(r) == \A m \in Messages : job[r][m] \in {"none", "settled", "unfinished"}

-----------------------------------------------------------------------------
(* The producer: the row commits with the business state or not at all.    *)

Enqueue(m, at) ==
    /\ row[m].status = "absent"
    /\ row' = [row EXCEPT ![m] = InsertOutbox(at)]
    /\ UNCHANGED <<broker, relayVars, lastClaim, ghosts>>

-----------------------------------------------------------------------------
(* The loop of Run.                                                        *)

\* The orchestrator starts the process again.
Start(r) ==
    /\ phase[r] = "down"
    /\ phase' = [phase EXCEPT ![r] = "idle"]
    /\ cancelled' = [cancelled EXCEPT ![r] = FALSE]
    /\ panicked' = [panicked EXCEPT ![r] = FALSE]
    /\ UNCHANGED <<table, broker, claim, job, attempt, lastClaim, ghosts>>

\* The rows one claimStatement may take: ORDER BY picks among them and SKIP
\* LOCKED may leave some out, so any non-empty subset within LIMIT.
Batches ==
    {S \in SUBSET {m \in Messages \ Incomplete : Claimable(row[m])} :
        S # {} /\ Cardinality(S) <= BatchSize}

ClaimRows(S, c) ==
    row' = [m \in Messages |-> IF m \in S THEN ClaimStatement(row[m], c) ELSE row[m]]

Claim(r, S) ==
    /\ phase[r] = "idle"
    /\ ~cancelled[r]
    /\ S \in Batches
    /\ lastClaim' = lastClaim + 1
    /\ ClaimRows(S, lastClaim + 1)
    /\ phase' = [phase EXCEPT ![r] = "scan"]
    /\ claim' = [claim EXCEPT ![r] = lastClaim + 1]
    /\ job' = [job EXCEPT ![r] = [m \in Messages |-> IF m \in S THEN "queued" ELSE "none"]]
    /\ attempt' = [attempt EXCEPT ![r] =
                     [m \in Messages |-> IF m \in S THEN row[m].attemptCount + 1 ELSE 0]]
    /\ UNCHANGED <<broker, cancelled, panicked, ghosts>>

\* The claim commits and its answer is lost: Run returns the error, and nobody
\* knows which rows carry the identity.
ClaimAnswerLost(r, S) ==
    /\ phase[r] = "idle"
    /\ S \in Batches
    /\ Upset
    /\ lastClaim' = lastClaim + 1
    /\ ClaimRows(S, lastClaim + 1)
    /\ orphaned' = orphaned \cup (S \X {lastClaim + 1})
    /\ phase' = [phase EXCEPT ![r] = "down"]
    /\ UNCHANGED <<broker, cancelled, panicked, claim, job, attempt>>

\* The claim fails without an effect, which ends Run as well.
ClaimFails(r) ==
    /\ phase[r] = "idle"
    /\ Upset
    /\ phase' = [phase EXCEPT ![r] = "down"]
    /\ UNCHANGED <<table, broker, cancelled, panicked, claim, job, attempt, lastClaim, orphaned>>

\* The process is told to stop; the loop and the publishers see it when they look.
Cancel(r) ==
    /\ phase[r] # "down"
    /\ ~cancelled[r]
    /\ Upset
    /\ cancelled' = [cancelled EXCEPT ![r] = TRUE]
    /\ UNCHANGED <<table, broker, phase, panicked, claim, job, attempt, lastClaim, orphaned>>

\* The loop condition ctx.Err() == nil, or wait interrupted.
Stop(r) ==
    /\ phase[r] = "idle"
    /\ cancelled[r]
    /\ phase' = [phase EXCEPT ![r] = "down"]
    /\ UNCHANGED <<table, broker, cancelled, panicked, claim, job, attempt, lastClaim, ghosts>>

-----------------------------------------------------------------------------
(* One delivery.                                                           *)

SetJob(r, m, j) == job' = [job EXCEPT ![r][m] = j]

\* A goroutine takes a slot; Assemble refuses the record or Publish is called.
Send(r, m) ==
    /\ phase[r] = "scan"
    /\ job[r][m] = "queued"
    /\ Cardinality(Running(r)) < Concurrency
    /\ SetJob(r, m, IF m \in Unassemblable THEN "invalid" ELSE "sending")
    /\ UNCHANGED <<table, broker, phase, cancelled, panicked, claim, attempt, lastClaim, ghosts>>

\* Publish returns nil: the broker has the message.
PublishAccepted(r, m) ==
    /\ job[r][m] = "sending"
    /\ log' = log \cup {<<m, claim[r]>>}
    /\ SetJob(r, m, "accepted")
    /\ UNCHANGED <<table, wire, phase, cancelled, panicked, claim, attempt, lastClaim, ghosts>>

\* Mutant: a refused message is sent again under the same claim.
PublishRetriedInPlace(r, m) ==
    /\ job[r][m] = "sending"
    /\ Upset
    /\ wire' \in {wire, wire \cup {<<m, claim[r]>>}}
    /\ SetJob(r, m, "sending")
    /\ UNCHANGED <<table, log, phase, cancelled, panicked, claim, attempt, lastClaim, orphaned>>

\* Publish returns an error; the message may still be on its way.
PublishRefused(r, m) ==
    /\ job[r][m] = "sending"
    /\ Upset
    /\ wire' \in {wire, wire \cup {<<m, claim[r]>>}}
    /\ SetJob(r, m, "refused")
    /\ UNCHANGED <<table, log, phase, cancelled, panicked, claim, attempt, lastClaim, orphaned>>

\* The broker accepts a copy whose publisher has given up on it.
LateArrival(m, c) ==
    /\ <<m, c>> \in wire
    /\ log' = log \cup {<<m, c>>}
    /\ wire' = wire \ {<<m, c>>}
    /\ UNCHANGED <<table, relayVars, lastClaim, ghosts>>

\* A conditional UPDATE of r's record m.  It lands on the row only while the
\* row still carries r's claim, and zero rows affected settles the delivery as
\* well (claim lost).  A write whose answer is an error, landed or not, leaves
\* the record held.
Transition(r, m, new) ==
    LET landed == row' = [row EXCEPT ![m] = IF HeldBy(@, claim[r]) THEN new ELSE @]
    IN  \/ landed /\ SetJob(r, m, "settled") /\ UNCHANGED upsets
        \/ landed /\ SetJob(r, m, "unfinished") /\ Upset
        \/ row' = row /\ SetJob(r, m, "unfinished") /\ Upset

MarkPublished(r, m) ==
    /\ job[r][m] = "accepted"
    /\ Transition(r, m, MarkPublishedStatement(row[m]))
    /\ UNCHANGED <<broker, phase, cancelled, panicked, claim, attempt, lastClaim, orphaned>>

\* The ceiling is compared with the attempt count the claim returned.
Exhausted(r, m) == MaxAttempts > 0 /\ attempt[r][m] >= MaxAttempts

\* A publisher cancelled by the shutdown did not fail: the record stays held.
Abandon(r, m) ==
    /\ job[r][m] = "refused"
    /\ cancelled[r]
    /\ SetJob(r, m, "unfinished")
    /\ UNCHANGED <<table, broker, phase, cancelled, panicked, claim, attempt, lastClaim, ghosts>>

Reschedule(r, m, at) ==
    /\ job[r][m] = "refused"
    /\ ~cancelled[r]
    /\ ~Exhausted(r, m)
    /\ Transition(r, m, RescheduleStatement(row[m], at, "transport"))
    /\ UNCHANGED <<broker, phase, cancelled, panicked, claim, attempt, lastClaim, orphaned>>

Fail(r, m) ==
    /\ \/ job[r][m] = "invalid" /\ Transition(r, m, FailStatement(row[m], "own"))
       \/ /\ job[r][m] = "refused"
          /\ ~cancelled[r]
          /\ Exhausted(r, m)
          /\ Transition(r, m, FailStatement(row[m], "transport"))
    /\ UNCHANGED <<broker, phase, cancelled, panicked, claim, attempt, lastClaim, orphaned>>

\* A delivery panics; fault.catch records it and the record stays held.
DeliveryPanics(r, m) ==
    /\ m \in Running(r)
    /\ Upset
    /\ wire' \in {wire} \cup
          (IF job[r][m] = "sending" THEN {wire \cup {<<m, claim[r]>>}} ELSE {})
    /\ SetJob(r, m, "unfinished")
    /\ panicked' = [panicked EXCEPT ![r] = TRUE]
    /\ UNCHANGED <<table, log, phase, cancelled, claim, attempt, lastClaim, orphaned>>

\* openDrain panics before any delivery starts; the deferred release still runs.
DrainPanics(r) ==
    /\ phase[r] = "scan"
    /\ \A m \in Messages : job[r][m] \in {"none", "queued"}
    /\ Upset
    /\ job' = [job EXCEPT ![r] =
                 [m \in Messages |-> IF job[r][m] = "queued" THEN "unfinished" ELSE "none"]]
    /\ panicked' = [panicked EXCEPT ![r] = TRUE]
    /\ UNCHANGED <<table, broker, phase, cancelled, claim, attempt, lastClaim, orphaned>>

-----------------------------------------------------------------------------
(* The end of a scan, of a process, and of a deadline.                     *)

\* release: one unfinished claim goes back to the pool at the current instant
\* (GREATEST may push it to an occurred_at still ahead).  A failed write is
\* only logged, so the claim is left to its lease.
Release(r, m, at) ==
    /\ phase[r] = "scan"
    /\ Drained(r)
    /\ job[r][m] = "unfinished"
    /\ SetJob(r, m, "settled")
    /\ \/ /\ row' = [row EXCEPT ![m] = IF HeldBy(@, claim[r])
                                       THEN RescheduleStatement(@, at, "null") ELSE @]
          /\ UNCHANGED ghosts
       \/ /\ Upset
          /\ orphaned' = orphaned \cup {<<m, claim[r]>>}
          /\ UNCHANGED row
    /\ UNCHANGED <<broker, phase, cancelled, panicked, claim, attempt, lastClaim>>

\* scan returns; a fault or a cancelled context ends Run.
EndScan(r) ==
    /\ phase[r] = "scan"
    /\ Drained(r)
    /\ Held(r) = {}
    /\ phase' = [phase EXCEPT ![r] = IF panicked[r] \/ cancelled[r] THEN "down" ELSE "idle"]
    /\ claim' = [claim EXCEPT ![r] = NoClaim]
    /\ job' = [job EXCEPT ![r] = NoJobs]
    /\ attempt' = [attempt EXCEPT ![r] = NoAttempts]
    /\ UNCHANGED <<table, broker, cancelled, panicked, lastClaim, ghosts>>

\* The process dies: what it was publishing may still reach the broker, and
\* its claims are left to their leases.
Crash(r) ==
    /\ phase[r] # "down"
    /\ Upset
    /\ wire' \in {wire, wire \cup ({m \in Messages : job[r][m] = "sending"} \X {claim[r]})}
    /\ orphaned' = orphaned \cup (Held(r) \X {claim[r]})
    /\ phase' = [phase EXCEPT ![r] = "down"]
    /\ claim' = [claim EXCEPT ![r] = NoClaim]
    /\ job' = [job EXCEPT ![r] = NoJobs]
    /\ attempt' = [attempt EXCEPT ![r] = NoAttempts]
    /\ UNCHANGED <<table, log, cancelled, panicked, lastClaim>>

\* A relay is still working under the claim the row carries.
Attended(m) ==
    \E r \in Relays : claim[r] # NoClaim /\ claim[r] = row[m].lockedBy /\ m \in Held(r)

\* locked_until passes.  It is an upset only when the holder is still at work:
\* the lease was shorter than the delivery.
LeaseLapses(m) ==
    /\ row[m].lockedUntil = "ahead"
    /\ row' = [row EXCEPT ![m].lockedUntil = "past"]
    /\ IF Attended(m) THEN Upset ELSE UNCHANGED upsets
    /\ UNCHANGED <<broker, relayVars, lastClaim, orphaned>>

\* available_at passes.
BecomesDue(m) ==
    /\ InTable(row[m])
    /\ row[m].availableAt = "later"
    /\ row' = [row EXCEPT ![m].availableAt = "due"]
    /\ UNCHANGED <<broker, relayVars, lastClaim, ghosts>>

\* PurgePublished, one row of its batch, past the caller's retention cutoff.
PurgePublished(m) ==
    /\ Purgeable(row[m])
    /\ row' = [row EXCEPT ![m] = DeletePublished(@)]
    /\ UNCHANGED <<broker, relayVars, lastClaim, ghosts>>

-----------------------------------------------------------------------------

Deliver(r, m) ==
    \/ Send(r, m)
    \/ PublishAccepted(r, m)
    \/ MarkPublished(r, m)
    \/ Abandon(r, m)
    \/ \E at \in {"due", "later"} : Reschedule(r, m, at)
    \/ Fail(r, m)
    \/ \E at \in {"due", "later"} : Release(r, m, at)

Loop(r) == Start(r) \/ Stop(r) \/ EndScan(r)

Environment ==
    \/ \E r \in Relays :
         \/ \E S \in Batches : ClaimAnswerLost(r, S)
         \/ ClaimFails(r) \/ Cancel(r) \/ DrainPanics(r) \/ Crash(r)
         \/ \E m \in Messages : PublishRefused(r, m) \/ DeliveryPanics(r, m)
    \/ \E m \in Messages :
         \/ \E at \in {"due", "later"} : Enqueue(m, at)
         \/ \E c \in 1..lastClaim : LateArrival(m, c)
         \/ PurgePublished(m)

Next ==
    \/ \E r \in Relays : Loop(r) \/ \E S \in Batches : Claim(r, S)
    \/ \E r \in Relays, m \in Messages : Deliver(r, m)
    \/ \E m \in Messages : LeaseLapses(m) \/ BecomesDue(m)
    \/ Environment

Spec == Init /\ [][Next]_vars

-----------------------------------------------------------------------------
(* The outbox as its producers and consumers see it.                       *)

Owed(s) ==
    CASE s \in {"pending", "publishing"}  -> "owed"
      [] s \in {"published", "purged"}    -> "confirmed"
      [] s = "failed"                     -> "givenup"
      [] OTHER                            -> "absent"

Contract == INSTANCE AtLeastOnce
    WITH owed <- [m \in Messages |-> Owed(row[m].status)],
         reached <- {m \in Messages : \E c \in 1..lastClaim : <<m, c>> \in log}

\* The drain implements AtLeastOnce: no copy reaches the broker before the row
\* is committed, nothing is confirmed without one, and neither a superseded
\* relay nor a lost answer undoes a confirmation or a failure.
RefinesAtLeastOnce == Contract!Spec

-----------------------------------------------------------------------------
(* Properties.                                                             *)

\* A row says published (or was purged as such) only after the broker accepted
\* a copy of the message: deliver calls MarkPublished on no other path, whatever
\* answers were lost and whoever else published the record (publish.go deliver).
PublishedWasAccepted ==
    \A m \in Messages : row[m].status \in {"published", "purged"} =>
        \E c \in 1..lastClaim : <<m, c>> \in log

\* A row is failed only for a record the envelope assembly refuses, or once its
\* own claim counter reached MaxAttempts, never on the count of a stale copy;
\* and the row says which (publish.go deliver, terminal).
FailedForCause ==
    \A m \in Messages : row[m].status = "failed" =>
        \/ row[m].lastError = "own" /\ m \in Unassemblable
        \/ /\ row[m].lastError = "transport"
           /\ MaxAttempts > 0
           /\ row[m].attemptCount >= MaxAttempts

\* OBX-13: a row shows a lease only while a relay is working under that very
\* claim, unless the claim was orphaned by a crash or by a write that failed.
\* Every other way a scan ends, panic and shutdown included, hands it back.
NoLeaseLeftBehind ==
    \A m \in Messages : row[m].lockedUntil # "null" =>
        Attended(m) \/ <<m, row[m].lockedBy>> \in orphaned

\* One claim publishes a record at most once: a delivery not yet sent has no
\* copy of its claim in the broker or in transit (relay.go scan, publish.go).
OnePublicationPerClaim ==
    \A r \in Relays, m \in Messages : job[r][m] \in {"queued", "sending"} =>
        <<m, claim[r]>> \notin log \cup wire

\* The copies of a message, accepted or in transit, are no more than the
\* attempts its row counts: attempt_count bounds the duplicates consumers see.
CopiesWithinAttempts ==
    \A m \in Messages :
        Cardinality({c \in 1..lastClaim : <<m, c>> \in log \cup wire})
            <= row[m].attemptCount

\* OBX-10, OBX-11: a step of a relay whose claim on the record was replaced
\* leaves the row as it is, whichever transition it was about to write.
SupersededClaimIsInert ==
    [][\A r \in Relays, m \in Messages :
          (m \in Held(r) /\ row[m].lockedBy # claim[r] /\ job'[r][m] # job[r][m])
             => row'[m] = row[m]]_vars

Successors(s) ==
    CASE s = "absent"     -> {"absent", "pending"}
      [] s = "pending"    -> {"pending", "publishing"}
      [] s = "publishing" -> {"publishing", "published", "failed"}
      [] s = "published"  -> {"published", "purged"}
      [] OTHER            -> {s}

\* OBX-04, OBX-06, OBX-17: publishing never goes back to pending, published and
\* failed are final for the relay, and only a published row is purged.
StatusOnlyAdvances ==
    [][\A m \in Messages : row'[m].status \in Successors(row[m].status)]_vars

\* Identities are fresh: no row, relay, copy or orphan carries one that
\* NewClaimID has not returned yet, two relays never share one, and a relay
\* outside a scan has neither an identity nor deliveries.
ClaimsAreFresh ==
    /\ \A m \in Messages : row[m].lockedBy <= lastClaim
    /\ \A r \in Relays : claim[r] <= lastClaim
    /\ log \cup wire \cup orphaned \subseteq Messages \X (1..lastClaim)
    /\ \A r, s \in Relays : claim[r] = claim[s] /\ claim[r] # NoClaim => r = s
    /\ \A r \in Relays : phase[r] = "scan" <=> claim[r] # NoClaim
    /\ \A r \in Relays : phase[r] # "scan" => \A m \in Messages : job[r][m] = "none"

\* Only a publishing row shows a lease, and a row never claimed has no identity.
RowsAreConsistent ==
    \A m \in Messages :
        /\ row[m].lockedUntil # "null" => row[m].status = "publishing"
        /\ row[m].status \in {"absent", "pending", "purged"} => row[m].lockedBy = NoClaim

\* What a delivery knows of its record.  Until it settles, and as long as the
\* row carries its claim, the row is publishing and counts the attempts the
\* claim returned; an accepted delivery has its copy in the broker.
DeliveriesAreConsistent ==
    \A r \in Relays, m \in Messages :
        /\ job[r][m] = "accepted" => <<m, claim[r]>> \in log
        /\ job[r][m] = "invalid" => m \in Unassemblable
        /\ job[r][m] # "none" => row[m].status \notin {"absent", "pending"}
        /\ m \in Held(r) /\ HeldBy(row[m], claim[r]) =>
              /\ attempt[r][m] = row[m].attemptCount
              /\ job[r][m] # "unfinished" => row[m].status = "publishing"

\* The inductive invariant: what the properties above need of one another.
RelayInv ==
    /\ ClaimsAreFresh
    /\ RowsAreConsistent
    /\ DeliveriesAreConsistent
    /\ OnePublicationPerClaim
    /\ PublishedWasAccepted
    /\ FailedForCause
    /\ NoLeaseLeftBehind

\* Scheduling: a relay process runs and is restarted, the deliveries of a scan
\* run, deadlines pass, and a row that stays claimable is taken by some claim.
Fairness ==
    /\ \A r \in Relays : WF_vars(Loop(r))
    /\ \A r \in Relays, m \in Messages : WF_vars(Deliver(r, m))
    /\ \A m \in Messages :
         /\ WF_vars(LeaseLapses(m) /\ ~Attended(m))
         /\ WF_vars(BecomesDue(m))
         /\ WF_vars(\E r \in Relays : \E S \in Batches : m \in S /\ Claim(r, S))

FairSpec == Spec /\ Fairness

\* Every committed row with complete metadata is eventually published or failed,
\* crashes, lost answers and lapsed leases notwithstanding.
EveryRowSettles ==
    <>[](\A m \in Messages \ Incomplete : row[m].status \notin {"pending", "publishing"})

\* A relay told to stop finishes its scan and stops.
ShutdownEnds == \A r \in Relays : cancelled[r] ~> phase[r] = "down"

=============================================================================
