-------------------------- MODULE ExternalAttempt --------------------------
(***************************************************************************)
(* The external command cycle of one outbound key                          *)
(* (libs/backend/go/application/{dispatch,resolve,abandon,next_step}.go    *)
(* over postgres/attempt_ledger.go).  A consumer's handler begins an       *)
(* attempt in a transaction of its own, calls the partner outside any, and *)
(* settles message, attempt and next step in a third transaction; the      *)
(* sweep closes what a dead handler left begun; observations of the        *)
(* partner's state arrive on their own; a purge removes old attempts.      *)
(*                                                                         *)
(* Begin runs under READ COMMITTED: its two reads and its insert are three *)
(* statements, each of which sees what is committed when it runs.  The     *)
(* other transactions lock the row first and are single steps.             *)
(***************************************************************************)
EXTENDS Integers, Sequences, FiniteSets, FiniteSetsExt

CONSTANTS
    Workers,        \* handler executions of the consumers
    Messages,       \* messages that carry the intention's key
    NoMessage,      \* no message
    Observations,   \* identifiers of observations of the partner's state
    FindingOf,      \* what each of them found
    NoObservation,  \* no observation
    Replies,        \* what Submit may return: a class and the observation it carries
    Profile,        \* the partner's declaration: key, efficacy, absence, maxQueries
    QueryAvailable, \* the partner answers state queries
    StaleAfter,     \* age from which a begun attempt may be closed, in ticks
    Retention,      \* age from which a finished attempt may be purged, in ticks
    Life,           \* what a handler may last, in ticks
    BeginRounds,    \* re-reads after lost insert races
    MaxEntries,     \* MaxAttemptEntries
    MaxDeliveries,  \* bound on the deliveries of the broker
    LastDelivery,   \* bound on the instant of a delivery
    MaxClock,       \* bound on the clock
    MaxUpsets       \* bound on the crashes and failed transactions

RetryableClasses == {"retryable_transport", "retryable_upstream"}
FinalClasses == {"final_validation", "final_business", "final_authorization"}
UnknownClasses == {"unknown_sent", "unknown_ambiguous"}
Classes == {"accepted", "schema_mismatch"} \cup RetryableClasses \cup FinalClasses \cup UnknownClasses

Terminal == {"applied", "rejected"}
Findings == Terminal \cup {"absent", "pending", "inconclusive"}

Steps == {"confirm", "await", "retry", "fail", "query", "reconcile", "suspend"}

Numbers == 1..MaxDeliveries

ASSUME ExternalAssumption ==
    /\ NoMessage \notin Messages
    /\ \A o \in Observations : FindingOf[o] \in Findings
    /\ NoObservation \notin Observations /\ "outcome" \notin Observations
    /\ Replies \subseteq [class: Classes \cup {"none"}, obs: Observations \cup {NoObservation}]
    /\ Profile \in [key: {"native", "header", "none"}, efficacy: {"on_submit", "by_observation"},
                    absence: BOOLEAN, maxQueries: Nat \ {0}]
    /\ QueryAvailable \in BOOLEAN
    /\ StaleAfter \in Nat \ {0}
    /\ Retention \in Nat
    /\ Life \in Nat
    /\ BeginRounds \in Nat \ {0}
    /\ MaxEntries \in Nat \ {0}
    /\ MaxDeliveries \in Nat
    /\ LastDelivery \in Nat
    /\ MaxClock \in Nat
    /\ MaxUpsets \in Nat

VARIABLES
    now,        \* the clock
    ledger,     \* the row of each attempt number
    processed,  \* messages the inbox has registered and completed
    worker,     \* the progress of each handler
    sweeping,   \* the attempt the sweep has listed and not yet closed, or 0
    applied,    \* history: the steps applied for each attempt, in order
    settled,    \* history: how many steps handlers applied for each message
    resent,     \* history: messages submitted again after a class that forbids it
    straddled,  \* history: a purge ran between the read and the insert of a Begin
    deliveries, \* deliveries so far
    upsets      \* adversities so far

vars == <<now, ledger, processed, worker, sweeping, applied, settled, resent, straddled, deliveries, upsets>>

\* external_attempt: ids stands for observation_ids, conflicts for its length.
Row == [state: {"absent", "begun", "finished"}, msg: Messages \cup {NoMessage}, started: Nat,
        finished: Nat, class: Classes \cup {"none"}, terminal: Terminal \cup {"none"},
        ids: SUBSET Observations, queries: Nat, conflicts: Nat]

NoRow == [state |-> "absent", msg |-> NoMessage, started |-> 0, finished |-> 0, class |-> "none",
          terminal |-> "none", ids |-> {}, queries |-> 0, conflicts |-> 0]

\* "done", "last" and "insert" are the statements of a Begin, "call" the partner
\* called, "record" a retryable reply to record alone, "settle" the settlement.
Stages == {"idle", "done", "last", "insert", "call", "record", "settle"}

Worker == [stage: Stages, msg: Messages \cup {NoMessage}, since: Nat, round: Nat, n: Nat,
           class: Classes \cup {"none"}, obs: Observations \cup {NoObservation},
           owned: BOOLEAN, presumed: BOOLEAN]

Idle == [stage |-> "idle", msg |-> NoMessage, since |-> 0, round |-> 0, n |-> 0,
         class |-> "none", obs |-> NoObservation, owned |-> FALSE, presumed |-> FALSE]

TypeOK ==
    /\ now \in 0..MaxClock
    /\ ledger \in [Numbers -> Row]
    /\ \A n \in Numbers : ledger[n].state = "finished" <=> ledger[n].class # "none"
    /\ processed \subseteq Messages
    /\ worker \in [Workers -> Worker]
    /\ sweeping \in Numbers \cup {0}
    /\ applied \in [Numbers -> Seq([by: Observations \cup {"outcome"}, class: Classes,
                                    finding: Findings \cup {"none"}, step: Steps])]
    /\ settled \in [Messages -> Nat]
    /\ resent \subseteq Messages
    /\ straddled \in BOOLEAN
    /\ deliveries \in 0..MaxDeliveries
    /\ upsets \in 0..MaxUpsets

Init ==
    /\ now = 0
    /\ ledger = [n \in Numbers |-> NoRow]
    /\ processed = {}
    /\ worker = [w \in Workers |-> Idle]
    /\ sweeping = 0
    /\ applied = [n \in Numbers |-> <<>>]
    /\ settled = [m \in Messages |-> 0]
    /\ resent = {}
    /\ straddled = FALSE
    /\ deliveries = 0
    /\ upsets = 0

----------------------------------------------------------------------------
(* NextStep: pure over the class, the finding and the queries so far. *)

AwaitOrReconcile(queries) == IF queries < Profile.maxQueries THEN "await" ELSE "reconcile"

QueryOrReconcile(queries) ==
    IF QueryAvailable /\ queries < Profile.maxQueries THEN "query" ELSE "reconcile"

StepForFinding(finding, queries) ==
    CASE finding = "applied"      -> "confirm"
      [] finding = "rejected"     -> "fail"
      [] finding = "absent"       -> IF Profile.key # "none" \/ Profile.absence THEN "retry" ELSE "reconcile"
      [] finding = "pending"      -> AwaitOrReconcile(queries)
      [] finding = "inconclusive" -> QueryOrReconcile(queries)

StepForClass(class, queries) ==
    CASE class = "accepted"         -> IF Profile.efficacy = "on_submit" THEN "confirm" ELSE AwaitOrReconcile(queries)
      [] class \in RetryableClasses -> "retry"
      [] class \in FinalClasses     -> "fail"
      [] class = "schema_mismatch"  -> "suspend"
      [] class \in UnknownClasses   -> QueryOrReconcile(queries)

NextStep(class, finding, queries) ==
    IF finding # "none" THEN StepForFinding(finding, queries) ELSE StepForClass(class, queries)

----------------------------------------------------------------------------
(* The ledger. *)

Present == {n \in Numbers : ledger[n].state # "absent"}

LastAttempt == IF Present = {} THEN 0 ELSE Max(Present)

\* terminalOf and nullableFinding, of the observation a reply or a reading carries.
FoundBy(o) == IF o = NoObservation THEN "none" ELSE FindingOf[o]

TerminalOf(o) == IF FoundBy(o) \in Terminal THEN FoundBy(o) ELSE "none"

\* The attempts of a message that finished with a class no resend follows.
DoneAttempts(m) ==
    {n \in Numbers : /\ ledger[n].state = "finished"
                     /\ ledger[n].msg = m
                     /\ ledger[n].class \notin RetryableClasses}

Saturated(row) == Cardinality(row.ids) >= MaxEntries \/ row.conflicts >= MaxEntries

\* What Finish answers for attempt n: the error of a row that is gone, or its result.
FinishResult(n, class, presumed) ==
    CASE ledger[n].state = "absent"                 -> "unknown"
      [] ledger[n].state = "begun"                  -> "recorded"
      [] /\ ledger[n].state = "finished"
         /\ ledger[n].class = class \/ presumed     -> "unchanged"
      [] /\ ledger[n].state = "finished"
         /\ ledger[n].class # class /\ ~presumed
         /\ Saturated(ledger[n])                    -> "saturated"
      [] /\ ledger[n].state = "finished"
         /\ ledger[n].class # class /\ ~presumed
         /\ ~Saturated(ledger[n])                   -> "conflict"

\* An UPDATE that does not ask for state = 'begun': the late class wins.
FinishedRowOverwritten(n, class, o, presumed) ==
    [ledger[n] EXCEPT !.state = "finished", !.finished = now, !.class = class, !.terminal = TerminalOf(o)]

\* The row after Finish.
FinishedRow(n, class, o, presumed) ==
    CASE FinishResult(n, class, presumed) = "recorded" ->
            [ledger[n] EXCEPT !.state = "finished", !.finished = now, !.class = class,
                              !.terminal = TerminalOf(o), !.ids = {o} \ {NoObservation}]
      [] FinishResult(n, class, presumed) = "conflict" ->
            [ledger[n] EXCEPT !.conflicts = @ + 1]
      [] FinishResult(n, class, presumed) \in {"unknown", "unchanged", "saturated"} -> ledger[n]

\* Every settlement applies the step, whoever recorded the outcome.
AppliedByFinishAlways(n, class, o, presumed) ==
    Append(applied[n], [by |-> "outcome", class |-> class, finding |-> FoundBy(o),
                        step |-> NextStep(class, FoundBy(o), 0)])

\* The step Dispatch and Abandon apply with the outcome they recorded.
AppliedByFinish(n, class, o, presumed) ==
    IF FinishResult(n, class, presumed) = "recorded"
    THEN Append(applied[n], [by |-> "outcome", class |-> class, finding |-> FoundBy(o),
                             step |-> NextStep(class, FoundBy(o), 0)])
    ELSE applied[n]

----------------------------------------------------------------------------
(* Dispatch. *)

\* The broker delivers, or redelivers, a message to a handler, which reads the clock.
Deliver(w, m) ==
    /\ worker[w].stage = "idle"
    /\ deliveries < MaxDeliveries
    /\ now <= LastDelivery
    /\ worker' = [worker EXCEPT ![w] = [Idle EXCEPT !.stage = "done", !.msg = m, !.since = now, !.round = 1]]
    /\ deliveries' = deliveries + 1
    /\ UNCHANGED <<now, ledger, processed, sweeping, applied, settled, resent, straddled, upsets>>

\* The answer of a handler, successful or transient: the message stays with the broker.
Return(w) == worker' = [worker EXCEPT ![w] = Idle]

\* selectDoneAttempt: a message that already has its outcome is settled with it.
SelectDone(w) ==
    /\ worker[w].stage = "done"
    /\ LET done == DoneAttempts(worker[w].msg)
       IN  IF done = {}
           THEN worker' = [worker EXCEPT ![w].stage = "last"]
           ELSE worker' = [worker EXCEPT ![w] = [@ EXCEPT !.stage = "settle", !.n = Max(done),
                                                          !.class = ledger[Max(done)].class]]
    /\ UNCHANGED <<now, ledger, processed, sweeping, applied, settled, resent, straddled, deliveries, upsets>>

IsStale(n) == now - ledger[n].started >= StaleAfter

\* Mutant: an attempt past the cutoff is taken for one that was never sent.
SelectLastResends(w) ==
    /\ worker[w].stage = "last"
    /\ LET n == LastAttempt
       IN  \/ /\ n \in Numbers
              /\ ledger[n].state = "begun"
              /\ ~IsStale(n)
              /\ Return(w)
           \/ /\ n \in Numbers => ledger[n].state # "begun" \/ IsStale(n)
              /\ worker' = [worker EXCEPT ![w] = [@ EXCEPT !.stage = "insert", !.n = n + 1]]
    /\ UNCHANGED <<now, ledger, processed, sweeping, applied, settled, resent, straddled, deliveries, upsets>>

\* selectLastAttempt, and resume when it is still begun: within the cutoff nothing
\* is closed nor resent, past it the attempt is presumed sent and unanswered.
SelectLast(w) ==
    /\ worker[w].stage = "last"
    /\ LET n == LastAttempt
       IN  \/ /\ n \in Numbers
              /\ ledger[n].state = "begun"
              /\ ~IsStale(n)
              /\ Return(w)
           \/ /\ n \in Numbers
              /\ ledger[n].state = "begun"
              /\ IsStale(n)
              /\ worker' = [worker EXCEPT ![w] = [@ EXCEPT !.stage = "settle", !.n = n, !.class = "unknown_sent",
                                                           !.owned = TRUE, !.presumed = TRUE]]
           \/ /\ n \in Numbers => ledger[n].state # "begun"
              /\ worker' = [worker EXCEPT ![w] = [@ EXCEPT !.stage = "insert", !.n = n + 1]]
    /\ UNCHANGED <<now, ledger, processed, sweeping, applied, settled, resent, straddled, deliveries, upsets>>

\* insertAttempt: ON CONFLICT DO NOTHING loses the race and reads again.  The row
\* started when Dispatch read the clock, before Begin.
Insert(w) ==
    /\ worker[w].stage = "insert"
    /\ LET n == worker[w].n
           m == worker[w].msg
       IN  \/ /\ ledger[n].state = "absent"
              /\ ledger' = [ledger EXCEPT ![n] = [NoRow EXCEPT !.state = "begun", !.msg = m, !.started = worker[w].since]]
              /\ applied' = [applied EXCEPT ![n] = <<>>]
              /\ resent' = IF DoneAttempts(m) = {} THEN resent ELSE resent \cup {m}
              /\ worker' = [worker EXCEPT ![w] = [@ EXCEPT !.stage = "call", !.owned = TRUE]]
           \/ /\ ledger[n].state # "absent"
              /\ worker' = [worker EXCEPT ![w] =
                                IF worker[w].round < BeginRounds
                                THEN [worker[w] EXCEPT !.stage = "done", !.n = 0, !.round = worker[w].round + 1]
                                ELSE Idle]
              /\ UNCHANGED <<ledger, applied, resent>>
    /\ UNCHANGED <<now, processed, sweeping, settled, straddled, deliveries, upsets>>

\* Submit answers: a zero class is recorded as the ambiguous one, a retryable class
\* is recorded on its own, any other goes to the settlement.
Submit(w) ==
    /\ worker[w].stage = "call"
    /\ \E reply \in Replies :
          LET class == IF reply.class = "none" THEN "unknown_ambiguous" ELSE reply.class
          IN  worker' = [worker EXCEPT ![w] = [@ EXCEPT !.stage = IF class \in RetryableClasses THEN "record" ELSE "settle",
                                                        !.class = class, !.obs = reply.obs]]
    /\ UNCHANGED <<now, ledger, processed, sweeping, applied, settled, resent, straddled, deliveries, upsets>>

\* The Finish of a retryable class: the message is redelivered, unless another closed
\* the attempt first with a class that forbids the resend.
RecordRetryable(w) ==
    /\ worker[w].stage = "record"
    /\ LET n == worker[w].n
           result == FinishResult(n, worker[w].class, FALSE)
       IN  /\ ledger' = [ledger EXCEPT ![n] = FinishedRow(n, worker[w].class, worker[w].obs, FALSE)]
           /\ IF result \in {"unchanged", "conflict", "saturated"} /\ ledger[n].class \notin RetryableClasses
              THEN worker' = [worker EXCEPT ![w] = [@ EXCEPT !.stage = "settle", !.class = ledger[n].class]]
              ELSE Return(w)
    /\ UNCHANGED <<now, processed, sweeping, applied, settled, resent, straddled, deliveries, upsets>>

\* The settlement of a first reception: the outcome, the step it decides and the
\* completion of the inbox, in one transaction.
SettleFirst(w) ==
    /\ worker[w].stage = "settle"
    /\ worker[w].msg \notin processed
    /\ LET n == worker[w].n
           m == worker[w].msg
           class == worker[w].class
           o == worker[w].obs
           presumed == worker[w].presumed
       IN  /\ FinishResult(n, class, presumed) # "unknown"
           /\ ledger' = [ledger EXCEPT ![n] = FinishedRow(n, class, o, presumed)]
           /\ applied' = [applied EXCEPT ![n] = AppliedByFinish(n, class, o, presumed)]
           /\ settled' = [settled EXCEPT ![m] = @ + Len(applied'[n]) - Len(applied[n])]
           /\ processed' = processed \cup {m}
    /\ Return(w)
    /\ UNCHANGED <<now, sweeping, resent, straddled, deliveries, upsets>>

\* The settlement of a repeat: an attempt this call owns is closed, unapplied.
SettleRepeat(w) ==
    /\ worker[w].stage = "settle"
    /\ worker[w].msg \in processed
    /\ LET n == worker[w].n
       IN  ledger' = IF worker[w].owned
                     THEN [ledger EXCEPT ![n] = FinishedRow(n, worker[w].class, worker[w].obs, worker[w].presumed)]
                     ELSE ledger
    /\ Return(w)
    /\ UNCHANGED <<now, processed, sweeping, applied, settled, resent, straddled, deliveries, upsets>>

\* The settlement of an attempt that is gone is refused, and the message redelivered.
SettleUnknown(w) ==
    /\ worker[w].stage = "settle"
    /\ worker[w].msg \notin processed
    /\ FinishResult(worker[w].n, worker[w].class, worker[w].presumed) = "unknown"
    /\ Return(w)
    /\ UNCHANGED <<now, ledger, processed, sweeping, applied, settled, resent, straddled, deliveries, upsets>>

\* The process dies, or a transaction fails and rolls back.
Fail(w) ==
    /\ worker[w].stage # "idle"
    /\ upsets < MaxUpsets
    /\ upsets' = upsets + 1
    /\ Return(w)
    /\ UNCHANGED <<now, ledger, processed, sweeping, applied, settled, resent, straddled, deliveries>>

Dispatch(w) ==
    \/ \E m \in Messages : Deliver(w, m)
    \/ SelectDone(w)
    \/ SelectLast(w)
    \/ Insert(w)
    \/ Submit(w)
    \/ RecordRetryable(w)
    \/ SettleFirst(w)
    \/ SettleRepeat(w)
    \/ SettleUnknown(w)

----------------------------------------------------------------------------
(* Resolve, the sweep, the purge and time. *)

\* What Observe answers for an observation of the last attempt n.
ObserveResult(n, o) ==
    LET row == ledger[n]
        finding == FindingOf[o]
        full == Saturated(row)
    IN  CASE o \in row.ids                                                -> "duplicate"
          [] o \notin row.ids /\ full /\ row.terminal = finding           -> "duplicate"
          [] o \notin row.ids /\ full /\ row.terminal # finding
             /\ (row.terminal # "none" \/ finding \notin Terminal)        -> "saturated"
          [] o \notin row.ids /\ ~full /\ row.terminal # "none"
             /\ (finding \notin Terminal \/ row.terminal = finding)       -> "noted"
          [] o \notin row.ids /\ ~full /\ row.terminal # "none"
             /\ finding \in Terminal /\ row.terminal # finding            -> "conflict"
          [] o \notin row.ids /\ row.terminal = "none"
             /\ (~full \/ finding \in Terminal)                           -> "recorded"

\* The row after Observe; a full row keeps a terminal finding and not its identifier.
ObservedRow(n, o) ==
    LET row == ledger[n]
        result == ObserveResult(n, o)
    IN  CASE result \in {"duplicate", "saturated"} -> row
          [] result = "noted"    -> [row EXCEPT !.ids = @ \cup {o}]
          [] result = "conflict" -> [row EXCEPT !.ids = @ \cup {o}, !.conflicts = @ + 1]
          [] result = "recorded" ->
                [row EXCEPT !.terminal = TerminalOf(o),
                            !.ids = IF Saturated(row) THEN @ ELSE @ \cup {o},
                            !.queries = @ + 1]

\* Resolve: an observation reaches the last attempt, once or again; one of an
\* attempt that is begun or unknown is refused.
Observe(o) ==
    /\ LastAttempt # 0
    /\ ledger[LastAttempt].state = "finished"
    /\ LET n == LastAttempt
           row == ObservedRow(n, o)
       IN  /\ ledger' = [ledger EXCEPT ![n] = row]
           /\ applied' = IF ObserveResult(n, o) = "recorded"
                         THEN [applied EXCEPT ![n] = Append(@, [by |-> o, class |-> row.class, finding |-> FindingOf[o],
                                                                step |-> NextStep(row.class, FindingOf[o], row.queries)])]
                         ELSE applied
    /\ UNCHANGED <<now, processed, worker, sweeping, settled, resent, straddled, deliveries, upsets>>

\* A list that leaves out the attempts of settled messages.
SweepListUnsettled ==
    /\ sweeping = 0
    /\ \E n \in Numbers :
          /\ ledger[n].state = "begun"
          /\ ledger[n].msg \notin processed
          /\ IsStale(n)
          /\ sweeping' = n
    /\ UNCHANGED <<now, ledger, processed, worker, applied, settled, resent, straddled, deliveries, upsets>>

\* Stale lists a begun attempt past the cutoff.
SweepList ==
    /\ sweeping = 0
    /\ \E n \in Numbers :
          /\ ledger[n].state = "begun"
          /\ IsStale(n)
          /\ sweeping' = n
    /\ UNCHANGED <<now, ledger, processed, worker, applied, settled, resent, straddled, deliveries, upsets>>

\* Abandon: the listed attempt is presumed sent, whatever happened to it since.
SweepClose ==
    /\ sweeping # 0
    /\ LET n == sweeping
       IN  /\ ledger' = [ledger EXCEPT ![n] = FinishedRow(n, "unknown_sent", NoObservation, TRUE)]
           /\ applied' = [applied EXCEPT ![n] = AppliedByFinish(n, "unknown_sent", NoObservation, TRUE)]
    /\ sweeping' = 0
    /\ UNCHANGED <<now, processed, worker, settled, resent, straddled, deliveries, upsets>>

\* A close that fails leaves the attempt to the next cycle.
SweepFail ==
    /\ sweeping # 0
    /\ upsets < MaxUpsets
    /\ upsets' = upsets + 1
    /\ sweeping' = 0
    /\ UNCHANGED <<now, ledger, processed, worker, applied, settled, resent, straddled, deliveries>>

\* PurgeAttempts: only finished attempts leave.
PurgeAttempts ==
    /\ LET old == {n \in Numbers : ledger[n].state = "finished" /\ ledger[n].finished < now - Retention}
       IN  /\ old # {}
           /\ ledger' = [n \in Numbers |-> IF n \in old THEN NoRow ELSE ledger[n]]
           /\ straddled' = (straddled \/ \E w \in Workers : worker[w].stage = "insert")
    /\ UNCHANGED <<now, processed, worker, sweeping, applied, settled, resent, deliveries, upsets>>

\* A handler ends with its contexts: the route's limit and the settlement's.
Tick ==
    /\ now < MaxClock
    /\ \A w \in Workers : worker[w].stage = "idle" \/ now - worker[w].since < Life
    /\ now' = now + 1
    /\ UNCHANGED <<ledger, processed, worker, sweeping, applied, settled, resent, straddled, deliveries, upsets>>

Next ==
    \/ \E w \in Workers : Dispatch(w) \/ Fail(w)
    \/ \E o \in Observations : Observe(o)
    \/ SweepList
    \/ SweepClose
    \/ SweepFail
    \/ PurgeAttempts
    \/ Tick

Spec == Init /\ [][Next]_vars

\* The sweep runs on an interval, time passes, and a handler that is not killed ends.
FairSpec ==
    /\ Spec
    /\ WF_vars(Tick)
    /\ WF_vars(SweepList)
    /\ WF_vars(SweepClose)
    /\ \A w \in Workers : WF_vars(Dispatch(w) /\ worker[w].stage # "idle")

----------------------------------------------------------------------------
(* Properties. *)

\* At most one attempt of a key is begun, and no attempt follows it: whatever
\* dispatches and sweeps interleave, one call of the partner is awaited.  A purge
\* between the read and the insert of a Begin is the exception: if it removes the
\* last attempt, two inserts meet on no common number.
OneBegun ==
    \A n \in Numbers : ledger[n].state = "begun" => n = LastAttempt \/ straddled

\* Owner, redelivery and sweep may all close one attempt, and observations repeat:
\* its outcome applies one step at most, and so does each observation.
StepOnce ==
    \A n \in Numbers : \A i, j \in 1..Len(applied[n]) :
        applied[n][i].by = applied[n][j].by => i = j

\* A terminal finding is the last word on its attempt: no step follows it.
TerminalIsLast ==
    \A n \in Numbers : \A i \in 1..Len(applied[n]) :
        applied[n][i].finding \in Terminal => i = Len(applied[n])

\* A step was decided on what the ledger still records: the class of its attempt,
\* recorded by the same commit.
AppliedIsRecorded ==
    \A n \in Present : \A i \in 1..Len(applied[n]) :
        /\ ledger[n].state = "finished"
        /\ applied[n][i].class = ledger[n].class

\* An outcome nobody knows is never a success, a failure nor a resend on its own
\* (RES-41, RES-42): only an observation decides it.
UnknownStaysOpen ==
    \A n \in Numbers : \A i \in 1..Len(applied[n]) :
        /\ applied[n][i].class \in UnknownClasses
        /\ applied[n][i].finding = "none"
        => applied[n][i].step \in {"query", "reconcile"}

\* Two handlers never wait for the partner on one attempt, and a handler that
\* waits on a begun attempt is the one that began it: the purge does not take its
\* row as long as the retention covers what a handler may last.
OneCaller ==
    \A w, v \in Workers :
        /\ worker[w].stage \in {"call", "record"}
        => /\ v # w /\ worker[v].stage \in {"call", "record"} => worker[v].n # worker[w].n
           /\ ledger[worker[w].n].state # "absent" /\ ledger[worker[w].n].msg = worker[w].msg

\* However often a message is delivered, handlers apply one step for it at most.
OneStepPerMessage == \A m \in Messages : settled[m] <= 1

\* A partner that never settles cannot grow the row: identifiers and conflicts are capped.
RowBounded ==
    \A n \in Numbers : /\ Cardinality(ledger[n].ids) <= MaxEntries
                       /\ ledger[n].conflicts <= MaxEntries

\* What stays true of the ledger: one attempt of the key is begun and one handler
\* waits for it, whoever dispatches, sweeps or purges, and rows do not grow.
LedgerInv == TypeOK /\ OneBegun /\ OneCaller /\ RowBounded

\* What stays true of the steps applied: one for each outcome, observation and
\* message, decided on what is still recorded, none after a terminal finding, and
\* no outcome nobody knows taken for a success, a failure or a resend.
StepsAreSound ==
    StepOnce /\ TerminalIsLast /\ OneStepPerMessage /\ AppliedIsRecorded /\ UnknownStaysOpen

\* A recorded outcome stands until it is purged: a late answer, a presumption or an
\* observation changes neither the class nor a terminal finding.
RecordedStands ==
    [][\A n \in Numbers :
          ledger[n].state = "finished" =>
             \/ ledger'[n] = NoRow
             \/ /\ ledger'[n].state = "finished"
                /\ ledger'[n].class = ledger[n].class
                /\ ledger[n].terminal # "none" => ledger'[n].terminal = ledger[n].terminal]_vars

\* A message that finished an attempt with a class no resend follows is not
\* submitted again ("the partner is not called again", ports/attempt_ledger.go:43-45).
NoResend == resent = {}

\* An attempt is not left begun: its handler, a redelivery or the sweep closes it.
BegunIsClosed == \A n \in Numbers : []<>(ledger[n].state # "begun")

=============================================================================
