-------------------------- MODULE DependencyGuard --------------------------
(***************************************************************************)
(* The two outer decorators of a call to a dependency                      *)
(* (libs/backend/go/observability/resilience/{bulkhead,breaker}.go), in    *)
(* the canonical order of compose.go: a pool of slots with a bounded queue *)
(* before it, and inside it a circuit breaker.  What they decorate, the    *)
(* retried and timed call, is only its outcome here (RetryBudget has it).  *)
(*                                                                         *)
(* Durations are countdowns in ticks of one clock.  A generation is never  *)
(* compared but for equality with the present one, so a ticket carries     *)
(* whether the breaker has turned over since it was granted.               *)
(***************************************************************************)
EXTENDS Integers, Sequences, FiniteSets, SequencesExt

CONSTANTS
    Calls,       \* callers, each with one call at a time
    Pool,        \* slots of the pool
    Queue,       \* calls that may wait for one
    Acquisition, \* ticks a call waits for a slot
    Window,      \* age in ticks at which an observation is forgotten
    MinSamples,  \* observations below which the breaker does not open
    Threshold,   \* per cent of failures that opens it
    Cooldown,    \* ticks it stays open
    Probes,      \* probes half-openness lets through
    MaxSamples   \* bound of the model on the observations in the window

ASSUME GuardAssumption ==
    /\ IsFiniteSet(Calls)
    /\ Pool \in Nat \ {0} /\ Queue \in Nat \ {0} /\ Acquisition \in Nat \ {0}
    /\ Window \in Nat \ {0} /\ MinSamples \in Nat \ {0} /\ Threshold \in 1..100
    /\ Cooldown \in Nat \ {0} /\ Probes \in Nat \ {0}
    /\ MaxSamples \in Nat \ {0} /\ MinSamples <= MaxSamples

VARIABLES
    pool,    \* the two channels, and the calls blocked on the second
    breaker, \* the circuit breaker
    call     \* each caller's call

vars == <<pool, breaker, call>>

Sample == [ok: Nat, failed: Nat]

PoolState == [slots: Nat, admissions: Nat, waiting: Seq(Calls)]

\* leaked is a ghost: the probes of this cycle whose call panicked.
BreakerState == [state: {"closed", "halfopen", "open"}, cooldown: 0..Cooldown, probing: 0..Probes,
                 window: [0..Window - 1 -> Sample], leaked: 0..Probes]

\* admitted holds an admission; queued is blocked for a slot; entering holds both;
\* inside was let through by the breaker; holding has its answer and both to give
\* back; returning has the admission to give back.
Call == [stage: {"out", "admitted", "queued", "entering", "inside", "holding", "returning"},
         timer: 0..Acquisition, ticket: {"none", "call", "probe"}, current: BOOLEAN]

Out == [stage |-> "out", timer |-> 0, ticket |-> "none", current |-> FALSE]

Forgotten == [age \in 0..Window - 1 |-> [ok |-> 0, failed |-> 0]]

Init ==
    /\ pool = [slots |-> 0, admissions |-> 0, waiting |-> <<>>]
    /\ breaker = [state |-> "closed", cooldown |-> 0, probing |-> 0, window |-> Forgotten,
                  leaked |-> 0]
    /\ call = [c \in Calls |-> Out]

-----------------------------------------------------------------------------
\* Bulkhead.

\* acquire: an admission without blocking.  A full pool and queue refuse the call,
\* which changes nothing.
Admit(c) ==
    /\ call[c].stage = "out"
    /\ pool.admissions < Pool + Queue
    /\ pool' = [pool EXCEPT !.admissions = @ + 1]
    /\ call' = [call EXCEPT ![c] = [Out EXCEPT !.stage = "admitted"]]
    /\ UNCHANGED breaker

\* acquire: a free slot at once, or a place among the calls blocked on the channel.
Acquire(c) ==
    /\ call[c].stage = "admitted"
    /\ \/ /\ pool.slots < Pool
          /\ pool' = [pool EXCEPT !.slots = @ + 1]
          /\ call' = [call EXCEPT ![c].stage = "entering"]
       \/ /\ pool.slots >= Pool
          /\ pool' = [pool EXCEPT !.waiting = Append(@, c)]
          /\ call' = [call EXCEPT ![c].stage = "queued", ![c].timer = Acquisition]
    /\ UNCHANGED breaker

\* The select of acquire takes the acquisition timer, or the end of the caller's
\* context, which may come at any time.  Either withdraws the blocked send.
GiveUp(c) ==
    /\ call[c].stage = "queued"
    /\ \E i \in DOMAIN pool.waiting:
          /\ pool.waiting[i] = c
          /\ pool' = [pool EXCEPT !.waiting = RemoveAt(@, i)]
    /\ call' = [call EXCEPT ![c] = [Out EXCEPT !.stage = "returning"]]
    /\ UNCHANGED breaker

\* The deferred release, first half: a receive from the full channel hands the slot
\* to the first call blocked on it.
ReleaseSlot(c) ==
    /\ call[c].stage = "holding"
    /\ \/ /\ pool.waiting = <<>>
          /\ pool' = [pool EXCEPT !.slots = @ - 1]
          /\ call' = [call EXCEPT ![c].stage = "returning"]
       \/ /\ pool.waiting # <<>>
          /\ pool' = [pool EXCEPT !.waiting = Tail(@)]
          /\ call' = [call EXCEPT ![c].stage = "returning",
                                  ![Head(pool.waiting)].stage = "entering",
                                  ![Head(pool.waiting)].timer = 0]
    /\ UNCHANGED breaker

\* The admission is given back, by release or by a call that gave up waiting.
ReleaseAdmission(c) ==
    /\ call[c].stage = "returning"
    /\ pool' = [pool EXCEPT !.admissions = @ - 1]
    /\ call' = [call EXCEPT ![c] = Out]
    /\ UNCHANGED breaker

-----------------------------------------------------------------------------
\* Breaker.

\* transition: openedAt starts the cooldown, and only half-openness keeps the probes.
Transition(b, to) ==
    [b EXCEPT !.state = to,
              !.cooldown = IF to = "open" THEN Cooldown ELSE 0,
              !.probing = IF to = "halfopen" THEN @ ELSE 0,
              !.leaked = 0]

\* The tickets after a change of state: every one belongs to an earlier cycle.
Stale == [d \in Calls |-> [call[d] EXCEPT !.current = FALSE]]

\* shouldOpen: the floor of samples first, then the threshold.
ShouldOpen(window) ==
    LET Sum(field) == FoldFunction(LAMBDA s, n: s[field] + n, 0, window)
        total == Sum("ok") + Sum("failed")
    IN  /\ total >= MinSamples
        /\ 100 * Sum("failed") >= Threshold * total

Samples(window) == FoldFunction(LAMBDA s, n: s.ok + s.failed + n, 0, window)

\* What admit reads: the state the call meets, half-open once the cooldown is over.
Met == IF breaker.state = "open" /\ breaker.cooldown = 0 THEN Transition(breaker, "halfopen") ELSE breaker

\* admit: it turns an open breaker whose cooldown is over, and refuses an open one or
\* one whose probes are all out.  A call refused has its slot to give back.
Enter(c) ==
    LET turned == IF Met = breaker THEN call ELSE Stale
        Goes(stage, ticket) ==
            call' = [turned EXCEPT ![c].stage = stage, ![c].ticket = ticket, ![c].current = ticket # "none"]
    IN  /\ call[c].stage = "entering"
        /\ \/ Met.state = "closed" /\ breaker' = Met /\ Goes("inside", "call")
           \/ /\ Met.state = "halfopen" /\ Met.probing < Probes
              /\ breaker' = [Met EXCEPT !.probing = @ + 1]
              /\ Goes("inside", "probe")
           \/ /\ \/ Met.state = "open"
                 \/ Met.state = "halfopen" /\ Met.probing >= Probes
              /\ breaker' = Met
              /\ Goes("holding", "none")
        /\ UNCHANGED pool

\* The call has its answer and goes back to the pool; the breaker becomes b, and when
\* it turned over, every ticket is of an earlier cycle.
Back(c, b, turned) ==
    /\ breaker' = b
    /\ call' = [(IF turned THEN Stale ELSE call) EXCEPT ![c] = [Out EXCEPT !.stage = "holding"]]
    /\ UNCHANGED pool

\* releaseProbe that does not look at the cycle of the ticket.
CancelledOfAnyCycle(c) ==
    /\ call[c].stage = "inside"
    /\ Back(c, IF call[c].ticket = "probe" /\ breaker.state = "halfopen" /\ breaker.probing > 0
               THEN [breaker EXCEPT !.probing = @ - 1] ELSE breaker, FALSE)

\* A cancellation that leaves the probe taken.
CancelledKeepingProbe(c) ==
    /\ call[c].stage = "inside"
    /\ Back(c, breaker, FALSE)

\* record of ErrCancelled, and releaseProbe: only the slot of a probe of this cycle.
Cancelled(c) ==
    /\ call[c].stage = "inside"
    /\ Back(c, IF /\ call[c].ticket = "probe" /\ call[c].current
                  /\ breaker.state = "halfopen" /\ breaker.probing > 0
               THEN [breaker EXCEPT !.probing = @ - 1] ELSE breaker, FALSE)

\* The breaker a probe leaves behind.
Decided(failed) ==
    Transition([breaker EXCEPT !.probing = @ - 1, !.window = Forgotten], IF failed THEN "open" ELSE "closed")

\* A probe that decides by the state alone, whichever cycle granted its ticket.
ProbeAnswersInAnyCycle(c, failed) ==
    /\ call[c].stage = "inside"
    /\ call[c].ticket = "probe"
    /\ \/ breaker.state = "halfopen" /\ Back(c, Decided(failed), TRUE)
       \/ breaker.state # "halfopen" /\ Back(c, breaker, FALSE)

\* record of a probe: one of a cycle that ended decides nothing.
ProbeAnswers(c, failed) ==
    /\ call[c].stage = "inside"
    /\ call[c].ticket = "probe"
    /\ \/ call[c].current /\ breaker.state = "halfopen" /\ Back(c, Decided(failed), TRUE)
       \/ ~(call[c].current /\ breaker.state = "halfopen") /\ Back(c, breaker, FALSE)

\* The observation joins those prune kept.
Observed(failed) ==
    IF failed THEN [breaker.window EXCEPT ![0].failed = @ + 1] ELSE [breaker.window EXCEPT ![0].ok = @ + 1]

\* record of another call: half-openness ignores it; else it joins the window, of a
\* closed breaker as of an open one, and the window may open it, again.
CallAnswers(c, failed) ==
    /\ call[c].stage = "inside"
    /\ call[c].ticket = "call"
    /\ \/ breaker.state = "halfopen" /\ Back(c, breaker, FALSE)
       \/ /\ breaker.state # "halfopen"
          /\ Samples(breaker.window) < MaxSamples
          /\ LET b == [breaker EXCEPT !.window = Observed(failed)]
                 opens == ShouldOpen(b.window)
             IN  Back(c, IF opens THEN Transition(b, "open") ELSE b, opens)

\* The decorated call panics: record is not reached, so a probe of this cycle stays
\* counted; the deferred release of the pool is.
Panic(c) ==
    /\ call[c].stage = "inside"
    /\ Back(c, IF call[c].ticket = "probe" /\ call[c].current
               THEN [breaker EXCEPT !.leaked = @ + 1] ELSE breaker, FALSE)

\* External: the clock.  A timer that is due fires before it moves.
Tick ==
    /\ \A c \in Calls: call[c].stage = "queued" => call[c].timer > 0
    /\ call' = [c \in Calls |-> [call[c] EXCEPT !.timer = IF @ > 0 THEN @ - 1 ELSE 0]]
    /\ breaker' = [breaker EXCEPT !.cooldown = IF @ > 0 THEN @ - 1 ELSE 0,
                                  !.window = [age \in 0..Window - 1 |->
                                              IF age = 0 THEN [ok |-> 0, failed |-> 0] ELSE @[age - 1]]]
    /\ UNCHANGED pool

\* The end of a call let through; "ok" stands for an error CountsAsFailure does not
\* accept as well.
Answers(c) == Cancelled(c) \/ Panic(c) \/ \E failed \in BOOLEAN: ProbeAnswers(c, failed) \/ CallAnswers(c, failed)

Leaves(c) == ReleaseSlot(c) \/ ReleaseAdmission(c)

Next ==
    \/ \E c \in Calls: Admit(c) \/ Acquire(c) \/ GiveUp(c) \/ Enter(c) \/ Answers(c) \/ Leaves(c)
    \/ Tick

Spec == Init /\ [][Next]_vars

\* Nothing of the pool or the breaker waits for ever: a call let through returns, for
\* the timeout inside it cancels its context, and the clock moves.  Callers may stop.
Fairness ==
    /\ WF_vars(Tick)
    /\ \A c \in Calls: /\ WF_vars(Acquire(c) \/ Enter(c) \/ Leaves(c))
                       /\ WF_vars(GiveUp(c))
                       /\ WF_vars(Answers(c))

FairSpec == Spec /\ Fairness

-----------------------------------------------------------------------------
TypeOK ==
    /\ pool \in PoolState
    /\ pool.slots <= Pool /\ pool.admissions <= Pool + Queue
    /\ breaker \in BreakerState
    /\ call \in [Calls -> Call]

In(stages) == {c \in Calls: call[c].stage \in stages}

\* The two channels of the pool hold exactly what the calls in it took: a slot or an
\* admission is never lost nor given back twice, whether the call was let through, was
\* refused by the breaker, panicked, or gave up while a slot came free (bulkhead.go acquire).
\* And no call waits while a slot is free.
PoolAccounted ==
    /\ pool.slots = Cardinality(In({"entering", "inside", "holding"}))
    /\ pool.admissions = Cardinality(Calls \ In({"out"}))
    /\ ToSet(pool.waiting) = In({"queued"})
    /\ pool.slots < Pool => pool.waiting = <<>>

\* A half-open breaker counts as taken exactly the probes of its own cycle still in
\* flight, and those whose call panicked: stragglers of earlier cycles, cancellations
\* and turn-overs neither leak a probe nor let one too many through (breaker.go record,
\* releaseProbe).
ProbesAccounted ==
    breaker.state = "halfopen" =>
        breaker.probing = breaker.leaked
            + Cardinality({c \in In({"inside"}): call[c].ticket = "probe" /\ call[c].current})

\* What stays true of the guard: slots, admissions and probes are all accounted for.
GuardAccounted == TypeOK /\ PoolAccounted /\ ProbesAccounted

\* A half-open breaker is closed, or opened again, only by the answer of a probe that
\* was let through since its cooldown ended: never by a call of an earlier cycle, which
\* speaks of the dependency as it was (breaker.go record).
OnlyProbesDecide ==
    [][(breaker.state = "halfopen" /\ breaker'.state # "halfopen") =>
       \E c \in Calls: /\ call[c].stage = "inside" /\ call'[c].stage = "holding"
                       /\ call[c].ticket = "probe" /\ call[c].current]_vars

\* What the breaker would let through if it came now.
Admits == Met.state = "closed" \/ (Met.state = "halfopen" /\ Met.probing < Probes)

\* The breaker never shuts for good: however its calls end, it is again and again ready
\* to let one through (breaker.go admit, record).  The one way it can is a half-open
\* cycle in which every probe it may grant panicked.
KeepsAdmitting == []<>(Admits \/ breaker.leaked = Probes)
=============================================================================
