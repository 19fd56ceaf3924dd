---------------------------- MODULE RetryBudget ----------------------------
(***************************************************************************)
(* The two inner decorators of a call to a dependency                      *)
(* (libs/backend/go/observability/resilience/{retry_decorator,timeout}.go) *)
(* over the retry budget of one execution                                  *)
(* (libs/backend/go/observability/retry/{budget,evaluate,backoff}.go): the *)
(* dependencies the execution calls at the same time each retry in a loop  *)
(* and draw on one balance, under one deadline.                            *)
(*                                                                         *)
(* Durations are countdowns in ticks of one clock; the code between two    *)
(* waits takes none.  An error is retryable or not: the classifier, the    *)
(* idempotence of the method and the known absence of an effect are one    *)
(* choice of the environment.                                              *)
(*                                                                         *)
(* No name is one of DependencyGuard's: ResilienceProofs extends both.     *)
(***************************************************************************)
EXTENDS Integers, FiniteSets, FiniteSetsExt

CONSTANTS
    Dependencies,      \* dependencies the execution calls, once each
    Deadline,          \* ticks the caller gave the execution
    Totals,            \* budgets the edge may declare; 0 declares none
    MaxAttempts,       \* ceiling of attempts, the first included
    OpDeadline,        \* deadline of the method
    EstimatedDuration, \* what one attempt is expected to take
    Base,              \* first interval of the backoff, and the reserve of the timeout
    Cap                \* last one; the factor is 2

Parameters ==
    /\ IsFiniteSet(Dependencies)
    /\ Deadline \in Nat \ {0} /\ Totals \subseteq Nat
    /\ MaxAttempts \in Nat \ {0} /\ OpDeadline \in Nat \ {0} /\ EstimatedDuration \in Nat \ {0}
    /\ Base \in Nat \ {0} /\ Cap \in Nat \ {0} /\ Base <= Cap

ASSUME BudgetAssumption == Parameters

VARIABLES
    left,      \* ticks left of the caller's deadline
    cancelled, \* the caller gave up
    budget,    \* the shared budget
    retry,     \* the retry loop of each dependency
    books      \* history: what was sized, what retries cost, what was lost or owed

budgetVars == <<left, cancelled, budget, retry, books>>

Budget == [armed: BOOLEAN, balance: Nat, reported: BOOLEAN]

\* idle: not called yet; start: about to repeat; attempting: the dependency has the
\* call; answered; failed: settled, with an error; sizing: this call armed the budget
\* and has not stored its amount; evaluating; reserving: allowed, the claim not taken.
Loop == [stage: {"idle", "start", "attempting", "answered", "failed", "sizing", "evaluating", "reserving",
                 "sleeping", "over"},
         attempt: 0..MaxAttempts, outcome: {"none", "ok", "retryable", "final"},
         limit: 0..OpDeadline, elapsed: 0..OpDeadline, amount: Nat,
         wait: 0..Cap, claimed: 0..EstimatedDuration + Cap, timer: 0..Cap, denied: BOOLEAN]

Books == [sized: Nat, spent: Nat, lost: Nat, owed: Nat]

Fresh == [stage |-> "idle", attempt |-> 0, outcome |-> "none", limit |-> 0, elapsed |-> 0, amount |-> 0,
          wait |-> 0, claimed |-> 0, timer |-> 0, denied |-> FALSE]

\* WithBudget, with WithTotal when the edge declares one.
BudgetInit ==
    /\ left = Deadline
    /\ cancelled = FALSE
    /\ retry = [d \in Dependencies |-> Fresh]
    /\ \E total \in Totals:
          /\ budget = [armed |-> total > 0, balance |-> total, reported |-> FALSE]
          /\ books = [sized |-> total, spent |-> 0, lost |-> 0, owed |-> 0]

-----------------------------------------------------------------------------
\* The budget.

Remaining == IF budget.armed THEN budget.balance ELSE 0

\* ReportExhaustion: the latch of an armed budget.
Reported == [budget EXCEPT !.reported = @ \/ budget.armed]

\* Next: a draw up to the interval, which doubles at every attempt up to the cap.
Waits(attempt) == {wait \in 0..Cap: wait <= Base * 2 ^ attempt}

\* EffectiveDeadline: a budget with no balance contributes nothing.
EffectiveDeadline ==
    Min({OpDeadline, left} \cup IF Remaining > 0 THEN {Remaining - Base} ELSE {})

-----------------------------------------------------------------------------
\* The timeout decorator.

Errors == {"retryable", "final"}

\* The attempt is refused with ErrDeadlineExceeded, or the dependency has it.
Attempt(d) ==
    /\ retry[d].stage \in {"idle", "start"}
    /\ \/ /\ EffectiveDeadline <= 0
          /\ \E err \in Errors: retry' = [retry EXCEPT ![d].stage = "answered", ![d].outcome = err, ![d].elapsed = 0]
       \/ /\ EffectiveDeadline > 0
          /\ retry' = [retry EXCEPT ![d].stage = "attempting", ![d].limit = EffectiveDeadline, ![d].elapsed = 0]
    /\ UNCHANGED <<left, cancelled, budget, books>>

\* External: the dependency answers, at the latest when the context of the attempt ends.
Answer(d) ==
    /\ retry[d].stage = "attempting"
    /\ \E outcome \in Errors \cup {"ok"}:
          retry' = [retry EXCEPT ![d].stage = "answered", ![d].outcome = outcome, ![d].limit = 0]
    /\ UNCHANGED <<left, cancelled, budget, books>>

-----------------------------------------------------------------------------
\* The retry decorator.

\* The balance after a claim that cost actual: Settle, with Debit stopping at zero.
Settled(balance, claimed, actual) == Max({balance + claimed - actual, 0})

\* A repeated attempt is settled for its wait and its duration; a success ends the call.
Settle(d) ==
    LET actual == retry[d].wait + retry[d].elapsed
    IN  /\ retry[d].stage = "answered"
        /\ retry' = [retry EXCEPT ![d].stage = IF retry[d].outcome = "ok" THEN "over" ELSE "failed",
                                ![d].claimed = 0, ![d].wait = 0, ![d].elapsed = 0]
        /\ IF retry[d].attempt = 0
           THEN UNCHANGED <<budget, books>>
           ELSE /\ budget' = [budget EXCEPT !.balance = Settled(@, retry[d].claimed, actual)]
                /\ books' = [books EXCEPT !.spent = @ + actual,
                                          !.owed = @ + budget'.balance - (budget.balance + retry[d].claimed - actual)]
        /\ UNCHANGED <<left, cancelled>>

\* armBudget and Arm: the flag is published before the amount.
Arm(d) ==
    /\ retry[d].stage = "failed"
    /\ \/ /\ left > 0 /\ ~budget.armed
          /\ budget' = [budget EXCEPT !.armed = TRUE]
          /\ retry' = [retry EXCEPT ![d].stage = "sizing", ![d].amount = left \div 2]
       \/ /\ left <= 0 \/ budget.armed
          /\ retry' = [retry EXCEPT ![d].stage = "evaluating"]
          /\ UNCHANGED budget
    /\ UNCHANGED <<left, cancelled, books>>

\* Arm: the amount is stored.
Size(d) ==
    /\ retry[d].stage = "sizing"
    /\ budget' = [budget EXCEPT !.balance = retry[d].amount]
    /\ books' = [books EXCEPT !.sized = retry[d].amount]
    /\ retry' = [retry EXCEPT ![d].stage = "evaluating", ![d].amount = 0]
    /\ UNCHANGED <<left, cancelled>>

Over(d, forBudget) == [retry EXCEPT ![d].stage = "over", ![d].wait = 0, ![d].denied = forBudget]

\* Evaluate: the factors in their order.  A budget that does not cover the attempt and
\* its wait is reported exhausted.
Evaluate(d) ==
    /\ retry[d].stage = "evaluating"
    /\ \E wait \in Waits(retry[d].attempt):
          LET need == EstimatedDuration + wait
              candidate == retry[d].attempt + 1 < MaxAttempts /\ retry[d].outcome = "retryable"
          IN  \/ /\ ~candidate \/ (Remaining >= need /\ left < need)
                 /\ retry' = Over(d, FALSE)
                 /\ UNCHANGED budget
              \/ /\ candidate /\ Remaining < need
                 /\ retry' = Over(d, TRUE)
                 /\ budget' = Reported
              \/ /\ candidate /\ Remaining >= need /\ left >= need
                 /\ retry' = [retry EXCEPT ![d].stage = "reserving", ![d].wait = wait]
                 /\ UNCHANGED budget
    /\ UNCHANGED <<left, cancelled, books>>

\* A claim taken on the balance Evaluate read, without looking again.
ReserveOnReading(d) ==
    LET need == EstimatedDuration + retry[d].wait
    IN  /\ retry[d].stage = "reserving"
        /\ budget' = [budget EXCEPT !.balance = Max({@ - need, 0})]
        /\ retry' = [retry EXCEPT ![d].stage = "sleeping", ![d].claimed = need, ![d].timer = retry[d].wait]
        /\ UNCHANGED <<left, cancelled, books>>

\* A refused claim that nobody hears of.
ReserveUnreported(d) ==
    LET need == EstimatedDuration + retry[d].wait
    IN  /\ retry[d].stage = "reserving"
        /\ \/ /\ budget.balance >= need
              /\ budget' = [budget EXCEPT !.balance = @ - need]
              /\ retry' = [retry EXCEPT ![d].stage = "sleeping", ![d].claimed = need, ![d].timer = retry[d].wait]
           \/ /\ budget.balance < need
              /\ retry' = Over(d, TRUE)
              /\ UNCHANGED budget
        /\ UNCHANGED <<left, cancelled, books>>

\* Reserve: the balance another dependency left decides; a refusal is reported.
Reserve(d) ==
    LET need == EstimatedDuration + retry[d].wait
    IN  /\ retry[d].stage = "reserving"
        /\ \/ /\ budget.balance >= need
              /\ budget' = [budget EXCEPT !.balance = @ - need]
              /\ retry' = [retry EXCEPT ![d].stage = "sleeping", ![d].claimed = need, ![d].timer = retry[d].wait]
           \/ /\ budget.balance < need
              /\ retry' = Over(d, TRUE)
              /\ budget' = Reported
        /\ UNCHANGED <<left, cancelled, books>>

ContextDone == left = 0 \/ cancelled

\* The sleeper returns and the loop goes round.
Wake(d) ==
    /\ retry[d].stage = "sleeping"
    /\ retry[d].timer = 0
    /\ retry' = [retry EXCEPT ![d].stage = "start", ![d].attempt = @ + 1, ![d].outcome = "none"]
    /\ UNCHANGED <<left, cancelled, budget, books>>

\* The context ends before the timer: the call ends, and its claim is not settled.
WakeCut(d) ==
    /\ retry[d].stage = "sleeping"
    /\ ContextDone
    /\ retry' = [retry EXCEPT ![d].stage = "over", ![d].claimed = 0, ![d].wait = 0, ![d].timer = 0]
    /\ books' = [books EXCEPT !.lost = @ + retry[d].claimed]
    /\ UNCHANGED <<left, cancelled, budget>>

-----------------------------------------------------------------------------
\* External: the caller gives up.
Cancel ==
    /\ ~cancelled
    /\ cancelled' = TRUE
    /\ UNCHANGED <<left, budget, retry, books>>

\* External: the clock.  What is due happens before it moves.
BudgetTick ==
    /\ left > 0
    /\ \A d \in Dependencies:
          \/ retry[d].stage \in {"idle", "over"}
          \/ retry[d].stage = "attempting" /\ retry[d].limit > 0
          \/ retry[d].stage = "sleeping" /\ retry[d].timer > 0 /\ ~cancelled
    /\ left' = left - 1
    /\ retry' = [d \in Dependencies |->
                IF retry[d].stage = "attempting" THEN [retry[d] EXCEPT !.limit = @ - 1, !.elapsed = @ + 1]
                ELSE IF retry[d].stage = "sleeping" THEN [retry[d] EXCEPT !.timer = @ - 1] ELSE retry[d]]
    /\ UNCHANGED <<cancelled, budget, books>>

Steps(d) ==
    \/ Attempt(d) \/ Answer(d) \/ Settle(d) \/ Arm(d) \/ Size(d)
    \/ Evaluate(d) \/ Reserve(d) \/ Wake(d) \/ WakeCut(d)

BudgetNext == Cancel \/ BudgetTick \/ \E d \in Dependencies: Steps(d)

BudgetSpec == BudgetInit /\ [][BudgetNext]_budgetVars

-----------------------------------------------------------------------------
BudgetTypeOK ==
    /\ left \in 0..Deadline
    /\ cancelled \in BOOLEAN
    /\ budget \in Budget
    /\ retry \in [Dependencies -> Loop]
    /\ books \in Books

\* What is claimed of the balance, tick by tick, and how much that is.
Claimed == {u \in Dependencies \X (1..EstimatedDuration + Cap): u[2] <= retry[u[1]].claimed}
Claims == Cardinality(Claimed)

\* The balance and the claims on it never exceed what the budget was sized to: however
\* the dependencies interleave reading, claiming and settling, they do not spend the
\* same balance twice, and a refund never grows it (budget.go reserve, settle; RES-30).
BalanceCovered == budget.balance + Claims <= books.sized

\* The budget is exact: what it was sized to, and what attempts that ran long were not
\* charged because the balance had ended, is what is left, claimed, spent in waits and
\* repeated attempts, or lost with a wait that was cut (budget.go settle; RES-31).
Accounted == books.sized + books.owed = budget.balance + Claims + books.spent + books.lost

\* What stays true of the budget: it is never overdrawn and its books balance.
BudgetInv == BudgetTypeOK /\ BalanceCovered /\ Accounted

\* No dependency is denied a retry for want of budget in silence: whichever of its two
\* checks denied it, the exhaustion of an armed budget was reported (RES-36).
DenialIsReported == (budget.armed /\ \E d \in Dependencies: retry[d].denied) => budget.reported
=============================================================================
