--------------------------- MODULE MCResilience ---------------------------
(* DependencyGuard and RetryBudget side by side: they share no state, so a   *)
(* behaviour moves one of the two, chosen at its start, and leaves the other *)
(* as it was.                                                                *)
EXTENDS DependencyGuard, RetryBudget

VARIABLE moves

allVars == <<vars, budgetVars, moves>>

\* One budget is enough beside the guard.
SideInit == Init /\ BudgetInit /\ (moves = "budget" \/ (moves = "guard" /\ budget.balance = 0))

Guard(A) == moves = "guard" /\ A /\ UNCHANGED <<budgetVars, moves>>
Retrying(A) == moves = "budget" /\ A /\ UNCHANGED <<vars, moves>>

\* The execution is over: every call of it returned and its context ended.
ExecutionOver ==
    /\ left = 0 /\ cancelled
    /\ \A d \in Dependencies: retry[d].stage = "over"
    /\ UNCHANGED budgetVars

SideNext == Guard(Next) \/ Retrying(BudgetNext \/ ExecutionOver)

\* The fairness of the guard.
SideSpec ==
    /\ SideInit /\ [][SideNext]_allVars
    /\ WF_allVars(Guard(Tick))
    /\ \A c \in Calls: /\ WF_allVars(Guard(Acquire(c) \/ Enter(c) \/ Leaves(c)))
                       /\ WF_allVars(Guard(GiveUp(c)))
                       /\ WF_allVars(Guard(Answers(c)))

=============================================================================
