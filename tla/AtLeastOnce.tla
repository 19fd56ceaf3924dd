---------------------------- MODULE AtLeastOnce ----------------------------
(***************************************************************************)
(* What the outbox promises its producers and consumers, whoever drains    *)
(* it: a committed message is owed to the broker; it may reach the broker  *)
(* any number of times, never before it was committed; it is confirmed     *)
(* only after it reached the broker; and giving it up is final, though a   *)
(* copy may have reached the broker all the same.                          *)
(***************************************************************************)
CONSTANT Messages

VARIABLES owed,     \* "absent", "owed", "confirmed" or "givenup", per message
          reached   \* the messages of which the broker has at least one copy

vars == <<owed, reached>>

Init ==
    /\ owed = [m \in Messages |-> "absent"]
    /\ reached = {}

Commit(m) ==
    /\ owed[m] = "absent"
    /\ owed' = [owed EXCEPT ![m] = "owed"]
    /\ UNCHANGED reached

Reach(m) ==
    /\ owed[m] # "absent"
    /\ reached' = reached \cup {m}
    /\ UNCHANGED owed

Confirm(m) ==
    /\ owed[m] = "owed"
    /\ m \in reached
    /\ owed' = [owed EXCEPT ![m] = "confirmed"]
    /\ UNCHANGED reached

GiveUp(m) ==
    /\ owed[m] = "owed"
    /\ owed' = [owed EXCEPT ![m] = "givenup"]
    /\ UNCHANGED reached

Next == \E m \in Messages : Commit(m) \/ Reach(m) \/ Confirm(m) \/ GiveUp(m)

Spec == Init /\ [][Next]_vars

=============================================================================
