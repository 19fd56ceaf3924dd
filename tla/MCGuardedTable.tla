--------------------------- MODULE MCGuardedTable ---------------------------
(* Instances of GuardedTable for TLC. *)
EXTENDS GuardedTable

CONSTANTS e1, e2, h1, h2, s1, s2, k1, k2

\* A row of the guarded table and two of the plain table; e2 is to be created.
OneAndTwo ==
    [i \in Ids |-> IF i = e1 THEN [version |-> 1, saves |-> 1, series |-> s1, key |-> k1]
                   ELSE IF i \in {h1, h2} THEN [version |-> 1, saves |-> 1, series |-> None, key |-> None]
                   ELSE NoRow]

=============================================================================
