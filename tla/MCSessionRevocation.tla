------------------------ MODULE MCSessionRevocation ------------------------
(* Two sessions of one subject. *)
EXTENDS SessionRevocation, TLC

CONSTANTS s1, s2, u

Ranks == (s1 :> 1) @@ (s2 :> 2) @@ (u :> 3)

OneSubject == [s \in {s1, s2} |-> u]
=============================================================================
