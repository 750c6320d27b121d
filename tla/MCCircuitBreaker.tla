-------------------------- MODULE MCCircuitBreaker --------------------------
(* Instances of CircuitBreaker for TLC. *)
EXTENDS CircuitBreaker, TLC

CONSTANTS p1, p2, c1, c2

\* One call, one process, or the two processes of a rolling update.
OneProcOneCall == [c \in {c1} |-> p1]
OneProcTwoCalls == [c \in {c1, c2} |-> p1]
TwoProcTwoCalls == c1 :> p1 @@ c2 :> p2
=============================================================================
