------------------------------ MODULE MCSleeper ------------------------------
(* Sleeper instantiated for TLC: three workers and one external waker.     *)
EXTENDS Sleeper, TLC

CONSTANTS w1, w2, w3, x1

MCWorkers == {w1, w2, w3}
MCWakers == {x1}

\* Workers are interchangeable indices, so are wakers.
MCSymmetry == Permutations(MCWorkers) \cup Permutations(MCWakers)

=============================================================================
