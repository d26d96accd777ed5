------------------------------ MODULE MCDriver -------------------------------
(* Two workers compete for the driver mutex; one timer entry due at 2; one  *)
(* UnixListener to which a peer makes two connections and which is         *)
(* reregistered once; any thread may call Handle::wake; a clock of 3 ticks. *)
EXTENDS Driver, TLC

CONSTANTS w1, w2, e1, e2, s1

MCWorkers == {w1, w2}
MCEntries == {e1}
MCDeadline == e1 :> 2
MCSources == {s1}
=============================================================================
