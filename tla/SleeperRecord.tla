---------------------------- MODULE SleeperRecord ----------------------------
(***************************************************************************)
(* Abstract specification of the worker-sleep coordinator's counters       *)
(* (spec.md 3 "Sleeper state" and 4.4): two plain counters, the number of  *)
(* active (not parked) workers and the number of searching workers, each   *)
(* changed by one per step, with                                           *)
(*     searching <= active <= NumWorkers.                                  *)
(* Sleeper.tla packs both counters into one machine word (sleeper.rs       *)
(* Record) and is checked to implement this module.                        *)
(***************************************************************************)
EXTENDS Naturals

CONSTANT NumWorkers

VARIABLES active, searching

IncActive == /\ active < NumWorkers
             /\ active' = active + 1
             /\ UNCHANGED searching

DecActive == /\ active > searching
             /\ active' = active - 1
             /\ UNCHANGED searching

IncSearching == /\ searching < active
                /\ searching' = searching + 1
                /\ UNCHANGED active

DecSearching == /\ searching > 0
                /\ searching' = searching - 1
                /\ UNCHANGED active

Init == active = NumWorkers /\ searching = 0

Next == IncActive \/ DecActive \/ IncSearching \/ DecSearching

Spec == Init /\ [][Next]_<<active, searching>>

=============================================================================
