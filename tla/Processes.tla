------------------------------ MODULE Processes ------------------------------
(***************************************************************************)
(* The threads that a record manager is built for.                         *)
(***************************************************************************)
EXTENDS Naturals

CONSTANTS NUM_PROCESSES, Threads

ASSUME ProcessesAssumption ==
    NUM_PROCESSES \in Nat \ {0} /\ Threads = 0..NUM_PROCESSES - 1
==============================================================================
