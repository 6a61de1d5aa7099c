----------------------------- MODULE LockedCounter -----------------------------
(***************************************************************************)
(* What the two programs of a3 (q3_2.cpp, q3_3.cpp) share: two threads     *)
(* increment a counter inside Dekker's lock, and main reads it at the end. *)
(***************************************************************************)
EXTENDS Integers

CONSTANT Increments     \* TOTAL_INCREMENTS / 2, the increments of each thread

ASSUME IncrementsAssumption == Increments \in Nat \ {0}

VARIABLE endless        \* whether TOTAL_INCREMENTS is too many ever to come to an end

Threads == {0, 1}
Other(t) == 1 - t

\* A thread's place: lock() from "want" to "rewant", the increment, unlock() at
\* "pass" and "leave", and the loop of threadFunc.
LockLabels == {"want", "test", "turn", "yield", "spin", "rewant"}
InsideLabels == {"read", "write", "pass", "leave"}
Labels == LockLabels \cup InsideLabels \cup {"loop", "finished"}

\* v++.  In an endless program the counter is kept within bounds: it is counted modulo Increments,
\* and main never gets to read it.
Incremented(n) == IF endless /\ n + 1 = Increments THEN 0 ELSE n + 1

\* What main prints before the threads are joined.
NotRead == -1
=============================================================================
