---------------------------- MODULE BenchmarkCalls ----------------------------
(***************************************************************************)
(* The calls that the threads of a7/hash/benchmark.cpp and                 *)
(* a7/tree/benchmark.cpp make one after the other, whichever structure     *)
(* they make them on.                                                      *)
(***************************************************************************)
EXTENDS Integers, FiniteSets

CONSTANTS
    Threads,
    MinKey, MaxKey,     \* the range of the keys that are drawn
    NoThread, NULL

ASSUME DrawnKeys == MinKey \in Nat \ {0} /\ MaxKey \in Nat /\ MinKey <= MaxKey
ASSUME BenchmarkThreads == IsFiniteSet(Threads) /\ NoThread \notin Threads

VARIABLES pc, op, arg, res

callVars == <<pc, op, arg, res>>

Keys == MinKey .. MaxKey
Larger(a, b) == IF a > b THEN a ELSE b

At(t, label) == pc[t] = label
Goto(t, label) == pc' = [pc EXCEPT ![t] = label]

CallsInit ==
    /\ pc = [t \in Threads |-> "idle"]
    /\ op = [t \in Threads |-> "none"]
    /\ arg = [t \in Threads |-> 0]
    /\ res = [t \in Threads |-> "pending"]

\* A thread flips a coin, draws a key and makes a call.
Call(t, calls) ==
    /\ At(t, "idle")
    /\ \E c \in calls :
          op' = [op EXCEPT ![t] = c[1]] /\ arg' = [arg EXCEPT ![t] = c[2]]
    /\ Goto(t, "begin")
    /\ UNCHANGED res

\* The call has its answer, and goes to label.
Answer(t, r, label) ==
    /\ res' = [res EXCEPT ![t] = r]
    /\ Goto(t, label)
    /\ UNCHANGED <<op, arg>>

Return(t) ==
    /\ At(t, "return")
    /\ Goto(t, "idle")
    /\ op' = [op EXCEPT ![t] = "none"]
    /\ arg' = [arg EXCEPT ![t] = 0]
    /\ res' = [res EXCEPT ![t] = "pending"]

Status == [t \in Threads |-> IF pc[t] = "idle" THEN "idle" ELSE res[t]]
=============================================================================
