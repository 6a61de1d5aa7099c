------------------------------- MODULE DekkerSC -------------------------------
(***************************************************************************)
(* a3/q3_2.cpp: Dekker's lock on sequentially consistent atomics.  Every   *)
(* load and every store of a shared variable is a step.                    *)
(***************************************************************************)
EXTENDS LockedCounter

VARIABLES
    wants,      \* wants_to_enter
    turn,
    v,          \* the counter, a plain volatile int
    pc, tmp,    \* each thread's place and the value of v it has loaded
    done,       \* the increments each thread has finished
    result      \* what main's get returned

vars == <<wants, turn, v, pc, tmp, done, result, endless>>

At(t, label) == pc[t] = label
Goto(t, label) == pc' = [pc EXCEPT ![t] = label]

\* wants_to_enter[id] = b, at each of the three places of lock().
SetWants(t, from, b, to) ==
    /\ At(t, from)
    /\ wants' = [wants EXCEPT ![t] = b]
    /\ Goto(t, to)
    /\ UNCHANGED <<turn, v, tmp, done, result, endless>>

Want(t) == SetWants(t, "want", TRUE, "test")
Yield(t) == SetWants(t, "yield", FALSE, "spin")
Rewant(t) == SetWants(t, "rewant", TRUE, "test")

\* while (wants_to_enter[!id])
Test(t) ==
    /\ At(t, "test")
    /\ Goto(t, IF wants[Other(t)] THEN "turn" ELSE "read")
    /\ UNCHANGED <<wants, turn, v, tmp, done, result, endless>>

\* if (turn != id)
LookAtTurn(t) ==
    /\ At(t, "turn")
    /\ Goto(t, IF turn = t THEN "test" ELSE "yield")
    /\ UNCHANGED <<wants, turn, v, tmp, done, result, endless>>

\* while (turn != id), left once it is this thread's turn.
Spin(t) ==
    /\ At(t, "spin")
    /\ turn = t
    /\ Goto(t, "rewant")
    /\ UNCHANGED <<wants, turn, v, tmp, done, result, endless>>

\* v++ is a load and a store.
Read(t) ==
    /\ At(t, "read")
    /\ tmp' = [tmp EXCEPT ![t] = v]
    /\ Goto(t, "write")
    /\ UNCHANGED <<wants, turn, v, done, result, endless>>

Write(t) ==
    /\ At(t, "write")
    /\ v' = Incremented(tmp[t])
    /\ Goto(t, "pass")
    /\ UNCHANGED <<wants, turn, tmp, done, result, endless>>

PassTurn(t) ==
    /\ At(t, "pass")
    /\ turn' = Other(t)
    /\ Goto(t, "leave")
    /\ UNCHANGED <<wants, v, tmp, done, result, endless>>

Leave(t) == SetWants(t, "leave", FALSE, "loop")

\* threadFunc: ++i and once more, or the thread ends.  In an endless program i is not counted.
Loop(t) ==
    /\ At(t, "loop")
    /\ done' = [done EXCEPT ![t] = IF endless THEN @ ELSE @ + 1]
    /\ Goto(t, IF endless \/ done[t] + 1 < Increments THEN "want" ELSE "finished")
    /\ UNCHANGED <<wants, turn, v, tmp, result, endless>>

Step(t) ==
    \/ Want(t) \/ Test(t) \/ LookAtTurn(t) \/ Yield(t) \/ Spin(t) \/ Rewant(t)
    \/ Read(t) \/ Write(t) \/ PassTurn(t) \/ Leave(t) \/ Loop(t)

\* main joins both threads and calls get(0), which finds the lock free.
Get ==
    /\ \A t \in Threads : At(t, "finished")
    /\ result = NotRead
    /\ result' = v
    /\ turn' = Other(0)
    /\ UNCHANGED <<wants, v, pc, tmp, done, endless>>

Init ==
    /\ wants = [t \in Threads |-> FALSE]
    /\ turn = 0
    /\ v = 0
    /\ pc = [t \in Threads |-> "want"]
    /\ tmp = [t \in Threads |-> 0]
    /\ done = [t \in Threads |-> 0]
    /\ result = NotRead
    /\ endless \in BOOLEAN

Next == Get \/ \E t \in Threads : Step(t)

Spec == Init /\ [][Next]_vars

-----------------------------------------------------------------------------
TypeOK ==
    /\ wants \in [Threads -> BOOLEAN]
    /\ turn \in Threads
    /\ v \in Nat
    /\ pc \in [Threads -> Labels]
    /\ tmp \in [Threads -> Nat]
    /\ done \in [Threads -> 0 .. Increments]
    /\ result \in Nat \cup {NotRead}
    /\ endless \in BOOLEAN

\* The two threads are never both between lock() and unlock() (q3_2.cpp:49-53).
MutualExclusion == ~(pc[0] \in InsideLabels /\ pc[1] \in InsideLabels)
=============================================================================
