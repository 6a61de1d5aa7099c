------------------------------- MODULE DekkerTSO -------------------------------
(***************************************************************************)
(* a3/q3_3.cpp: the same lock on volatile variables with                   *)
(* __sync_synchronize() fences, on a processor with store buffers (x86-    *)
(* TSO): a store waits in its thread's FIFO buffer until it reaches memory *)
(* (Drain), a load reads the thread's own buffer first, and a fence waits  *)
(* for the buffer to be empty.                                             *)
(***************************************************************************)
EXTENDS LockedCounter, Sequences

VARIABLES
    mem,        \* memory: wants_to_enter, turn and v
    buffer,     \* buffer[t]: the stores of t that are not in memory yet
    pc, tmp, done, result

vars == <<mem, buffer, pc, tmp, done, result, endless>>

Wants(t) == IF t = 0 THEN "wants 0" ELSE "wants 1"
Turn == "turn"
V == "v"
Variables == {Wants(0), Wants(1), Turn, V}

At(t, label) == pc[t] = label
Goto(t, label) == pc' = [pc EXCEPT ![t] = label]

\* What a load of x by t returns.
Load(t, x) ==
    LET mine == {k \in 1 .. Len(buffer[t]) : buffer[t][k].var = x}
    IN  IF mine = {} THEN mem[x]
        ELSE buffer[t][CHOOSE k \in mine : \A l \in mine : l <= k].val

\* `at` is the label of the store, for the refinement to DekkerSC.
Store(t, x, value, to) ==
    /\ buffer' = [buffer EXCEPT ![t] = Append(@, [var |-> x, val |-> value, at |-> pc[t]])]
    /\ Goto(t, to)
    /\ UNCHANGED <<mem, tmp, done, result, endless>>

Drain(t) ==
    /\ buffer[t] # <<>>
    /\ mem' = [mem EXCEPT ![Head(buffer[t]).var] = Head(buffer[t]).val]
    /\ buffer' = [buffer EXCEPT ![t] = Tail(@)]
    /\ UNCHANGED <<pc, tmp, done, result, endless>>

\* __sync_synchronize()
Fence(t, from, to) ==
    /\ At(t, from)
    /\ buffer[t] = <<>>
    /\ Goto(t, to)
    /\ UNCHANGED <<mem, buffer, tmp, done, result, endless>>

Branch(t, from, to) ==
    /\ At(t, from)
    /\ Goto(t, to)
    /\ UNCHANGED <<mem, buffer, tmp, done, result, endless>>

Want(t) == At(t, "want") /\ Store(t, Wants(t), TRUE, "want fence")
\* Mutant: lock() goes on before its flag has reached memory.
WantFenceMissing(t) == Branch(t, "want fence", "test")

WantFence(t) == Fence(t, "want fence", "test")
Test(t) == Branch(t, "test", IF Load(t, Wants(Other(t))) THEN "test fence" ELSE "read")
TestFence(t) == Fence(t, "test fence", "turn")
\* Mutant: lock() yields whoever's turn it is.
LookAtTurnMissing(t) == Branch(t, "turn", "yield")

LookAtTurn(t) == Branch(t, "turn", IF Load(t, Turn) = t THEN "test" ELSE "yield")
Yield(t) == At(t, "yield") /\ Store(t, Wants(t), FALSE, "yield fence")
YieldFence(t) == Fence(t, "yield fence", "spin")

Spin(t) == Branch(t, "spin", IF Load(t, Turn) = t THEN "rewant" ELSE "spin fence")
SpinFence(t) == Fence(t, "spin fence", "spin")
Rewant(t) == At(t, "rewant") /\ Store(t, Wants(t), TRUE, "rewant fence")
RewantFence(t) == Fence(t, "rewant fence", "test")

Read(t) ==
    /\ At(t, "read")
    /\ tmp' = [tmp EXCEPT ![t] = Load(t, V)]
    /\ Goto(t, "write")
    /\ UNCHANGED <<mem, buffer, done, result, endless>>

Write(t) == At(t, "write") /\ Store(t, V, Incremented(tmp[t]), "pass")

\* unlock() has one fence, after both of its stores.
PassTurn(t) == At(t, "pass") /\ Store(t, Turn, Other(t), "leave")
Leave(t) == At(t, "leave") /\ Store(t, Wants(t), FALSE, "leave fence")
LeaveFence(t) == Fence(t, "leave fence", "loop")

Loop(t) ==
    /\ At(t, "loop")
    /\ done' = [done EXCEPT ![t] = IF endless THEN @ ELSE @ + 1]
    /\ Goto(t, IF endless \/ done[t] + 1 < Increments THEN "want" ELSE "finished")
    /\ UNCHANGED <<mem, buffer, tmp, result, endless>>

Step(t) ==
    \/ Want(t) \/ WantFence(t) \/ Test(t) \/ TestFence(t) \/ LookAtTurn(t)
    \/ Yield(t) \/ YieldFence(t) \/ Spin(t) \/ SpinFence(t) \/ Rewant(t) \/ RewantFence(t)
    \/ Read(t) \/ Write(t) \/ PassTurn(t) \/ Leave(t) \/ LeaveFence(t) \/ Loop(t)

\* main joins both threads and calls get(0), which finds the lock free.
Get ==
    /\ \A t \in Threads : At(t, "finished")
    /\ result = NotRead
    /\ result' = mem[V]
    /\ mem' = [mem EXCEPT ![Turn] = Other(0)]
    /\ UNCHANGED <<buffer, pc, tmp, done, endless>>

\* q3_3's mutex_t() sets nothing: counter_locked c is a global, so all is zero.
Init ==
    /\ mem = [x \in Variables |-> IF x \in {Turn, V} THEN 0 ELSE FALSE]
    /\ buffer = [t \in Threads |-> <<>>]
    /\ pc = [t \in Threads |-> "want"]
    /\ tmp = [t \in Threads |-> 0]
    /\ done = [t \in Threads |-> 0]
    /\ result = NotRead
    /\ endless \in BOOLEAN

Next == Get \/ \E t \in Threads : Step(t) \/ Drain(t)

Spec == Init /\ [][Next]_vars

-----------------------------------------------------------------------------
\* The thread's place in q3_2.cpp: before the oldest store it has not drained, or past
\* the fence it stands at when there is none.
PlaceSC(t) ==
    IF buffer[t] # <<>> THEN Head(buffer[t]).at
    ELSE CASE pc[t] \in {"want fence", "rewant fence"} -> "test"
           [] pc[t] = "test fence" -> "turn"
           [] pc[t] \in {"yield fence", "spin fence"} -> "spin"
           [] pc[t] = "leave fence" -> "loop"
           [] OTHER -> pc[t]

SC == INSTANCE DekkerSC
      WITH wants <- [t \in Threads |-> mem[Wants(t)]],
           turn <- mem[Turn],
           v <- mem[V],
           pc <- [t \in Threads |-> PlaceSC(t)]
=============================================================================
