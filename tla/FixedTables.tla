----------------------------- MODULE FixedTables -----------------------------
(***************************************************************************)
(* The benchmark of a4 on one of its fixed-size tables: benchmark.cpp      *)
(* picks the algorithm once, by name, and runs every thread on it.         *)
(* seen is the history variable of SetObject: it records what each call    *)
(* has witnessed and no step reads it.                                     *)
(***************************************************************************)
EXTENDS AlgorithmA, AlgorithmB, AlgorithmC

VARIABLES alg, seen

vars == <<lockVars, alg, seen>>

\* What t's call has witnessed of its key once this step is over.
Witness(t) == IF pc'[t] = "idle"
              THEN {}
              ELSE (IF pc[t] = "idle" THEN {} ELSE seen[t])
                      \cup {key'[t] \in Contents'}

Init ==
    /\ ProbeInit
    /\ lock = [s \in Slots |-> NoThread]
    /\ alg \in {"A", "B", "C"}
    /\ seen = [t \in Threads |-> {}]

Probe(t) ==
    \/ alg = "A" /\ AStep(t)
    \/ alg = "B" /\ BStep(t)
    \/ alg = "C" /\ CStep(t) /\ UNCHANGED lock

Record == UNCHANGED alg /\ seen' = [t \in Threads |-> Witness(t)]

Start(t) == Call(t) /\ UNCHANGED lock /\ Record
Work(t) == (Probe(t) \/ (Return(t) /\ UNCHANGED lock)) /\ Record

Next == \E t \in Threads : Start(t) \/ Work(t)

Spec == Init /\ [][Next]_vars

\* A thread inside a call is scheduled again and again; nothing makes it call, and
\* nothing makes a mutex choose among its waiters.
FairSpec == Spec /\ \A t \in Threads : WF_vars(Work(t))

-----------------------------------------------------------------------------
TypeOK ==
    /\ ProbeTypeOK
    /\ pc \in [Threads -> {"idle", "probe", "read", "lock", "recheck", "write", "unlock",
                           "cas", "return"}]
    /\ lock \in [Slots -> Threads \cup {NoThread}]
    /\ alg \in {"A", "B", "C"}
    /\ seen \in [Threads -> SUBSET BOOLEAN]

Set == INSTANCE SetObject
       WITH contents <- Contents, refused <- NoRoom, status <- Status

\* insertIfAbsent and erase of all three tables are linearizable, and a table that
\* has run out of slots only turns inserts away (alg_a.h:53-97, alg_b.h:51-103,
\* alg_c.h:43-80).
Linearizable == Set!Spec

\* Every call of B and C returns whatever the other threads do: C makes at most
\* capacity probes, and a slot of B is locked only while it ages (alg_b.h:62, 94).
\* In A a waiter may starve, but some thread always gets through (alg_a.h:58).
CallsReturn ==
    /\ \A t \in Threads : (alg # "A" /\ ~At(t, "idle")) ~> At(t, "idle")
    /\ (\E t \in Threads : ~At(t, "idle")) ~> (\E t \in Threads : At(t, "return"))
=============================================================================
