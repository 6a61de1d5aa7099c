------------------------------- MODULE Counting -------------------------------
(***************************************************************************)
(* The programs that count with several threads: the timed workload of a2  *)
(* on its six counters, and those of a3, q3_2 on the lock on atomics and   *)
(* q3_3 on the lock with fences.  One of them is run; the others'          *)
(* variables stay as they are.                                             *)
(***************************************************************************)
EXTENDS LockedCounter

CONSTANTS N, c, Junk, MaxIncs

VARIABLES program,
          wants, turn, count, at, loaded, counted, printed,
          mem, buffer, place, tmp, done, result,
          kind, v, scratch, held, pc, j, acc, effected,
          barrier, started, incs, performed, seen, initially

atomicVars == <<wants, turn, count, at, loaded, counted, printed, endless>>
lockVars == <<mem, buffer, place, tmp, done, result, endless>>
workloadVars == <<kind, v, scratch, held, pc, j, acc, effected,
                  barrier, started, incs, performed, seen, initially>>
vars == <<program, atomicVars, lockVars, workloadVars>>

Atomics == INSTANCE DekkerSC
           WITH v <- count, pc <- at, tmp <- loaded, done <- counted, result <- printed
Lock == INSTANCE DekkerTSO WITH pc <- place
Workload == INSTANCE CounterWorkload

ASSUME CountingAssumption == Workload!CountersAssumption /\ MaxIncs \in Nat \ {0}

NoWorkload ==
    /\ kind = "none" /\ v = 0 /\ scratch = 0 /\ held = 0 /\ pc = 0 /\ j = 0 /\ acc = 0 /\ effected = 0
    /\ barrier = 0 /\ started = 0 /\ incs = 0 /\ performed = 0 /\ seen = 0 /\ initially = 0

Init == /\ Atomics!Init /\ Lock!Init
        /\ \/ program \in {"q3_2", "q3_3"} /\ NoWorkload
           \/ program = "workload" /\ ~endless /\ Workload!Init

AtomicStep(t) == program = "q3_2" /\ Atomics!Step(t) /\ UNCHANGED <<program, lockVars, workloadVars>>
AtomicGet == program = "q3_2" /\ Atomics!Get /\ UNCHANGED <<program, lockVars, workloadVars>>
LockStep(t) == program = "q3_3" /\ Lock!Step(t) /\ UNCHANGED <<program, atomicVars, workloadVars>>
LockDrain(t) == program = "q3_3" /\ Lock!Drain(t) /\ UNCHANGED <<program, atomicVars, workloadVars>>
LockGet == program = "q3_3" /\ Lock!Get /\ UNCHANGED <<program, atomicVars, workloadVars>>
WorkloadStep(a) == program = "workload" /\ Workload!Step(a) /\ UNCHANGED <<program, atomicVars, lockVars>>

Next == \/ AtomicGet \/ LockGet
        \/ \E t \in Threads : AtomicStep(t) \/ LockStep(t) \/ LockDrain(t)
        \/ \E a \in Workload!Actors : WorkloadStep(a)

\* Threads keep running, main included, and a store buffer empties by itself.  No mutex of the
\* workload needs to be fair, as there are finitely many increments.
Spec ==
    /\ Init /\ [][Next]_vars
    /\ WF_vars(AtomicGet) /\ WF_vars(LockGet)
    /\ \A t \in Threads : WF_vars(AtomicStep(t)) /\ WF_vars(LockStep(t)) /\ WF_vars(LockDrain(t))
    /\ \A a \in Workload!Actors : WF_vars(WorkloadStep(a))

-----------------------------------------------------------------------------
\* A thread that wants the lock gets it, however often the other comes back for it: also when the
\* threads go round for ever (q3_2.cpp:20-36, q3_3.cpp:17-39).
StarvationFree ==
    \A t \in Threads :
        /\ program = "q3_2" /\ at[t] = "want" ~> at[t] = "read"
        /\ program = "q3_3" /\ place[t] = "want" ~> place[t] = "read"

\* The fences of q3_3.cpp make it behave like q3_2.cpp, whose variables are atomics
\* (q3_3.cpp:17-39 against q3_2.cpp:20-36).
ImplementsSC == Lock!SC!Spec

\* Nobody gets past the barrier before all have come and the timer runs: a thread that
\* asked the time earlier would end the process (a2/util.h:20-23, 38-41,
\* workload_timed.cpp:59, 85-86).
BarrierHolds == program = "workload" => Workload!BarrierHolds

\* What a read returns was the count at some instant of the read
\* (counters_impl.h:87-99, 115-137, 155-166).
ReadsAreLinearizable == program = "workload" => Workload!ReadsAreLinearizable

\* The final value that main prints accounts for every increment performed
\* (workload_timed.cpp:72, 95, q3_2.cpp:78, q3_3.cpp:79-81).
FinalIsExact ==
    /\ program = "workload" => Workload!FinalIsExact
    /\ \A value \in {printed, result} : value # NotRead => value = 2 * Increments

\* Each program that is not endless ends: main gets past its joins and has read the counter
\* (workload_timed.cpp:65-95, q3_3.cpp:79-81).
Finishes ==
    <>(\/ endless
       \/ program = "q3_2" /\ printed # NotRead
       \/ program = "q3_3" /\ result # NotRead
       \/ program = "workload" /\ Workload!At(0, "haveRead"))
=============================================================================
