--------------------------- MODULE CounterWorkload ---------------------------
(***************************************************************************)
(* a2/workload_timed.cpp: main starts the timer and N threads, all meet at *)
(* the barrier, every thread reads the counter once and increments it      *)
(* until the timer runs out, and main reads the final value.               *)
(***************************************************************************)
EXTENDS Counters

CONSTANT MaxIncs    \* how many increments a thread makes at most: a model bound

VARIABLES barrier,    \* Barrier::v
          started,    \* ElapsedTimer::calledStart
          incs,       \* each thread's i
          performed,  \* incrementsPerformed
          seen,       \* history: the counts that held during each actor's read
          initially   \* history: the count at first

vars == <<counterVars, barrier, started, incs, performed, seen, initially>>

\* The start barrier of a2/util.h lets everybody go when all threads and main have come; nobody
\* resets it.
releaseValue == 1 + N
BarrierInit == barrier = 0
CountIn == barrier' = barrier + 1

\* A plausible slip: one caller too few is waited for.
ReleasedEarly == barrier >= releaseValue - 1

Released == barrier >= releaseValue

Reading(l) == l \in {"read", "sum", "readUnlock", "haveRead"}

\* Every step records the count for the reads in progress.
Record == /\ seen' = [a \in Actors |->
                 IF Reading(pc'[a])
                 THEN (IF Reading(pc[a]) THEN seen[a] ELSE {}) \cup {effected, effected'}
                 ELSE {}]
          /\ UNCHANGED initially

Init ==
    /\ CountersInit
    /\ BarrierInit
    /\ pc = [a \in Actors |-> IF a = 0 THEN "startTimer" ELSE "arrive"]
    /\ started = FALSE
    /\ incs = [t \in Threads |-> 0]
    /\ performed = 0
    /\ seen = [a \in Actors |-> {}]
    /\ initially = effected

counterData == <<kind, v, scratch, held, j, effected>>

\* timer->start() comes before main's barrier->wait().
StartTimer ==
    /\ At(0, "startTimer")
    /\ started' = TRUE
    /\ Goto(0, "arrive")
    /\ UNCHANGED <<counterData, acc, barrier, incs, performed>>

Arrive(a) ==
    /\ At(a, "arrive")
    /\ CountIn
    /\ Goto(a, "spin")
    /\ UNCHANGED <<counterData, acc, started, incs, performed>>

\* wait returns; a thread reads the counter at once, main joins the threads first.
Pass(a) ==
    /\ At(a, "spin") /\ Released
    /\ Goto(a, IF a = 0 THEN "join" ELSE "read")
    /\ UNCHANGED <<counterData, acc, barrier, started, incs, performed>>

\* The value read is printed.
PrintRead(t) ==
    /\ t # 0 /\ At(t, "haveRead")
    /\ acc' = [acc EXCEPT ![t] = 0]
    /\ Goto(t, "inc")
    /\ UNCHANGED <<counterData, barrier, started, incs, performed>>

\* The loop of threadFunc: the timer may end it after any increment it checks.
Repeat(t) ==
    /\ At(t, "incremented")
    /\ incs' = [incs EXCEPT ![t] = @ + 1]
    /\ \/ Goto(t, "add")
       \/ incs[t] + 1 < MaxIncs /\ Goto(t, "inc")
    /\ UNCHANGED <<counterData, acc, barrier, started, performed>>

\* A plausible slip: i instead of i+1.
AddPerformedShort(t) ==
    /\ At(t, "add")
    /\ performed' = performed + incs[t] - 1
    /\ Goto(t, "done")
    /\ UNCHANGED <<counterData, acc, barrier, started, incs>>

AddPerformed(t) ==
    /\ At(t, "add")
    /\ performed' = performed + incs[t]
    /\ Goto(t, "done")
    /\ UNCHANGED <<counterData, acc, barrier, started, incs>>

Join ==
    /\ At(0, "join") /\ \A t \in Threads : At(t, "done")
    /\ Goto(0, "read")
    /\ UNCHANGED <<counterData, acc, barrier, started, incs, performed>>

Operate(a) ==
    /\ ReadStep(a) \/ (a # 0 /\ Inc(a))
    /\ UNCHANGED <<barrier, started, incs, performed>>

Step(a) ==
    /\ \/ a = 0 /\ (StartTimer \/ Join)
       \/ a # 0 /\ (PrintRead(a) \/ Repeat(a) \/ AddPerformed(a))
       \/ Arrive(a) \/ Pass(a) \/ Operate(a)
    /\ Record

Next == \E a \in Actors : Step(a)

Spec == Init /\ [][Next]_vars

-----------------------------------------------------------------------------
\* Nobody gets past the barrier before all have come and the timer runs: a thread that
\* asked the time earlier would end the process (a2/util.h:20-23, 38-41,
\* workload_timed.cpp:59, 85-86).
BarrierHolds ==
    (\E a \in Actors : pc[a] \notin {"startTimer", "arrive", "spin"})
    => started /\ \A a \in Actors : pc[a] \notin {"startTimer", "arrive"}

\* By how much a read may fall short of the count.
Slack == IF kind = "approx" THEN N * c * N ELSE 0

\* What a read returns was the count at some instant of the read, even for the collect
\* that takes no lock; CounterApproximate falls short by its error at most
\* (counters_impl.h:87-99, 115-137, 155-166).  CounterNaive promises nothing.
ReadsAreLinearizable ==
    \A a \in Actors :
        (kind # "naive" /\ At(a, "haveRead"))
        => \E n \in seen[a] : acc[a] <= n /\ n <= acc[a] + Slack

\* The final value that main prints accounts for every increment performed, up to the
\* error of CounterApproximate; CounterNaive may have lost some but never invents any
\* (workload_timed.cpp:72, 95).
FinalIsExact ==
    At(0, "haveRead")
    => /\ acc[0] <= initially + performed
       /\ kind # "naive" => initially + performed <= acc[0] + Slack
=============================================================================
