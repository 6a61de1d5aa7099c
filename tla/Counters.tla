------------------------------ MODULE Counters ------------------------------
(***************************************************************************)
(* The six shared counters of a2/counters_impl.h: inc and read, one step   *)
(* per access to a shared word or mutex.  A thread is a number, the index  *)
(* of its shard; main is 0 and only reads.                                 *)
(*                                                                         *)
(* CounterFetchAndAdd's v and the shards are never initialised: with the   *)
(* Makefile's g++-9 their atomics start with what the heap held, one of    *)
(* Junk.                                                                   *)
(***************************************************************************)
EXTENDS Naturals

CONSTANTS N,      \* how many threads increment
          c,      \* CounterApproximate's error constant
          Junk    \* what an uninitialised word may hold: no negative number, from which
                  \* CounterApproximate would count up for a while in silence

CountersAssumption == N \in Nat \ {0} /\ c \in Nat \ {0} /\ Junk \subseteq Nat

Threads == 1..N
Actors == 0..N
Kinds == {"naive", "lock", "faa", "approx", "shard_lock", "shard_wf"}
Free == N + 1     \* held by nobody

VARIABLES kind,       \* which counter this is
          v,          \* v, or approx_value
          scratch,    \* threadScratch
          held,       \* who holds mutexes[i]; held[0] is CounterLocked's m
          pc, j, acc, \* of each actor: its place, loop index and local sum
          effected    \* history: the increments that have taken effect, on top of
                      \* what the words held at first

counterVars == <<kind, v, scratch, held, pc, j, acc, effected>>

\* What an uninitialised threadScratch counts for: CounterApproximate's first flush takes
\* c * N of it at most, the next increment included, and forgets the rest.
Counts(x) == IF kind = "approx" /\ x >= c * N THEN c * N - 1 ELSE x

\* The shards' sum at first.
SumOfShards ==
    LET sum[i \in 0..N] == IF i = 0 THEN 0 ELSE sum[i - 1] + Counts(scratch[i])
    IN  sum[N]

Goto(a, l) == pc' = [pc EXCEPT ![a] = l]
At(a, l) == pc[a] = l

CountersInit ==
    /\ kind \in Kinds
    /\ v \in IF kind = "faa" THEN Junk ELSE {0}
    /\ scratch \in IF kind \in {"approx", "shard_lock", "shard_wf"}
                   THEN [Threads -> Junk] ELSE [Threads -> {0}]
    /\ effected = v + SumOfShards
    /\ held = [i \in Actors |-> Free]
    /\ j = [a \in Actors |-> 1]
    /\ acc = [a \in Actors |-> 0]

Lock(a, i) == held[i] = Free /\ held' = [held EXCEPT ![i] = a]
Unlock(i) == held' = [held EXCEPT ![i] = Free]

-----------------------------------------------------------------------------
\* inc.  The increment takes effect when the counter's word, or the thread's shard, grows.

\* v++ of a plain word, under m in CounterLocked: a load and a store.
LoadV(t) ==
    /\ (kind = "naive" /\ At(t, "inc")) \/ (kind = "lock" /\ At(t, "bump"))
    /\ acc' = [acc EXCEPT ![t] = v]
    /\ Goto(t, "store")
    /\ UNCHANGED <<kind, v, scratch, held, j, effected>>

StoreV(t) ==
    /\ At(t, "store")
    /\ v' = acc[t] + 1
    /\ acc' = [acc EXCEPT ![t] = 0]
    /\ effected' = effected + 1
    /\ Goto(t, IF kind = "lock" THEN "incUnlock" ELSE "incremented")
    /\ UNCHANGED <<kind, scratch, held, j>>

Faa(t) ==
    /\ kind = "faa" /\ At(t, "inc")
    /\ v' = v + 1
    /\ effected' = effected + 1
    /\ Goto(t, "incremented")
    /\ UNCHANGED <<kind, scratch, held, j, acc>>

\* CounterLocked takes m, CounterShardedLocked the mutex of the thread's own shard.
IncLock(t) ==
    /\ kind \in {"lock", "shard_lock"} /\ At(t, "inc")
    /\ Lock(t, IF kind = "lock" THEN 0 ELSE t)
    /\ Goto(t, "bump")
    /\ UNCHANGED <<kind, v, scratch, j, acc, effected>>

Bump(t) ==
    /\ kind = "shard_lock" /\ At(t, "bump")
    /\ scratch' = [scratch EXCEPT ![t] = @ + 1]
    /\ effected' = effected + 1
    /\ Goto(t, "incUnlock")
    /\ UNCHANGED <<kind, v, held, j, acc>>

IncUnlock(t) ==
    /\ At(t, "incUnlock")
    /\ Unlock(IF kind = "lock" THEN 0 ELSE t)
    /\ Goto(t, "incremented")
    /\ UNCHANGED <<kind, v, scratch, j, acc, effected>>

ShardAdd(t) ==
    /\ kind \in {"approx", "shard_wf"} /\ At(t, "inc")
    /\ scratch' = [scratch EXCEPT ![t] = @ + 1]
    /\ effected' = effected + 1
    /\ Goto(t, IF kind = "approx" /\ scratch[t] + 1 >= c * N THEN "flush" ELSE "incremented")
    /\ UNCHANGED <<kind, v, held, j, acc>>

Flush(t) ==
    /\ At(t, "flush")
    /\ v' = v + c * N
    /\ Goto(t, "reset")
    /\ UNCHANGED <<kind, scratch, held, j, acc, effected>>

\* A plausible slip: the thread's count is not reset when it is flushed.
ResetForgotten(t) ==
    /\ At(t, "reset")
    /\ Goto(t, "incremented")
    /\ UNCHANGED <<kind, v, scratch, held, j, acc, effected>>

Reset(t) ==
    /\ At(t, "reset")
    /\ scratch' = [scratch EXCEPT ![t] = 0]
    /\ Goto(t, "incremented")
    /\ UNCHANGED <<kind, v, held, j, acc, effected>>

Inc(t) ==
    \/ LoadV(t) \/ StoreV(t) \/ Faa(t) \/ IncLock(t) \/ Bump(t) \/ IncUnlock(t)
    \/ ShardAdd(t) \/ Flush(t) \/ Reset(t)

-----------------------------------------------------------------------------
\* read.  Its result is acc when the actor is at "haveRead".

Load(a) ==
    /\ \/ kind \in {"naive", "faa", "approx"} /\ At(a, "read") /\ Goto(a, "haveRead")
       \/ kind = "lock" /\ At(a, "sum") /\ Goto(a, "readUnlock")
    /\ acc' = [acc EXCEPT ![a] = v]
    /\ UNCHANGED <<kind, v, scratch, held, j, effected>>

\* One mutex, or the mutex of every shard in order.
ReadLock(a) ==
    /\ kind \in {"lock", "shard_lock"} /\ At(a, "read")
    /\ Lock(a, IF kind = "lock" THEN 0 ELSE j[a])
    /\ IF kind = "lock" \/ j[a] = N
       THEN j' = [j EXCEPT ![a] = 1] /\ Goto(a, "sum")
       ELSE j' = [j EXCEPT ![a] = @ + 1] /\ UNCHANGED pc
    /\ UNCHANGED <<kind, v, scratch, acc, effected>>

\* A plausible slip: the last mutex stays locked.
ReadUnlockStopsEarly(a) ==
    /\ At(a, "readUnlock")
    /\ IF kind # "lock" /\ j[a] = N THEN UNCHANGED held
       ELSE Unlock(IF kind = "lock" THEN 0 ELSE j[a])
    /\ IF kind = "lock" \/ j[a] = N
       THEN j' = [j EXCEPT ![a] = 1] /\ Goto(a, "haveRead")
       ELSE j' = [j EXCEPT ![a] = @ + 1] /\ UNCHANGED pc
    /\ UNCHANGED <<kind, v, scratch, acc, effected>>

ReadUnlock(a) ==
    /\ At(a, "readUnlock")
    /\ Unlock(IF kind = "lock" THEN 0 ELSE j[a])
    /\ IF kind = "lock" \/ j[a] = N
       THEN j' = [j EXCEPT ![a] = 1] /\ Goto(a, "haveRead")
       ELSE j' = [j EXCEPT ![a] = @ + 1] /\ UNCHANGED pc
    /\ UNCHANGED <<kind, v, scratch, acc, effected>>

\* The loop over the shards, under all of their mutexes or under none.
Collect(a) ==
    /\ (kind = "shard_wf" /\ At(a, "read")) \/ (kind = "shard_lock" /\ At(a, "sum"))
    /\ acc' = [acc EXCEPT ![a] = @ + scratch[j[a]]]
    /\ IF j[a] = N
       THEN /\ j' = [j EXCEPT ![a] = 1]
            /\ Goto(a, IF kind = "shard_wf" THEN "haveRead" ELSE "readUnlock")
       ELSE j' = [j EXCEPT ![a] = @ + 1] /\ UNCHANGED pc
    /\ UNCHANGED <<kind, v, scratch, held, effected>>

ReadStep(a) == Load(a) \/ ReadLock(a) \/ ReadUnlock(a) \/ Collect(a)
=============================================================================
