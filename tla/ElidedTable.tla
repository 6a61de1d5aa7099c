------------------------------ MODULE ElidedTable ------------------------------
(***************************************************************************)
(* The hash table of a7 that grows (hashtable.h).  TLEGuard makes a call a *)
(* critical section from the guard's constructor to its destructor: one    *)
(* step.  explicit_fallback starts the section again with the lock held,   *)
(* so that what it had read before is forgotten.  An insert that expands   *)
(* the table gives up its guard before it looks again, in a step of its    *)
(* own.                                                                    *)
(*                                                                         *)
(* Inserts and deletes are counted (common/util.h): a thread adds its      *)
(* subcounter to the counter that get returns each time it is full.        *)
(***************************************************************************)
EXTENDS BenchmarkCalls, Sequences

CONSTANTS
    TableSizes, \* the initial capacities: the benchmark's argument
    Hash,       \* [Keys -> Nat], murmur3
    Full,       \* when a subcounter is flushed: max(1000, 30 * numThreads)
    LongProbe   \* 100: the probes after which the inserts are counted exactly

ASSUME ElidedTableAssumption ==
    /\ TableSizes \subseteq Nat \ {0} /\ Full \in Nat \ {0} /\ LongProbe \in Nat
    /\ Hash \in [Keys -> Nat]

EMPTY == 0
TOMBSTONE == -1

VARIABLES
    data,           \* [0 .. capacity - 1 -> EMPTY, TOMBSTONE or a key]
    inserts,        \* approxInserts: what get returns,
    insertsOf,      \* and the subcounters
    deletes, deletesOf

counterVars == <<inserts, insertsOf, deletes, deletesOf>>
tableVars == <<data, counterVars>>

capacity == Cardinality(DOMAIN data)
Index(k, j, cap) == (Hash[k] + j) % cap
Held(d) == {d[s] : s \in DOMAIN d} \ {EMPTY, TOMBSTONE}

\* getAccurate adds up the subcounters: it counts the increments in them.
NoSubcounts == [t \in Threads |-> 0]
Unflushed(sub) == {u \in Threads \X (1 .. Full - 1) : u[2] <= sub[u[1]]}
Accurate(global, sub) == global + Cardinality(Unflushed(sub))
AccurateInserts == Accurate(inserts, insertsOf)
AccurateDeletes == Accurate(deletes, deletesOf)

TableInit(sizes) ==
    /\ data \in {[s \in 0 .. size - 1 |-> EMPTY] : size \in sizes}
    /\ inserts = 0 /\ insertsOf = NoSubcounts
    /\ deletes = 0 /\ deletesOf = NoSubcounts

-----------------------------------------------------------------------------
\* counter::inc: the counter and the subcounters after an increment by t.
Inc(global, sub, t) ==
    IF sub[t] + 1 >= Full
    THEN <<global + sub[t] + 1, [sub EXCEPT ![t] = 0]>>
    ELSE <<global, [sub EXCEPT ![t] = @ + 1]>>

\* A plausible slip: a table may fill up before it grows.
isExpandNeededLate(probe) == inserts >= capacity

isExpandNeeded(probe) ==
    \/ inserts > capacity \div 3
    \/ probe > LongProbe /\ AccurateInserts > capacity \div 3

Probes == 0 .. capacity - 1
Probed(k, j) == data[Index(k, j, capacity)]

\* The loop of a call on key k gets to probe j.
InsertReaches(k, j) ==
    \A i \in 0 .. j - 1 : ~isExpandNeeded(i) /\ Probed(k, i) \notin {k, EMPTY}
EraseReaches(k, j) == \A i \in 0 .. j - 1 : Probed(k, i) \notin {k, EMPTY}

\* What the threads of the parallel loop can make of an empty array, each key by its migrateInsert,
\* given by the probe at which each key ends: a compare-and-swap succeeds once in a slot, and every
\* slot that a key has passed is taken.  There is room for all of them.
Migrations(keys, cap) ==
    {last \in [keys -> 0 .. cap - 1] :
        \A k \in keys :
            /\ \A o \in keys : Index(o, last[o], cap) = Index(k, last[k], cap) => o = k
            /\ \A j \in 0 .. last[k] - 1 : \E o \in keys : Index(o, last[o], cap) = Index(k, j, cap)}

Migrated(last, cap) ==
    [s \in 0 .. cap - 1 |->
        IF \E k \in DOMAIN last : Index(k, last[k], cap) = s
        THEN CHOOSE k \in DOMAIN last : Index(k, last[k], cap) = s
        ELSE EMPTY]

\* A larger array with the keys of the old one, and the counters set to size.
ExpandTo(size) ==
    LET room == Larger(Larger(size, 1) * 8, capacity)
    IN  /\ \E last \in Migrations(Held(data), room) : data' = Migrated(last, room)
        /\ inserts' = size /\ insertsOf' = NoSubcounts
        /\ deletes' = 0 /\ deletesOf' = NoSubcounts

\* A plausible slip: what is counted and not flushed yet is forgotten.
ExpandByCounters == ExpandTo(inserts - deletes)

Expand == ExpandTo(AccurateInserts - AccurateDeletes)

-----------------------------------------------------------------------------
Section(t, o) == At(t, "begin") /\ op[t] = o

\* The guard ends with the expansion, and the call starts again.
TableExpand(t) ==
    /\ Section(t, "insert")
    /\ \E j \in Probes : InsertReaches(arg[t], j) /\ isExpandNeeded(j)
    /\ Expand
    /\ UNCHANGED callVars

InsertLeavesOff(t, j, found) ==
    /\ Section(t, "insert") /\ InsertReaches(arg[t], j)
    /\ ~isExpandNeeded(j) /\ Probed(arg[t], j) = found

TableInsertFindsKey(t) ==
    /\ \E j \in Probes : InsertLeavesOff(t, j, arg[t])
    /\ Answer(t, "false", "return")
    /\ UNCHANGED tableVars

TableInsert(t) ==
    LET counted == Inc(inserts, insertsOf, t)
    IN  /\ \E j \in Probes :
              /\ InsertLeavesOff(t, j, EMPTY)
              /\ data' = [data EXCEPT ![Index(arg[t], j, capacity)] = arg[t]]
        /\ inserts' = counted[1] /\ insertsOf' = counted[2]
        /\ Answer(t, "true", "return")
        /\ UNCHANGED <<deletes, deletesOf>>

EraseLeavesOff(t, j, found) ==
    Section(t, "erase") /\ EraseReaches(arg[t], j) /\ Probed(arg[t], j) = found

TableEraseFindsNone(t) ==
    /\ \E j \in Probes : EraseLeavesOff(t, j, EMPTY)
    /\ Answer(t, "false", "return")
    /\ UNCHANGED tableVars

TableErase(t) ==
    LET counted == Inc(deletes, deletesOf, t)
    IN  /\ \E j \in Probes :
              /\ EraseLeavesOff(t, j, arg[t])
              /\ data' = [data EXCEPT ![Index(arg[t], j, capacity)] = TOMBSTONE]
        /\ deletes' = counted[1] /\ deletesOf' = counted[2]
        /\ Answer(t, "true", "return")
        /\ UNCHANGED <<inserts, insertsOf>>

\* The loop has been all the way round: assert(false).
TableAssertFails(t) ==
    /\ \/ Section(t, "insert") /\ InsertReaches(arg[t], capacity)
       \/ Section(t, "erase") /\ EraseReaches(arg[t], capacity)
    /\ Goto(t, "assert")
    /\ UNCHANGED <<op, arg, res, tableVars>>

TableWork(t) ==
    \/ TableExpand(t) \/ TableInsertFindsKey(t) \/ TableInsert(t)
    \/ TableEraseFindsNone(t) \/ TableErase(t) \/ TableAssertFails(t)

-----------------------------------------------------------------------------
TableTypeOK ==
    /\ \A s \in DOMAIN data : data[s] \in Keys \cup {EMPTY, TOMBSTONE}
    /\ DOMAIN data = 0 .. capacity - 1 /\ capacity > 0
    /\ inserts \in Nat /\ insertsOf \in [Threads -> 0 .. Full - 1]
    /\ deletes \in Nat /\ deletesOf \in [Threads -> 0 .. Full - 1]

\* The counters, which expand trusts for the new capacity, agree with the table: a slot in use
\* is an insert that has been counted, and inserts less deletes are the keys there are
\* (hashtable.h:60-64, 75, 98-100, 156, 180).
CountersAgree ==
    /\ AccurateInserts - AccurateDeletes = Cardinality(Held(data))
    /\ AccurateInserts = Cardinality({s \in DOMAIN data : data[s] # EMPTY})

\* What the subcounters keep back is less than the two thirds of the table that isExpandNeeded
\* leaves free.
Ample == capacity \div 3 + Cardinality(Threads) * (Full - 1) + 1 < capacity
=============================================================================
