------------------------------ MODULE ProbeTable ------------------------------
(***************************************************************************)
(* What the fixed-size tables of a4 (alg_a.h, alg_b.h, alg_c.h) share: an  *)
(* array of keys probed linearly from the key's hash, and the benchmark's  *)
(* threads (benchmark.cpp), which call insertIfAbsent and erase and add    *)
(* the keys of their successful calls to a checksum.  The three algorithms *)
(* differ only in how they read and write a slot; each has a module that   *)
(* EXTENDS this one.                                                       *)
(***************************************************************************)
EXTENDS Integers

CONSTANTS
    Threads,    \* the threads of the experiment
    Keys,       \* the keys they draw, 1 .. keyRangeSize
    Capacity,   \* number of slots
    Hash,       \* [Keys -> 0 .. HashRange - 1], murmur3
    HashRange   \* 2^32, the range of uint32_t

ASSUME KeysAssumption == Keys \subseteq Nat \ {0}
ASSUME CapacityAssumption == Capacity \in Nat \ {0}
ASSUME HashAssumption ==
    HashRange \in Nat \ {0} /\ Hash \in [Keys -> 0 .. HashRange - 1]

EMPTY == 0
TOMBSTONE == -1

VARIABLES
    data,       \* data[s]: EMPTY, TOMBSTONE or a key
    pc,         \* where each thread is
    op, key,    \* its call
    i,          \* its loop counter
    res,        \* what it is going to return, once that is known
    checksum    \* total of keyChecksum over the threads

Slots == 0 .. Capacity - 1
Positions == 0 .. Capacity - 1

\* (h + i) % capacity: h is a uint32_t, so the sum wraps before the remainder.
Slot(k, j) == ((Hash[k] + j) % HashRange) % Capacity

Here(t) == Slot(key[t], i[t])

\* The set of keys the table holds.
Contents == {k \in Keys : \E s \in Slots : data[s] = k}

\* No slot an insert of k may use is left.
NoRoom == {k \in Keys : \A j \in Positions : data[Slot(k, j)] # EMPTY}

At(t, label) == pc[t] = label
Goto(t, label) == pc' = [pc EXCEPT ![t] = label]

\* Mutant: the loop runs to i <= capacity.
NextSlotPastEnd(t, label) ==
    \/ /\ i[t] < Capacity
       /\ i' = [i EXCEPT ![t] = i[t] + 1]
       /\ Goto(t, label)
       /\ UNCHANGED res
    \/ /\ i[t] >= Capacity
       /\ Goto(t, "return")
       /\ res' = [res EXCEPT ![t] = "false"]
       /\ UNCHANGED i

\* What the thread does next when it is done with this slot and the call goes on.
NextSlot(t, label) ==
    \/ /\ i[t] + 1 < Capacity
       /\ i' = [i EXCEPT ![t] = i[t] + 1]
       /\ Goto(t, label)
       /\ UNCHANGED res
    \/ /\ i[t] + 1 >= Capacity
       /\ Goto(t, "return")
       /\ res' = [res EXCEPT ![t] = "false"]
       /\ UNCHANGED i

\* Leave the loop with an answer.
Answer(t, label, r) ==
    /\ Goto(t, label)
    /\ res' = [res EXCEPT ![t] = r]
    /\ UNCHANGED i

-----------------------------------------------------------------------------
\* A thread flips a coin, draws a key and calls the table.
Call(t) ==
    /\ At(t, "idle")
    /\ \E o \in {"insert", "erase"}, k \in Keys :
          op' = [op EXCEPT ![t] = o] /\ key' = [key EXCEPT ![t] = k]
    /\ Goto(t, "probe")
    /\ UNCHANGED <<data, i, res, checksum>>

\* The call returns and the thread records a success in its checksum.
Return(t) ==
    /\ At(t, "return")
    /\ checksum' = IF res[t] = "false" THEN checksum
                   ELSE IF op[t] = "insert" THEN checksum + key[t]
                   ELSE checksum - key[t]
    /\ Goto(t, "idle")
    /\ op' = [op EXCEPT ![t] = "none"]
    /\ key' = [key EXCEPT ![t] = EMPTY]
    /\ i' = [i EXCEPT ![t] = 0]
    /\ res' = [res EXCEPT ![t] = "pending"]
    /\ UNCHANGED data

ProbeInit ==
    /\ data = [s \in Slots |-> EMPTY]
    /\ pc = [t \in Threads |-> "idle"]
    /\ op = [t \in Threads |-> "none"]
    /\ key = [t \in Threads |-> EMPTY]
    /\ i = [t \in Threads |-> 0]
    /\ res = [t \in Threads |-> "pending"]
    /\ checksum = 0

\* The whole-table sum the benchmark compares with the checksum at the end.
SumOfKeys ==
    LET total[s \in 0 .. Capacity] ==
            IF s = 0 THEN 0 ELSE total[s - 1] + (IF data[s - 1] > 0 THEN data[s - 1] ELSE 0)
    IN total[Capacity]

\* The call's status as its caller sees it, for the refinement to SetObject.
\* A thread about to write knows its answer, but nothing has happened yet.
Status == [t \in Threads |-> IF pc[t] = "idle" THEN "idle"
                             ELSE IF pc[t] = "write" THEN "pending" ELSE res[t]]

-----------------------------------------------------------------------------
ProbeTypeOK ==
    /\ data \in [Slots -> Keys \cup {EMPTY, TOMBSTONE}]
    /\ op \in [Threads -> {"none", "insert", "erase"}]
    /\ key \in [Threads -> Keys \cup {EMPTY}]
    /\ i \in [Threads -> Positions]
    /\ res \in [Threads -> {"pending", "true", "false"}]
    /\ checksum \in Int

\* No key is ever in two slots, however many threads insert it at once
\* (alg_a.h:53-73, alg_b.h:51-81, alg_c.h:43-62).
KeysAreUnique ==
    \A r, s \in Slots : data[r] = data[s] /\ data[r] \in Keys => r = s

\* Every key in the table is found by a probe from its hash: no EMPTY slot lies
\* before it, where searches stop (alg_a.h:88, alg_b.h:99, alg_c.h:72).
KeysAreReachable ==
    \A s \in Slots : data[s] \in Keys =>
        \E j \in Positions :
            /\ Slot(data[s], j) = s
            /\ \A l \in 0 .. j - 1 : data[Slot(data[s], l)] # EMPTY

\* benchmark.cpp:186: when the threads have stopped, the sum of the keys in the
\* table is the sum of the keys they were told they inserted, less those erased.
ChecksumAgrees ==
    (\A t \in Threads : pc[t] = "idle") => SumOfKeys = checksum

\* A thread that has passed a slot may forget it: a slot never becomes EMPTY
\* again and a TOMBSTONE is final (alg_a.h:86, alg_b.h:96, alg_c.h:76).
SlotsOnlyAge ==
    [][\A s \in Slots :
          /\ data[s] # EMPTY => data'[s] \in {data[s], TOMBSTONE}
          /\ data[s] = EMPTY => data'[s] # TOMBSTONE]_data
=============================================================================
