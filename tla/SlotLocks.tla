------------------------------ MODULE SlotLocks ------------------------------
(***************************************************************************)
(* The lockedKey slots of alg_a.h and alg_b.h: a key and the mutex that    *)
(* guards it.                                                              *)
(***************************************************************************)
EXTENDS ProbeTable

CONSTANT NoThread   \* the owner of a free mutex

ASSUME NoThreadAssumption == NoThread \notin Threads

VARIABLE lock       \* lock[s]: the thread that holds data[s].m

lockVars == <<data, pc, op, key, i, res, checksum, lock>>

\* data[index].m.lock(), from one label to the next.
LockSlot(t, from, to) ==
    /\ At(t, from)
    /\ lock[Here(t)] = NoThread
    /\ lock' = [lock EXCEPT ![Here(t)] = t]
    /\ Goto(t, to)
    /\ UNCHANGED <<data, op, key, i, res, checksum>>

\* Mutant: erase frees the slot instead of leaving a TOMBSTONE.
WriteSlotFrees(t) ==
    /\ At(t, "write")
    /\ data' = [data EXCEPT ![Here(t)] = IF op[t] = "insert" THEN key[t] ELSE EMPTY]
    /\ Goto(t, "unlock")
    /\ UNCHANGED <<op, key, i, res, checksum, lock>>

\* Under the lock: the key goes in, or a TOMBSTONE over whatever is there.
WriteSlot(t) ==
    /\ At(t, "write")
    /\ data' = [data EXCEPT ![Here(t)] = IF op[t] = "insert" THEN key[t] ELSE TOMBSTONE]
    /\ Goto(t, "unlock")
    /\ UNCHANGED <<op, key, i, res, checksum, lock>>

\* Mutant: the early returns forget to unlock.
UnlockSlotForgotten(t) ==
    /\ At(t, "unlock")
    /\ \/ res[t] # "pending" /\ Answer(t, "return", res[t]) /\ UNCHANGED lock
       \/ /\ res[t] = "pending" /\ NextSlot(t, "probe")
          /\ lock' = [lock EXCEPT ![Here(t)] = NoThread]
    /\ UNCHANGED <<data, op, key, checksum>>

\* data[index].m.unlock(), then return the answer or go on probing.
UnlockSlot(t) ==
    /\ At(t, "unlock")
    /\ lock' = [lock EXCEPT ![Here(t)] = NoThread]
    /\ \/ res[t] # "pending" /\ Answer(t, "return", res[t])
       \/ res[t] = "pending" /\ NextSlot(t, "probe")
    /\ UNCHANGED <<data, op, key, checksum>>
=============================================================================
