------------------------------ MODULE AlgorithmB ------------------------------
(***************************************************************************)
(* a4/alg_b.h: a slot is read without its lock, and locked and read again  *)
(* only when the first reading says it may have to be written.             *)
(***************************************************************************)
EXTENDS SlotLocks

BRead(t) ==
    /\ At(t, "probe")
    /\ LET found == data[Here(t)] IN
       \/ /\ found = IF op[t] = "insert" THEN EMPTY ELSE key[t]
          /\ Answer(t, "lock", "pending")
       \/ /\ found = IF op[t] = "insert" THEN key[t] ELSE EMPTY
          /\ Answer(t, "return", "false")
       \/ /\ found \notin {key[t], EMPTY}
          /\ NextSlot(t, "probe")
    /\ UNCHANGED <<data, op, key, checksum, lock>>

BLock(t) == LockSlot(t, "lock", "recheck")

\* Mutant: the slot is written without being read again under the lock.
BRecheckInsertSkipped(t) ==
    /\ At(t, "recheck") /\ op[t] = "insert"
    /\ Answer(t, "write", "true")
    /\ UNCHANGED <<data, op, key, checksum, lock>>

BRecheckInsert(t) ==
    /\ At(t, "recheck") /\ op[t] = "insert"
    /\ LET found == data[Here(t)] IN
       \/ found = key[t] /\ Answer(t, "unlock", "false")
       \/ found = EMPTY /\ Answer(t, "write", "true")
       \/ found \notin {key[t], EMPTY} /\ Answer(t, "unlock", "pending")
    /\ UNCHANGED <<data, op, key, checksum, lock>>

\* Mutant: erase returns true once it has written the TOMBSTONE.
BRecheckEraseSkipped(t) ==
    /\ At(t, "recheck") /\ op[t] = "erase"
    /\ Answer(t, "write", "true")
    /\ UNCHANGED <<data, op, key, checksum, lock>>

\* The answer is actuallyRenamed; the TOMBSTONE is written whatever it is.
BRecheckErase(t) ==
    /\ At(t, "recheck") /\ op[t] = "erase"
    /\ Answer(t, "write", IF data[Here(t)] = key[t] THEN "true" ELSE "false")
    /\ UNCHANGED <<data, op, key, checksum, lock>>

BStep(t) == BRead(t) \/ BLock(t) \/ BRecheckInsert(t) \/ BRecheckErase(t)
            \/ WriteSlot(t) \/ UnlockSlot(t)
=============================================================================
