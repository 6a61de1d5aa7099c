------------------------------ MODULE AlgorithmA ------------------------------
(***************************************************************************)
(* a4/alg_a.h: every slot is locked before it is looked at.                *)
(***************************************************************************)
EXTENDS SlotLocks

ALock(t) == LockSlot(t, "probe", "read")

ARead(t) ==
    /\ At(t, "read")
    /\ LET found == data[Here(t)] IN
       \/ /\ found = IF op[t] = "insert" THEN EMPTY ELSE key[t]
          /\ Answer(t, "write", "true")
       \/ /\ found = IF op[t] = "insert" THEN key[t] ELSE EMPTY
          /\ Answer(t, "unlock", "false")
       \/ /\ found \notin {key[t], EMPTY}
          /\ Answer(t, "unlock", "pending")
    /\ UNCHANGED <<data, op, key, checksum, lock>>

AStep(t) == ALock(t) \/ ARead(t) \/ WriteSlot(t) \/ UnlockSlot(t)
=============================================================================
