------------------------------ MODULE AlgorithmC ------------------------------
(***************************************************************************)
(* a4/alg_c.h: the lock-free table.  A slot is read, and changed only by   *)
(* compare_exchange_strong.                                                *)
(***************************************************************************)
EXTENDS ProbeTable

\* Mutant: a plain store in place of the CAS.
CInsertCASPlainStore(t) ==
    /\ At(t, "cas") /\ op[t] = "insert"
    /\ data' = [data EXCEPT ![Here(t)] = key[t]]
    /\ Answer(t, "return", "true")
    /\ UNCHANGED <<op, key, checksum>>

CInsertRead(t) ==
    /\ At(t, "probe") /\ op[t] = "insert"
    /\ LET found == data[Here(t)] IN
       \/ found = key[t] /\ Answer(t, "return", "false")
       \/ found = EMPTY /\ Goto(t, "cas") /\ UNCHANGED <<i, res>>
       \/ found \notin {key[t], EMPTY} /\ NextSlot(t, "probe")
    /\ UNCHANGED <<data, op, key, checksum>>

\* Mutant: a lost CAS is taken for "already there".
CInsertCASGivesUp(t) ==
    /\ At(t, "cas") /\ op[t] = "insert"
    /\ \/ /\ data[Here(t)] = EMPTY
          /\ data' = [data EXCEPT ![Here(t)] = key[t]]
          /\ Answer(t, "return", "true")
       \/ /\ data[Here(t)] # EMPTY
          /\ Answer(t, "return", "false")
          /\ UNCHANGED data
    /\ UNCHANGED <<op, key, checksum>>

\* On failure `expected` holds what the slot contained.
CInsertCAS(t) ==
    /\ At(t, "cas") /\ op[t] = "insert"
    /\ \/ /\ data[Here(t)] = EMPTY
          /\ data' = [data EXCEPT ![Here(t)] = key[t]]
          /\ Answer(t, "return", "true")
       \/ /\ data[Here(t)] = key[t]
          /\ Answer(t, "return", "false")
          /\ UNCHANGED data
       \/ /\ data[Here(t)] \notin {EMPTY, key[t]}
          /\ NextSlot(t, "probe")
          /\ UNCHANGED data
    /\ UNCHANGED <<op, key, checksum>>

CEraseRead(t) ==
    /\ At(t, "probe") /\ op[t] = "erase"
    /\ LET found == data[Here(t)] IN
       \/ found = EMPTY /\ Answer(t, "return", "false")
       \/ found = key[t] /\ Goto(t, "cas") /\ UNCHANGED <<i, res>>
       \/ found \notin {key[t], EMPTY} /\ NextSlot(t, "probe")
    /\ UNCHANGED <<data, op, key, checksum>>

CEraseCAS(t) ==
    /\ At(t, "cas") /\ op[t] = "erase"
    /\ \/ /\ data[Here(t)] = key[t]
          /\ data' = [data EXCEPT ![Here(t)] = TOMBSTONE]
          /\ Answer(t, "return", "true")
       \/ /\ data[Here(t)] # key[t]
          /\ Answer(t, "return", "false")
          /\ UNCHANGED data
    /\ UNCHANGED <<op, key, checksum>>

CStep(t) == CInsertRead(t) \/ CInsertCAS(t) \/ CEraseRead(t) \/ CEraseCAS(t)
=============================================================================
