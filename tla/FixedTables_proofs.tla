-------------------------- MODULE FixedTables_proofs --------------------------
(***************************************************************************)
(* Proofs about FixedTables, for any threads, keys, capacity and hash.     *)
(*                                                                         *)
(* Uniqueness of a key rests on what a prober knows of the slots it has    *)
(* left behind: none is EMPTY and none holds its key.  That stays true     *)
(* because slots only age.  The step that changes data is one of three     *)
(* (DataStep); what follows from it is proved once, for all algorithms.    *)
(*                                                                         *)
(* The second part: every step of a call is a step of SetObject, or none.  *)
(* An answer that changes nothing is right about the very instant at which *)
(* the slot is read (Absent, Present), except where erase has to look      *)
(* twice.  Then its key was there the first time, and if it is gone the    *)
(* second time it went away during the call (SeenInv).                     *)
(*                                                                         *)
(* The third part: the sum of the table is the checksum and what the       *)
(* calls under way owe it (Balance).                                       *)
(***************************************************************************)
EXTENDS FixedTables, WellFoundedInduction, TLAPS

Holding == {"read", "recheck", "write", "unlock"}

\* The slots t has probed and left behind.
Passed(t) == \A j \in 0 .. i[t] - 1 : data[Slot(key[t], j)] \notin {EMPTY, key[t]}

ThreadInv(t) ==
    /\ pc[t] # "idle" => op[t] \in {"insert", "erase"} /\ key[t] \in Keys
    /\ pc[t] = "idle" => i[t] = 0
    /\ pc[t] \in Holding => lock[Here(t)] = t
    /\ pc[t] \notin {"idle", "return"} => Passed(t)
    /\ pc[t] = "write" /\ op[t] = "insert" => data[Here(t)] = EMPTY
    /\ pc[t] \in {"lock", "recheck", "write"} /\ op[t] = "erase"
          => data[Here(t)] \in {key[t], TOMBSTONE}
    /\ pc[t] = "unlock" /\ res[t] = "pending" => data[Here(t)] \notin {EMPTY, key[t]}
    /\ pc[t] = "write" => res[t] # "pending"
    /\ alg = "C" => pc[t] \in {"idle", "probe", "cas", "return"}
    /\ alg # "C" => pc[t] # "cas"

IInv ==
    /\ TypeOK
    /\ \A t \in Threads : ThreadInv(t)
    /\ KeysAreUnique
    /\ KeysAreReachable

\* What a step of thread t may do to the array.
DataStep(t) ==
    \/ data' = data
    \/ /\ key[t] \in Keys /\ data[Here(t)] = EMPTY
       /\ Passed(t)
       /\ data' = [data EXCEPT ![Here(t)] = key[t]]
    \/ /\ key[t] \in Keys /\ data[Here(t)] \in {key[t], TOMBSTONE}
       /\ data' = [data EXCEPT ![Here(t)] = TOMBSTONE]

Ages == \A s \in Slots :
            /\ data[s] # EMPTY => data'[s] \in {data[s], TOMBSTONE}
            /\ data[s] = EMPTY => data'[s] # TOMBSTONE

-----------------------------------------------------------------------------
\* The slot a probe visits exists.
LEMMA SlotInRange == \A k \in Keys, j \in Positions : Slot(k, j) \in Slots
<1> SUFFICES ASSUME NEW k \in Keys, NEW j \in Positions PROVE Slot(k, j) \in Slots
  OBVIOUS
<1>1. Hash[k] \in Nat /\ HashRange \in Nat \ {0} /\ Capacity \in Nat \ {0} /\ j \in Nat
  BY HashAssumption, CapacityAssumption DEF Positions
<1>2. (Hash[k] + j) % HashRange \in Nat
  BY <1>1
<1>3. QED BY <1>1, <1>2 DEF Slot, Slots

\* EMPTY and TOMBSTONE are not keys.
LEMMA Sentinels == EMPTY \notin Keys /\ TOMBSTONE \notin Keys /\ EMPTY # TOMBSTONE
BY KeysAssumption DEF EMPTY, TOMBSTONE

\* A thread inside a call stands on a slot.
LEMMA HereInRange ==
    ASSUME TypeOK, NEW t \in Threads, key[t] \in Keys
    PROVE  Here(t) \in Slots
BY SlotInRange DEF TypeOK, ProbeTypeOK, Here

\* Whatever a thread does, slots only age.
LEMMA DataStepAges ==
    ASSUME TypeOK, NEW t \in Threads, DataStep(t)
    PROVE  Ages
<1>1. data' = data \/ Here(t) \in Slots
  BY HereInRange DEF DataStep
<1>2. data \in [Slots -> Keys \cup {EMPTY, TOMBSTONE}]
  BY DEF TypeOK, ProbeTypeOK
<1>3. QED BY <1>1, <1>2, Sentinels DEF DataStep, Ages

\* A key goes into the first EMPTY slot of its probe, so it is in no other slot, and
\* a search reaches it.
LEMMA DataStepKeepsTable ==
    ASSUME TypeOK, NEW t \in Threads, DataStep(t),
           KeysAreUnique, KeysAreReachable
    PROVE  KeysAreUnique' /\ KeysAreReachable'
<1> DEFINE h == Here(t)
<1>2. CASE data' = data
  BY <1>2 DEF KeysAreUnique, KeysAreReachable
<1> SUFFICES ASSUME key[t] \in Keys PROVE KeysAreUnique' /\ KeysAreReachable'
  BY <1>2 DEF DataStep
<1>1. h \in Slots /\ data \in [Slots -> Keys \cup {EMPTY, TOMBSTONE}] /\ i[t] \in Positions
  BY HereInRange DEF TypeOK, ProbeTypeOK
<1>3. CASE /\ data[h] = EMPTY
           /\ Passed(t)
           /\ data' = [data EXCEPT ![h] = key[t]]
  <2>1. \A s \in Slots : data[s] # key[t]
    <3> SUFFICES ASSUME NEW s \in Slots, data[s] = key[t] PROVE FALSE
      OBVIOUS
    <3>1. PICK j \in Positions : /\ Slot(key[t], j) = s
                                 /\ \A l \in 0 .. j - 1 : data[Slot(key[t], l)] # EMPTY
      BY DEF KeysAreReachable
    <3>2. j # i[t]
      BY <3>1, <1>3, Sentinels DEF Here
    <3>3. ~(j < i[t])
      BY <3>1, <1>3, <1>1, CapacityAssumption DEF Passed, Positions
    <3>4. ~(i[t] < j)
      BY <3>1, <1>3, <1>1 DEF Here, Positions
    <3> QED BY <3>2, <3>3, <3>4, <1>1 DEF Positions
  <2>2. KeysAreUnique'
    BY <2>1, <1>1, <1>3 DEF KeysAreUnique
  <2>3. KeysAreReachable'
    <3> SUFFICES ASSUME NEW s \in Slots, data'[s] \in Keys
                 PROVE  \E j \in Positions :
                          /\ Slot(data'[s], j) = s
                          /\ \A l \in 0 .. j - 1 : data'[Slot(data'[s], l)] # EMPTY
      BY DEF KeysAreReachable
    <3>1. \A r \in Slots : data[r] # EMPTY => data'[r] # EMPTY
      BY <1>1, <1>3, Sentinels
    <3>2. CASE s = h
      <4>1. data'[s] = key[t] /\ Slot(data'[s], i[t]) = s
        BY <3>2, <1>1, <1>3 DEF Here
      <4>2. \A l \in 0 .. i[t] - 1 : /\ l \in Positions
                                     /\ data[Slot(key[t], l)] # EMPTY
        BY <1>1, <1>3, CapacityAssumption DEF Passed, Positions
      <4>3. \A l \in 0 .. i[t] - 1 : data'[Slot(key[t], l)] # EMPTY
        BY <4>2, <3>1, SlotInRange
      <4> QED BY <4>1, <4>3, <1>1
    <3>3. CASE s # h
      <4>1. data'[s] = data[s]
        BY <3>3, <1>1, <1>3
      <4>2. PICK j \in Positions : /\ Slot(data[s], j) = s
                                   /\ \A l \in 0 .. j - 1 : data[Slot(data[s], l)] # EMPTY
        BY <4>1 DEF KeysAreReachable
      <4>3. \A l \in 0 .. j - 1 : data'[Slot(data[s], l)] # EMPTY
        BY <4>1, <4>2, <3>1, SlotInRange, CapacityAssumption DEF Positions
      <4> QED BY <4>1, <4>2, <4>3
    <3> QED BY <3>2, <3>3
  <2> QED BY <2>2, <2>3
<1>4. CASE data' = [data EXCEPT ![h] = TOMBSTONE]
  <2>1. \A s \in Slots : data'[s] \in Keys => data'[s] = data[s] /\ s # h
    BY <1>1, <1>4, Sentinels
  <2>2. KeysAreUnique'
    BY <2>1, <1>1 DEF KeysAreUnique
  <2>3. \A r \in Slots : data[r] # EMPTY => data'[r] # EMPTY
    BY <1>1, <1>4, Sentinels
  <2>4. KeysAreReachable'
    <3> SUFFICES ASSUME NEW s \in Slots, data'[s] \in Keys
                 PROVE  \E j \in Positions :
                          /\ Slot(data'[s], j) = s
                          /\ \A l \in 0 .. j - 1 : data'[Slot(data'[s], l)] # EMPTY
      BY DEF KeysAreReachable
    <3>1. data'[s] = data[s]
      BY <2>1
    <3>2. PICK j \in Positions : /\ Slot(data[s], j) = s
                                 /\ \A l \in 0 .. j - 1 : data[Slot(data[s], l)] # EMPTY
      BY <3>1 DEF KeysAreReachable
    <3>3. \A l \in 0 .. j - 1 : data'[Slot(data[s], l)] # EMPTY
      BY <3>1, <3>2, <2>3, SlotInRange, CapacityAssumption DEF Positions
    <3> QED BY <3>1, <3>2, <3>3
  <2> QED BY <2>2, <2>4
<1> QED BY <1>2, <1>3, <1>4 DEF DataStep

-----------------------------------------------------------------------------
\* What a step of t leaves to the other threads: their registers and their locks,
\* and the slots they have locked.
Frame(t) ==
    /\ \A u \in Threads \ {t} : /\ pc'[u] = pc[u] /\ op'[u] = op[u] /\ key'[u] = key[u]
                                /\ i'[u] = i[u] /\ res'[u] = res[u]
    /\ \A s \in Slots, u \in Threads \ {t} : lock[s] = u => lock'[s] = u
    /\ alg # "C" => \A s \in Slots : lock[s] \in Threads \ {t} => data'[s] = data[s]
    /\ alg' = alg

\* The invariant of a thread survives the steps of the others.
LEMMA OthersKeepInv ==
    ASSUME IInv, NEW t \in Threads, NEW u \in Threads \ {t},
           DataStep(t), Frame(t)
    PROVE  ThreadInv(u)'
<1> DEFINE h == Here(u)
<1>1. ThreadInv(u) /\ TypeOK
  BY DEF IInv
<1>2. Here(u)' = h /\ pc'[u] = pc[u] /\ op'[u] = op[u] /\ key'[u] = key[u]
      /\ i'[u] = i[u] /\ res'[u] = res[u] /\ alg' = alg
  BY DEF Frame, Here
<1>3. Ages
  BY <1>1, DataStepAges
<1>4. CASE pc[u] = "idle"
  BY <1>1, <1>2, <1>4 DEF ThreadInv, Holding
<1>5. CASE pc[u] # "idle"
  <2>1. key[u] \in Keys /\ h \in Slots
    BY <1>1, <1>5, HereInRange DEF ThreadInv
  <2>2. pc[u] \notin {"idle", "return"} => Passed(u)'
    <3> SUFFICES ASSUME Passed(u), NEW j \in 0 .. i[u] - 1
                 PROVE  data'[Slot(key[u], j)] \notin {EMPTY, key[u]}
      BY <1>1, <1>2 DEF ThreadInv, Passed
    <3>1. Slot(key[u], j) \in Slots
      BY <1>1, <2>1, SlotInRange, CapacityAssumption DEF TypeOK, ProbeTypeOK, Positions
    <3>2. data[Slot(key[u], j)] \notin {EMPTY, key[u]}
      BY DEF Passed
    <3> QED BY <3>1, <3>2, <1>3, <2>1, Sentinels DEF Ages
  <2>3. pc[u] \in Holding => lock'[h] = u
    BY <1>1, <2>1 DEF ThreadInv, Frame
  <2>4. pc[u] = "write" /\ op[u] = "insert" => data'[h] = EMPTY
    <3> SUFFICES ASSUME pc[u] = "write", op[u] = "insert" PROVE data'[h] = EMPTY
      OBVIOUS
    <3>1. alg # "C" /\ lock[h] = u /\ data[h] = EMPTY
      BY <1>1 DEF ThreadInv, Holding
    <3> QED BY <3>1, <2>1 DEF Frame
  <2>5. data[h] \in {key[u], TOMBSTONE} => data'[h] \in {key[u], TOMBSTONE}
    BY <1>3, <2>1, Sentinels DEF Ages
  <2>6. data[h] \notin {EMPTY, key[u]} => data'[h] \notin {EMPTY, key[u]}
    BY <1>3, <2>1, Sentinels DEF Ages
  <2> QED BY <1>1, <1>2, <1>5, <2>1, <2>2, <2>3, <2>4, <2>5, <2>6 DEF ThreadInv
<1> QED BY <1>4, <1>5

-----------------------------------------------------------------------------
\* The steps, one by one: each keeps the types and its own thread's invariant, and
\* is a DataStep within its Frame.
Facts(t) == TypeOK' /\ DataStep(t) /\ Frame(t) /\ ThreadInv(t)'

LEMMA StepFacts ==
    ASSUME IInv, NEW t \in Threads, Start(t) \/ Work(t)
    PROVE  Facts(t)
<1> DEFINE h == Here(t)
<1>1. TypeOK /\ ThreadInv(t) /\ alg' = alg
  BY DEF IInv, Start, Work, Record
<1>2. seen' \in [Threads -> SUBSET BOOLEAN]
  <2>1. \A u \in Threads : Witness(u) \in SUBSET BOOLEAN
    <3> TAKE u \in Threads
    <3> DEFINE now == key'[u] \in Contents'
    <3>1. now \in BOOLEAN
      OBVIOUS
    <3>2. seen[u] \in SUBSET BOOLEAN
      BY <1>1 DEF TypeOK
    <3>3. Witness(u) = IF pc'[u] = "idle" THEN {}
                       ELSE (IF pc[u] = "idle" THEN {} ELSE seen[u]) \cup {now}
      BY DEF Witness
    <3> HIDE DEF now
    <3> QED BY <3>1, <3>2, <3>3, Zenon
  <2> QED BY <2>1 DEF Start, Work, Record
<1>3. pc[t] # "idle" => key[t] \in Keys /\ h \in Slots /\ op[t] \in {"insert", "erase"}
  BY <1>1, HereInRange DEF ThreadInv
<1>5. CASE Call(t) /\ UNCHANGED lock
  <2>1. TypeOK'
    BY <1>1, <1>2, <1>3, <1>5, CapacityAssumption, KeysAssumption
    DEF TypeOK, ProbeTypeOK, Positions, EMPTY, TOMBSTONE, Call, Answer, NextSlot, Goto, At
  <2>2. DataStep(t)
    BY <1>1, <1>3, <1>5, Sentinels DEF DataStep, ThreadInv, Call, Answer, NextSlot, Goto, At
  <2>3. Frame(t)
    BY <1>1, <1>3, <1>5, NoThreadAssumption DEF Frame, ThreadInv, Holding, TypeOK, ProbeTypeOK, Call, Answer, NextSlot, Goto, At
  <2>4. ThreadInv(t)'
    BY <1>1, <1>3, <1>5, Sentinels, CapacityAssumption
    DEF ThreadInv, Passed, Here, Holding, TypeOK, ProbeTypeOK, Positions, Call, Answer, NextSlot, Goto, At
  <2> QED BY <2>1, <2>2, <2>3, <2>4 DEF Facts
<1>6. CASE Return(t) /\ UNCHANGED lock
  <2>1. TypeOK'
    BY <1>1, <1>2, <1>3, <1>6, CapacityAssumption, KeysAssumption
    DEF TypeOK, ProbeTypeOK, Positions, EMPTY, TOMBSTONE, Return, Answer, NextSlot, Goto, At
  <2>2. DataStep(t)
    BY <1>1, <1>3, <1>6, Sentinels DEF DataStep, ThreadInv, Return, Answer, NextSlot, Goto, At
  <2>3. Frame(t)
    BY <1>1, <1>3, <1>6, NoThreadAssumption DEF Frame, ThreadInv, Holding, TypeOK, ProbeTypeOK, Return, Answer, NextSlot, Goto, At
  <2>4. ThreadInv(t)'
    BY <1>1, <1>3, <1>6, Sentinels, CapacityAssumption
    DEF ThreadInv, Passed, Here, Holding, TypeOK, ProbeTypeOK, Positions, Return, Answer, NextSlot, Goto, At
  <2> QED BY <2>1, <2>2, <2>3, <2>4 DEF Facts
<1>7. CASE alg = "A" /\ ALock(t) 
  <2>1. TypeOK'
    BY <1>1, <1>2, <1>3, <1>7, CapacityAssumption, KeysAssumption
    DEF TypeOK, ProbeTypeOK, Positions, EMPTY, TOMBSTONE, ALock, LockSlot, Answer, NextSlot, Goto, At
  <2>2. DataStep(t)
    BY <1>1, <1>3, <1>7, Sentinels DEF DataStep, ThreadInv, ALock, LockSlot, Answer, NextSlot, Goto, At
  <2>3. Frame(t)
    BY <1>1, <1>3, <1>7, NoThreadAssumption DEF Frame, ThreadInv, Holding, TypeOK, ProbeTypeOK, ALock, LockSlot, Answer, NextSlot, Goto, At
  <2>4. ThreadInv(t)'
    BY <1>1, <1>3, <1>7, Sentinels, CapacityAssumption
    DEF ThreadInv, Passed, Here, Holding, TypeOK, ProbeTypeOK, Positions, ALock, LockSlot, Answer, NextSlot, Goto, At
  <2> QED BY <2>1, <2>2, <2>3, <2>4 DEF Facts
<1>8. CASE alg = "A" /\ ARead(t) 
  <2>1. TypeOK'
    BY <1>1, <1>2, <1>3, <1>8, CapacityAssumption, KeysAssumption
    DEF TypeOK, ProbeTypeOK, Positions, EMPTY, TOMBSTONE, ARead, Answer, NextSlot, Goto, At
  <2>2. DataStep(t)
    BY <1>1, <1>3, <1>8, Sentinels DEF DataStep, ThreadInv, ARead, Answer, NextSlot, Goto, At
  <2>3. Frame(t)
    BY <1>1, <1>3, <1>8, NoThreadAssumption DEF Frame, ThreadInv, Holding, TypeOK, ProbeTypeOK, ARead, Answer, NextSlot, Goto, At
  <2>4. ThreadInv(t)'
    BY <1>1, <1>3, <1>8, Sentinels, CapacityAssumption
    DEF ThreadInv, Passed, Here, Holding, TypeOK, ProbeTypeOK, Positions, ARead, Answer, NextSlot, Goto, At
  <2> QED BY <2>1, <2>2, <2>3, <2>4 DEF Facts
<1>9. CASE alg # "C" /\ WriteSlot(t) 
  <2>1. TypeOK'
    BY <1>1, <1>2, <1>3, <1>9, CapacityAssumption, KeysAssumption
    DEF TypeOK, ProbeTypeOK, Positions, EMPTY, TOMBSTONE, WriteSlot, Answer, NextSlot, Goto, At
  <2>2. DataStep(t)
    BY <1>1, <1>3, <1>9, Sentinels DEF DataStep, ThreadInv, WriteSlot, Answer, NextSlot, Goto, At
  <2>3. Frame(t)
    BY <1>1, <1>3, <1>9, NoThreadAssumption DEF Frame, ThreadInv, Holding, TypeOK, ProbeTypeOK, WriteSlot, Answer, NextSlot, Goto, At
  <2>4. Passed(t)'
    <3> SUFFICES ASSUME NEW j \in 0 .. i[t] - 1
                 PROVE  data'[Slot(key[t], j)] \notin {EMPTY, key[t]}
      BY <1>9 DEF Passed, WriteSlot
    <3>1. key[t] \in Keys /\ data[Slot(key[t], j)] \notin {EMPTY, key[t]}
      BY <1>1, <1>3, <1>9 DEF ThreadInv, Passed, WriteSlot, At
    <3>2. Slot(key[t], j) \in Slots
      BY <1>1, <3>1, SlotInRange, CapacityAssumption DEF TypeOK, ProbeTypeOK, Positions
    <3> QED BY <1>1, <2>2, <3>1, <3>2, DataStepAges, Sentinels DEF Ages
  <2>5. ThreadInv(t)'
    BY <1>1, <1>3, <1>9, <2>4, Sentinels
    DEF ThreadInv, Here, Holding, TypeOK, ProbeTypeOK, WriteSlot, Goto, At
  <2> QED BY <2>1, <2>2, <2>3, <2>5 DEF Facts
<1>10. CASE alg # "C" /\ UnlockSlot(t) 
  <2>1. TypeOK'
    BY <1>1, <1>2, <1>3, <1>10, CapacityAssumption, KeysAssumption
    DEF TypeOK, ProbeTypeOK, Positions, EMPTY, TOMBSTONE, UnlockSlot, Answer, NextSlot, Goto, At
  <2>2. DataStep(t)
    BY <1>1, <1>3, <1>10, Sentinels DEF DataStep, ThreadInv, UnlockSlot, Answer, NextSlot, Goto, At
  <2>3. Frame(t)
    BY <1>1, <1>3, <1>10, NoThreadAssumption DEF Frame, ThreadInv, Holding, TypeOK, ProbeTypeOK, UnlockSlot, Answer, NextSlot, Goto, At
  <2>4. ThreadInv(t)'
    BY <1>1, <1>3, <1>10, Sentinels, CapacityAssumption
    DEF ThreadInv, Passed, Here, Holding, TypeOK, ProbeTypeOK, Positions, UnlockSlot, Answer, NextSlot, Goto, At
  <2> QED BY <2>1, <2>2, <2>3, <2>4 DEF Facts
<1>11. CASE alg = "B" /\ BRead(t) 
  <2>1. TypeOK'
    BY <1>1, <1>2, <1>3, <1>11, CapacityAssumption, KeysAssumption
    DEF TypeOK, ProbeTypeOK, Positions, EMPTY, TOMBSTONE, BRead, Answer, NextSlot, Goto, At
  <2>2. DataStep(t)
    BY <1>1, <1>3, <1>11, Sentinels DEF DataStep, ThreadInv, BRead, Answer, NextSlot, Goto, At
  <2>3. Frame(t)
    BY <1>1, <1>3, <1>11, NoThreadAssumption DEF Frame, ThreadInv, Holding, TypeOK, ProbeTypeOK, BRead, Answer, NextSlot, Goto, At
  <2>4. ThreadInv(t)'
    BY <1>1, <1>3, <1>11, Sentinels, CapacityAssumption
    DEF ThreadInv, Passed, Here, Holding, TypeOK, ProbeTypeOK, Positions, BRead, Answer, NextSlot, Goto, At
  <2> QED BY <2>1, <2>2, <2>3, <2>4 DEF Facts
<1>12. CASE alg = "B" /\ BLock(t) 
  <2>1. TypeOK'
    BY <1>1, <1>2, <1>3, <1>12, CapacityAssumption, KeysAssumption
    DEF TypeOK, ProbeTypeOK, Positions, EMPTY, TOMBSTONE, BLock, LockSlot, Answer, NextSlot, Goto, At
  <2>2. DataStep(t)
    BY <1>1, <1>3, <1>12, Sentinels DEF DataStep, ThreadInv, BLock, LockSlot, Answer, NextSlot, Goto, At
  <2>3. Frame(t)
    BY <1>1, <1>3, <1>12, NoThreadAssumption DEF Frame, ThreadInv, Holding, TypeOK, ProbeTypeOK, BLock, LockSlot, Answer, NextSlot, Goto, At
  <2>4. ThreadInv(t)'
    BY <1>1, <1>3, <1>12, Sentinels, CapacityAssumption
    DEF ThreadInv, Passed, Here, Holding, TypeOK, ProbeTypeOK, Positions, BLock, LockSlot, Answer, NextSlot, Goto, At
  <2> QED BY <2>1, <2>2, <2>3, <2>4 DEF Facts
<1>13. CASE alg = "B" /\ BRecheckInsert(t) 
  <2>1. TypeOK'
    BY <1>1, <1>2, <1>3, <1>13, CapacityAssumption, KeysAssumption
    DEF TypeOK, ProbeTypeOK, Positions, EMPTY, TOMBSTONE, BRecheckInsert, Answer, NextSlot, Goto, At
  <2>2. DataStep(t)
    BY <1>1, <1>3, <1>13, Sentinels DEF DataStep, ThreadInv, BRecheckInsert, Answer, NextSlot, Goto, At
  <2>3. Frame(t)
    BY <1>1, <1>3, <1>13, NoThreadAssumption DEF Frame, ThreadInv, Holding, TypeOK, ProbeTypeOK, BRecheckInsert, Answer, NextSlot, Goto, At
  <2>4. ThreadInv(t)'
    BY <1>1, <1>3, <1>13, Sentinels, CapacityAssumption
    DEF ThreadInv, Passed, Here, Holding, TypeOK, ProbeTypeOK, Positions, BRecheckInsert, Answer, NextSlot, Goto, At
  <2> QED BY <2>1, <2>2, <2>3, <2>4 DEF Facts
<1>14. CASE alg = "B" /\ BRecheckErase(t) 
  <2>1. TypeOK'
    BY <1>1, <1>2, <1>3, <1>14, CapacityAssumption, KeysAssumption
    DEF TypeOK, ProbeTypeOK, Positions, EMPTY, TOMBSTONE, BRecheckErase, Answer, NextSlot, Goto, At
  <2>2. DataStep(t)
    BY <1>1, <1>3, <1>14, Sentinels DEF DataStep, ThreadInv, BRecheckErase, Answer, NextSlot, Goto, At
  <2>3. Frame(t)
    BY <1>1, <1>3, <1>14, NoThreadAssumption DEF Frame, ThreadInv, Holding, TypeOK, ProbeTypeOK, BRecheckErase, Answer, NextSlot, Goto, At
  <2>4. ThreadInv(t)'
    BY <1>1, <1>3, <1>14, Sentinels, CapacityAssumption
    DEF ThreadInv, Passed, Here, Holding, TypeOK, ProbeTypeOK, Positions, BRecheckErase, Answer, NextSlot, Goto, At
  <2> QED BY <2>1, <2>2, <2>3, <2>4 DEF Facts
<1>15. CASE alg = "C" /\ CInsertRead(t) /\ UNCHANGED lock
  <2>1. TypeOK'
    BY <1>1, <1>2, <1>3, <1>15, CapacityAssumption, KeysAssumption
    DEF TypeOK, ProbeTypeOK, Positions, EMPTY, TOMBSTONE, CInsertRead, Answer, NextSlot, Goto, At
  <2>2. DataStep(t)
    BY <1>1, <1>3, <1>15, Sentinels DEF DataStep, ThreadInv, CInsertRead, Answer, NextSlot, Goto, At
  <2>3. Frame(t)
    BY <1>1, <1>3, <1>15, NoThreadAssumption DEF Frame, ThreadInv, Holding, TypeOK, ProbeTypeOK, CInsertRead, Answer, NextSlot, Goto, At
  <2>4. ThreadInv(t)'
    BY <1>1, <1>3, <1>15, Sentinels, CapacityAssumption
    DEF ThreadInv, Passed, Here, Holding, TypeOK, ProbeTypeOK, Positions, CInsertRead, Answer, NextSlot, Goto, At
  <2> QED BY <2>1, <2>2, <2>3, <2>4 DEF Facts
<1>16. CASE alg = "C" /\ CInsertCAS(t) /\ UNCHANGED lock
  <2>1. TypeOK'
    BY <1>1, <1>2, <1>3, <1>16, CapacityAssumption, KeysAssumption
    DEF TypeOK, ProbeTypeOK, Positions, EMPTY, TOMBSTONE, CInsertCAS, Answer, NextSlot, Goto, At
  <2>2. DataStep(t)
    BY <1>1, <1>3, <1>16, Sentinels DEF DataStep, ThreadInv, CInsertCAS, Answer, NextSlot, Goto, At
  <2>3. Frame(t)
    BY <1>1, <1>3, <1>16, NoThreadAssumption DEF Frame, ThreadInv, Holding, TypeOK, ProbeTypeOK, CInsertCAS, Answer, NextSlot, Goto, At
  <2>4. ThreadInv(t)'
    BY <1>1, <1>3, <1>16, Sentinels, CapacityAssumption
    DEF ThreadInv, Passed, Here, Holding, TypeOK, ProbeTypeOK, Positions, CInsertCAS, Answer, NextSlot, Goto, At
  <2> QED BY <2>1, <2>2, <2>3, <2>4 DEF Facts
<1>17. CASE alg = "C" /\ CEraseRead(t) /\ UNCHANGED lock
  <2>1. TypeOK'
    BY <1>1, <1>2, <1>3, <1>17, CapacityAssumption, KeysAssumption
    DEF TypeOK, ProbeTypeOK, Positions, EMPTY, TOMBSTONE, CEraseRead, Answer, NextSlot, Goto, At
  <2>2. DataStep(t)
    BY <1>1, <1>3, <1>17, Sentinels DEF DataStep, ThreadInv, CEraseRead, Answer, NextSlot, Goto, At
  <2>3. Frame(t)
    BY <1>1, <1>3, <1>17, NoThreadAssumption DEF Frame, ThreadInv, Holding, TypeOK, ProbeTypeOK, CEraseRead, Answer, NextSlot, Goto, At
  <2>4. ThreadInv(t)'
    BY <1>1, <1>3, <1>17, Sentinels, CapacityAssumption
    DEF ThreadInv, Passed, Here, Holding, TypeOK, ProbeTypeOK, Positions, CEraseRead, Answer, NextSlot, Goto, At
  <2> QED BY <2>1, <2>2, <2>3, <2>4 DEF Facts
<1>18. CASE alg = "C" /\ CEraseCAS(t) /\ UNCHANGED lock
  <2>1. TypeOK'
    BY <1>1, <1>2, <1>3, <1>18, CapacityAssumption, KeysAssumption
    DEF TypeOK, ProbeTypeOK, Positions, EMPTY, TOMBSTONE, CEraseCAS, Answer, NextSlot, Goto, At
  <2>2. DataStep(t)
    BY <1>1, <1>3, <1>18, Sentinels DEF DataStep, ThreadInv, CEraseCAS, Answer, NextSlot, Goto, At
  <2>3. Frame(t)
    BY <1>1, <1>3, <1>18, NoThreadAssumption DEF Frame, ThreadInv, Holding, TypeOK, ProbeTypeOK, CEraseCAS, Answer, NextSlot, Goto, At
  <2>4. ThreadInv(t)'
    BY <1>1, <1>3, <1>18, Sentinels, CapacityAssumption
    DEF ThreadInv, Passed, Here, Holding, TypeOK, ProbeTypeOK, Positions, CEraseCAS, Answer, NextSlot, Goto, At
  <2> QED BY <2>1, <2>2, <2>3, <2>4 DEF Facts
<1> QED BY <1>5, <1>6, <1>7, <1>8, <1>9, <1>10, <1>11, <1>12, <1>13, <1>14, <1>15, <1>16, <1>17, <1>18 DEF Start, Work, Probe, AStep, BStep, CStep

-----------------------------------------------------------------------------
LEMMA InitIInv == Init => IInv
<1> SUFFICES ASSUME Init PROVE IInv
  OBVIOUS
<1>1. TypeOK
  BY CapacityAssumption
  DEF Init, ProbeInit, TypeOK, ProbeTypeOK, EMPTY, TOMBSTONE, Positions
<1>2. \A t \in Threads : ThreadInv(t)
  BY DEF Init, ProbeInit, ThreadInv, Holding
<1>3. KeysAreUnique /\ KeysAreReachable
  BY Sentinels DEF Init, ProbeInit, KeysAreUnique, KeysAreReachable
<1> QED BY <1>1, <1>2, <1>3 DEF IInv

LEMMA NextIInv == IInv /\ [Next]_vars => IInv'
<1>1. ASSUME IInv, NEW t \in Threads, Start(t) \/ Work(t) PROVE IInv'
  <2>1. Facts(t)
    BY <1>1, StepFacts
  <2>2. KeysAreUnique' /\ KeysAreReachable'
    BY <1>1, <2>1, DataStepKeepsTable DEF IInv, Facts
  <2>3. \A u \in Threads : ThreadInv(u)'
    BY <1>1, <2>1, OthersKeepInv DEF Facts
  <2> QED BY <2>1, <2>2, <2>3 DEF IInv, Facts
<1>2. ASSUME IInv, UNCHANGED vars PROVE IInv'
  BY <1>2 DEF vars, lockVars, IInv, TypeOK, ProbeTypeOK, ThreadInv, Passed, Here,
              KeysAreUnique, KeysAreReachable
<1> QED BY <1>1, <1>2 DEF Next

\* The state the tables, the locks and the calls may be in, always.
THEOREM Invariance == Spec => []IInv
BY InitIInv, NextIInv, PTL DEF Spec

\* Every variable has its type (ProbeTypeOK and the labels of the three loops).
THEOREM TypeCorrect == Spec => []TypeOK
BY Invariance, PTL DEF IInv

\* However many threads insert a key at once, with any of the three algorithms, it
\* is in at most one slot.
THEOREM UniqueKeys == Spec => []KeysAreUnique
BY Invariance, PTL DEF IInv

\* A search from its hash reaches every key of the table.
THEOREM ReachableKeys == Spec => []KeysAreReachable
BY Invariance, PTL DEF IInv

\* A slot goes from EMPTY to a key to TOMBSTONE and never back.
THEOREM SlotsAge == Spec => SlotsOnlyAge
<1>1. IInv /\ [Next]_vars => [Ages]_data
  <2> SUFFICES ASSUME IInv, [Next]_vars PROVE [Ages]_data
    OBVIOUS
  <2>1. ASSUME NEW t \in Threads, Start(t) \/ Work(t) PROVE Ages
    BY <2>1, StepFacts, DataStepAges DEF IInv, Facts
  <2> QED BY <2>1 DEF Next, vars, lockVars
<1> QED BY <1>1, Invariance, PTL DEF Spec, SlotsOnlyAge, Ages

-----------------------------------------------------------------------------
\* What a call has witnessed, and what it is going to say.
SeenInv(t) ==
    /\ pc[t] # "idle" => (key[t] \in Contents) \in seen[t]
    /\ pc[t] \in {"lock", "recheck", "write", "cas"} /\ op[t] = "erase"
          => data[Here(t)] = key[t] \/ FALSE \in seen[t]
    /\ pc[t] = "write" => res[t] = IF op[t] = "insert" \/ data[Here(t)] = key[t]
                                   THEN "true" ELSE "false"
    /\ pc[t] \notin {"write", "unlock", "return"} => res[t] = "pending"
    /\ pc[t] = "return" => res[t] # "pending"

SInv == IInv /\ \A t \in Threads : SeenInv(t)

-----------------------------------------------------------------------------
\* The table as a set.

LEMMA TableType ==
    ASSUME TypeOK
    PROVE  /\ data \in [Slots -> Keys \cup {EMPTY, TOMBSTONE}]
           /\ \A t \in Threads : /\ i[t] \in Positions
                                 /\ op[t] \in {"none", "insert", "erase"}
                                 /\ res[t] \in {"pending", "true", "false"}
  BY DEF TypeOK, ProbeTypeOK

\* A probe that has come to an EMPTY slot, or to the end, has missed nothing.
LEMMA Absent ==
    ASSUME IInv, NEW t \in Threads, key[t] \in Keys, Passed(t), data[Here(t)] # key[t],
           data[Here(t)] = EMPTY \/ i[t] + 1 >= Capacity
    PROVE  /\ key[t] \notin Contents
           /\ data[Here(t)] # EMPTY => key[t] \in NoRoom
<1>1. i[t] \in Positions /\ KeysAreReachable /\ Capacity \in Nat \ {0}
  BY TableType, CapacityAssumption DEF IInv
<1>2. key[t] \notin Contents
  <2> SUFFICES ASSUME NEW s \in Slots, data[s] = key[t] PROVE FALSE
    BY DEF Contents
  <2>1. PICK j \in Positions : /\ Slot(key[t], j) = s
                               /\ \A l \in 0 .. j - 1 : data[Slot(key[t], l)] # EMPTY
    BY <1>1 DEF KeysAreReachable
  <2>2. j # i[t]
    BY <2>1 DEF Here
  <2>3. ~(j < i[t])
    BY <1>1, <2>1 DEF Passed, Positions
  <2>4. ~(i[t] < j)
    BY <1>1, <2>1 DEF Here, Positions
  <2> QED BY <1>1, <2>2, <2>3, <2>4 DEF Positions
<1>3. ASSUME data[Here(t)] # EMPTY, NEW j \in Positions PROVE data[Slot(key[t], j)] # EMPTY
  <2>1. j < i[t] \/ j = i[t]
    BY <1>1, <1>3 DEF Positions
  <2> QED BY <1>1, <1>3, <2>1 DEF Passed, Here, Positions
<1> QED BY <1>2, <1>3 DEF NoRoom

LEMMA Present ==
    ASSUME IInv, NEW t \in Threads, key[t] \in Keys, data[Here(t)] = key[t]
    PROVE  key[t] \in Contents
  BY HereInRange DEF IInv, Contents

\* What the three ways of writing a slot do to the set.
LEMMA Inserts ==
    ASSUME IInv, NEW t \in Threads, key[t] \in Keys, Passed(t), data[Here(t)] = EMPTY,
           data' = [data EXCEPT ![Here(t)] = key[t]]
    PROVE  /\ key[t] \notin Contents \cup NoRoom
           /\ Contents' = Contents \cup {key[t]}
<1>1. Here(t) \in Slots /\ i[t] \in Positions /\ data \in [Slots -> Keys \cup {EMPTY, TOMBSTONE}]
  BY HereInRange, TableType DEF IInv
<1>2. key[t] \notin Contents
  BY Absent, Sentinels
<1>3. key[t] \notin NoRoom
  BY <1>1 DEF NoRoom, Here
<1>4. \A k \in Keys : (\E s \in Slots : data'[s] = k) <=> (\E s \in Slots : data[s] = k) \/ k = key[t]
  BY <1>1, Sentinels
<1> QED BY <1>2, <1>3, <1>4 DEF Contents

LEMMA Erases ==
    ASSUME IInv, NEW t \in Threads, key[t] \in Keys, data[Here(t)] = key[t],
           data' = [data EXCEPT ![Here(t)] = TOMBSTONE]
    PROVE  key[t] \in Contents /\ Contents' = Contents \ {key[t]}
<1>1. Here(t) \in Slots /\ data \in [Slots -> Keys \cup {EMPTY, TOMBSTONE}] /\ KeysAreUnique
  BY HereInRange, TableType DEF IInv
<1>2. ASSUME NEW k \in Keys
      PROVE  (\E s \in Slots : data'[s] = k) <=> (\E s \in Slots : data[s] = k) /\ k # key[t]
  BY <1>1, Sentinels DEF KeysAreUnique
<1> QED BY <1>2, Present DEF Contents

LEMMA ErasesNothing ==
    ASSUME TypeOK, NEW t \in Threads, key[t] \in Keys, data[Here(t)] = TOMBSTONE,
           data' = [data EXCEPT ![Here(t)] = TOMBSTONE]
    PROVE  data' = data
  BY TableType

LEMMA RoomShrinks ==
    ASSUME Ages PROVE NoRoom \subseteq NoRoom' /\ NoRoom' \subseteq Keys
  BY SlotInRange, Sentinels DEF NoRoom, Ages

-----------------------------------------------------------------------------
\* What the calls have witnessed.

LEMMA Truth ==
    /\ \A S, k, C : (k \in C) \in S /\ k \in C => TRUE \in S
    /\ \A S, k, C : (k \in C) \in S /\ k \notin C => FALSE \in S
<1>1. ASSUME NEW S, NEW k, NEW C, (k \in C) \in S, k \in C PROVE TRUE \in S
  <2>1. (k \in C) = TRUE
    BY <1>1
  <2> QED BY <1>1, <2>1
<1>2. ASSUME NEW S, NEW k, NEW C, (k \in C) \in S, k \notin C PROVE FALSE \in S
  <2>1. (k \in C) = FALSE
    BY <1>2
  <2> QED BY <1>2, <2>1
<1> QED BY <1>1, <1>2

LEMMA WitnessStep ==
    ASSUME Record, NEW t \in Threads
    PROVE  /\ pc'[t] # "idle" => (key'[t] \in Contents') \in seen'[t]
           /\ pc'[t] # "idle" /\ pc[t] # "idle" => seen[t] \subseteq seen'[t]
<1>1. seen'[t] = Witness(t)
  BY DEF Record
<1> QED BY <1>1 DEF Witness

LEMMA OthersKeepSeen ==
    ASSUME SInv, NEW t \in Threads, Start(t) \/ Work(t), NEW u \in Threads \ {t}
    PROVE  SeenInv(u)'
<1>1. /\ IInv /\ SeenInv(u) /\ ThreadInv(u) /\ TypeOK /\ Facts(t) /\ DataStep(t) /\ Frame(t) /\ Record
      /\ data \in [Slots -> Keys \cup {EMPTY, TOMBSTONE}]
  BY StepFacts, TableType DEF SInv, IInv, Facts, Start, Work
<1>2. /\ pc'[u] = pc[u] /\ op'[u] = op[u] /\ key'[u] = key[u] /\ i'[u] = i[u] /\ res'[u] = res[u]
      /\ Here(u)' = Here(u)
  BY <1>1 DEF Frame, Here
<1>3. /\ pc[u] # "idle" => (key[u] \in Contents') \in seen'[u]
      /\ pc[u] # "idle" => seen[u] \subseteq seen'[u]
  BY <1>1, <1>2, WitnessStep
<1>4. pc[u] # "idle" => key[u] \in Keys /\ Here(u) \in Slots
  BY <1>1, HereInRange DEF ThreadInv
<1>5. ASSUME pc[u] = "write" PROVE data'[Here(u)] = data[Here(u)]
  BY <1>1, <1>4, <1>5 DEF ThreadInv, Holding, Frame
<1>6. ASSUME pc[u] # "idle", data[Here(u)] = key[u], data'[Here(u)] # key[u]
      PROVE  FALSE \in seen'[u]
  <2>1. /\ data' = [data EXCEPT ![Here(t)] = TOMBSTONE] /\ key[t] \in Keys
        /\ Here(t) = Here(u) /\ data[Here(t)] = key[t] /\ key[t] = key[u]
    <3>1. Here(t) \in Slots \/ data' = data
      BY <1>1, HereInRange DEF DataStep
    <3> QED BY <1>1, <1>4, <1>6, <3>1, Sentinels DEF DataStep
  <2>2. key[u] \notin Contents'
    BY <1>1, <2>1, Erases
  <2> QED BY <1>3, <1>6, <2>2, Truth
<1> QED BY <1>1, <1>2, <1>3, <1>5, <1>6 DEF SeenInv

-----------------------------------------------------------------------------
\* The steps.

\* What a step of t is to the set.
Moves(t) ==
    \/ Set!Invoke(t) \/ Set!Add(t) \/ Set!Remove(t) \/ Set!Decline(t) \/ Set!Return(t)
    \/ UNCHANGED <<Contents, op, key, Status>>

Simulates(t) == Moves(t) /\ SeenInv(t)'

\* What is known of a step of t that is inside its call.
Inside(t) ==
    /\ SInv /\ Frame(t) /\ TypeOK' /\ Ages /\ Record
    /\ op' = op /\ key' = key /\ pc[t] # "idle" /\ pc'[t] # "idle"

LEMMA InsideFacts ==
    ASSUME NEW t \in Threads, Inside(t)
    PROVE  /\ IInv /\ SeenInv(t) /\ ThreadInv(t) /\ TypeOK
           /\ key[t] \in Keys /\ op[t] \in {"insert", "erase"}
           /\ res[t] \in {"pending", "true", "false"} /\ res'[t] \in {"pending", "true", "false"}
           /\ (key[t] \in Contents) \in seen[t] /\ (key[t] \in Contents') \in seen'[t]
           /\ seen[t] \subseteq seen'[t]
<1>1. IInv /\ SeenInv(t) /\ ThreadInv(t) /\ TypeOK /\ TypeOK'
  BY DEF Inside, SInv, IInv
<1>2. /\ (key[t] \in Contents') \in seen'[t] /\ seen[t] \subseteq seen'[t]
  BY WitnessStep DEF Inside
<1>3. /\ res[t] \in {"pending", "true", "false"} /\ res'[t] \in {"pending", "true", "false"}
  BY <1>1 DEF TypeOK, ProbeTypeOK
<1> QED BY <1>1, <1>2, <1>3 DEF ThreadInv, SeenInv, Inside

\* The callers' view of a step of t: only t's status can change.
LEMMA StatusStep ==
    ASSUME TypeOK, TypeOK', NEW t \in Threads, Frame(t)
    PROVE  /\ Status' = [Status EXCEPT ![t] = Status'[t]]
           /\ Status[t] = IF pc[t] = "idle" THEN "idle"
                          ELSE IF pc[t] = "write" THEN "pending" ELSE res[t]
           /\ Status'[t] = IF pc'[t] = "idle" THEN "idle"
                           ELSE IF pc'[t] = "write" THEN "pending" ELSE res'[t]
<1>1. /\ Status = [u \in Threads |-> IF pc[u] = "idle" THEN "idle"
                                     ELSE IF pc[u] = "write" THEN "pending" ELSE res[u]]
      /\ Status' = [u \in Threads |-> IF pc'[u] = "idle" THEN "idle"
                                      ELSE IF pc'[u] = "write" THEN "pending" ELSE res'[u]]
  BY DEF Status
<1>2. \A u \in Threads \ {t} : Status'[u] = Status[u]
  BY <1>1 DEF Frame
<1> QED BY <1>1, <1>2

LEMMA Stutters ==
    ASSUME NEW t \in Threads, Inside(t), data' = data, Status'[t] = Status[t]
    PROVE  UNCHANGED <<Contents, op, key, Status>>
<1>1. Status' = [Status EXCEPT ![t] = Status[t]]
  BY StatusStep, InsideFacts DEF Inside
<1>2. Status = [u \in Threads |-> Status[u]]
  BY DEF Status
<1> HIDE DEF Status
<1>3. Status' = Status
  BY <1>1, <1>2
<1>4. Contents' = Contents
  BY DEF Contents
<1> QED BY <1>3, <1>4 DEF Inside

LEMMA Declines ==
    ASSUME NEW t \in Threads, Inside(t), Contents' = Contents,
           Status[t] = "pending", Status'[t] = "false",
           \/ op[t] = "insert" /\ (key[t] \in Contents \/ key[t] \in NoRoom)
           \/ op[t] = "erase" /\ (key[t] \notin Contents \/ FALSE \in seen[t])
    PROVE  Set!Decline(t)
<1>1. Status' = [Status EXCEPT ![t] = "false"] /\ NoRoom \subseteq NoRoom'
  BY StatusStep, InsideFacts, RoomShrinks DEF Inside
<1>2. \/ op[t] = "insert" /\ (TRUE \in seen[t] \/ key[t] \in NoRoom')
      \/ op[t] = "erase" /\ FALSE \in seen[t]
  BY <1>1, InsideFacts, Truth
<1> QED BY <1>1, <1>2 DEF Set!Decline, Inside

\* The slot is not the one: the call goes on, or gives up.
LEMMA Skips ==
    ASSUME NEW t \in Threads, Inside(t), data' = data, NextSlot(t, "probe"),
           pc[t] \in {"probe", "unlock", "cas"}, res[t] = "pending",
           data[Here(t)] \notin {EMPTY, key[t]}
    PROVE  Simulates(t)
<1>0. /\ TypeOK /\ IInv /\ SeenInv(t) /\ ThreadInv(t) /\ TypeOK' /\ Frame(t)
      /\ (key[t] \in Contents') \in seen'[t] /\ key[t] \in Keys /\ op[t] \in {"insert", "erase"}
      /\ op' = op /\ key' = key /\ pc[t] \notin {"idle", "write", "return"}
  BY InsideFacts DEF Inside
<1>1. Status[t] = "pending"
  BY <1>0, StatusStep
<1>2. Contents' = Contents
  BY DEF Contents
<1>3. CASE i[t] + 1 < Capacity
  <2>1. pc'[t] = "probe" /\ res'[t] = "pending"
    BY <1>0, <1>3, TableType, CapacityAssumption DEF NextSlot, Goto, TypeOK, Positions
  <2>2. UNCHANGED <<Contents, op, key, Status>>
    BY <1>0, <1>1, <2>1, StatusStep, Stutters
  <2>3. SeenInv(t)'
    BY <1>0, <2>1 DEF SeenInv
  <2> QED BY <2>2, <2>3 DEF Simulates, Moves
<1>4. CASE i[t] + 1 >= Capacity
  <2>1. pc'[t] = "return" /\ res'[t] = "false"
    BY <1>0, <1>4, TableType, CapacityAssumption DEF NextSlot, Goto, TypeOK, ProbeTypeOK, Positions
  <2>2. Passed(t)
    BY <1>0 DEF ThreadInv
  <2>3. key[t] \notin Contents /\ key[t] \in NoRoom
    BY <1>0, <1>4, <2>2, Absent
  <2>4. Set!Decline(t)
    BY <1>0, <1>1, <1>2, <2>1, <2>3, StatusStep, Declines
  <2>5. SeenInv(t)'
    BY <1>0, <2>1 DEF SeenInv
  <2> QED BY <2>4, <2>5 DEF Simulates, Moves
<1> QED BY <1>0, <1>3, <1>4, TableType, CapacityAssumption DEF Positions

\* The call goes on, and nothing has changed for its caller.
LEMMA GoesOn ==
    ASSUME NEW t \in Threads, Inside(t), data' = data,
           res[t] = "pending" \/ pc[t] = "write",
           res'[t] = "pending" \/ pc'[t] = "write"
    PROVE  Moves(t)
<1>1. /\ TypeOK /\ TypeOK' /\ Frame(t) /\ pc[t] # "idle" /\ pc'[t] # "idle"
  BY InsideFacts DEF Inside
<1>2. Status[t] = "pending" /\ Status'[t] = "pending"
  BY <1>1, StatusStep
<1> QED BY <1>2, Stutters DEF Moves

\* A step inside a call keeps to it.
LEMMA StepInside ==
    ASSUME SInv, NEW t \in Threads, Probe(t), Record
    PROVE  Inside(t)
<1>1. Facts(t) /\ TypeOK
  BY StepFacts DEF Work, SInv, IInv
<1>2. Ages
  BY <1>1, DataStepAges DEF Facts
<1>3. pc[t] # "idle"
  BY DEF Probe, AStep, BStep, CStep, ALock, ARead, WriteSlot, UnlockSlot, BRead, BLock,
         BRecheckInsert, BRecheckErase, CInsertRead, CInsertCAS, CEraseRead, CEraseCAS, LockSlot, At
<1>4. op' = op /\ key' = key
  BY DEF Probe, AStep, BStep, CStep, ALock, ARead, WriteSlot, UnlockSlot, BRead, BLock,
         BRecheckInsert, BRecheckErase, CInsertRead, CInsertCAS, CEraseRead, CEraseCAS, LockSlot
<1>5. pc'[t] # "idle"
  BY <1>1 DEF TypeOK, Probe, AStep, BStep, CStep, ALock, ARead, WriteSlot, UnlockSlot, BRead, BLock,
         BRecheckInsert, BRecheckErase, CInsertRead, CInsertCAS, CEraseRead, CEraseCAS, LockSlot,
         Answer, NextSlot, Goto
<1> QED BY <1>1, <1>2, <1>3, <1>4, <1>5 DEF Inside, Facts

-----------------------------------------------------------------------------
\* The tables with locks.

LEMMA LockSteps ==
    ASSUME SInv, NEW t \in Threads, Record,
           (alg = "A" /\ ALock(t)) \/ (alg = "B" /\ BLock(t))
    PROVE  Simulates(t)
<1>1. Inside(t)
  BY StepInside DEF Probe, AStep, BStep
<1>2. /\ SeenInv(t) /\ TypeOK /\ seen[t] \subseteq seen'[t] /\ (key[t] \in Contents') \in seen'[t]
      /\ op' = op /\ key' = key
  BY <1>1, InsideFacts DEF Inside
<1>3. /\ data' = data /\ i' = i /\ res' = res /\ pc[t] \in {"probe", "lock"}
      /\ pc'[t] = IF pc[t] = "probe" THEN "read" ELSE "recheck"
      /\ Here(t)' = Here(t)
  BY <1>2 DEF ALock, BLock, LockSlot, At, Goto, TypeOK, Here
<1>4. res[t] = "pending" /\ res'[t] = "pending"
  BY <1>2, <1>3 DEF SeenInv
<1>5. Moves(t)
  BY <1>1, <1>3, <1>4, GoesOn
<1>6. SeenInv(t)'
  BY <1>2, <1>3, <1>4 DEF SeenInv
<1> QED BY <1>5, <1>6 DEF Simulates

LEMMA AReadStep ==
    ASSUME SInv, NEW t \in Threads, Record, alg = "A", ARead(t)
    PROVE  Simulates(t)
<1>1. Inside(t)
  BY StepInside DEF Probe, AStep
<1>2. /\ SeenInv(t) /\ TypeOK /\ seen[t] \subseteq seen'[t] /\ (key[t] \in Contents') \in seen'[t]
      /\ op' = op /\ key' = key /\ IInv /\ key[t] \in Keys /\ op[t] \in {"insert", "erase"}
      /\ ThreadInv(t) /\ TypeOK' /\ Frame(t) /\ Contents' = Contents
  BY <1>1, InsideFacts DEF Inside, ARead, Contents
<1>3. /\ data' = data /\ i' = i /\ pc[t] = "read" /\ res[t] = "pending" /\ Here(t)' = Here(t)
      /\ Passed(t)
  BY <1>2 DEF ARead, Answer, At, SeenInv, ThreadInv, Here
<1>4. CASE Answer(t, "write", "true") /\ data[Here(t)] = IF op[t] = "insert" THEN EMPTY ELSE key[t]
  <2>1. pc'[t] = "write" /\ res'[t] = "true"
    BY <1>2, <1>4 DEF Answer, Goto, TypeOK, ProbeTypeOK
  <2>2. Moves(t)
    BY <1>1, <1>3, <2>1, GoesOn
  <2>3. SeenInv(t)'
    BY <1>2, <1>3, <1>4, <2>1 DEF SeenInv
  <2> QED BY <2>2, <2>3 DEF Simulates
<1>5. CASE Answer(t, "unlock", "false") /\ data[Here(t)] = IF op[t] = "insert" THEN key[t] ELSE EMPTY
  <2>1. pc'[t] = "unlock" /\ res'[t] = "false"
    BY <1>2, <1>5 DEF Answer, Goto, TypeOK, ProbeTypeOK
  <2>2. op[t] = "insert" => key[t] \in Contents
    BY <1>2, <1>5, Present
  <2>3. op[t] = "erase" => key[t] \notin Contents
    BY <1>2, <1>3, <1>5, Absent, Sentinels
  <2>4. Status[t] = "pending" /\ Status'[t] = "false"
    BY <1>2, <1>3, <2>1, StatusStep
  <2>5. Set!Decline(t)
    BY <1>1, <1>2, <2>2, <2>3, <2>4, Declines
  <2>6. SeenInv(t)'
    BY <1>2, <2>1 DEF SeenInv
  <2> QED BY <2>5, <2>6 DEF Simulates, Moves
<1>6. CASE Answer(t, "unlock", "pending")
  <2>1. pc'[t] = "unlock" /\ res'[t] = "pending"
    BY <1>2, <1>6 DEF Answer, Goto, TypeOK, ProbeTypeOK
  <2>2. Moves(t)
    BY <1>1, <1>3, <2>1, GoesOn
  <2>3. SeenInv(t)'
    BY <1>2, <2>1 DEF SeenInv
  <2> QED BY <2>2, <2>3 DEF Simulates
<1> QED BY <1>4, <1>5, <1>6 DEF ARead

LEMMA WriteSlotStep ==
    ASSUME SInv, NEW t \in Threads, Record, alg # "C", WriteSlot(t)
    PROVE  Simulates(t)
<1>1. Inside(t)
  BY StepInside DEF Probe, AStep, BStep, Inside, SInv, IInv, TypeOK
<1>2. /\ SeenInv(t) /\ TypeOK /\ seen[t] \subseteq seen'[t] /\ (key[t] \in Contents') \in seen'[t]
      /\ op' = op /\ key' = key /\ IInv /\ key[t] \in Keys /\ op[t] \in {"insert", "erase"}
      /\ ThreadInv(t) /\ TypeOK' /\ Frame(t) /\ Ages
  BY <1>1, InsideFacts DEF Inside
<1>3. /\ data' = [data EXCEPT ![Here(t)] = IF op[t] = "insert" THEN key[t] ELSE TOMBSTONE]
      /\ pc[t] = "write" /\ pc'[t] = "unlock" /\ res' = res /\ Passed(t)
  BY <1>2 DEF WriteSlot, At, Goto, ThreadInv, TypeOK
<1>4. /\ Status[t] = "pending" /\ Status'[t] = res[t]
      /\ Status' = [Status EXCEPT ![t] = Status'[t]]
  BY <1>2, <1>3, StatusStep
<1>5. SeenInv(t)'
  BY <1>2, <1>3 DEF SeenInv
<1>6. CASE op[t] = "insert"
  <2>1. data[Here(t)] = EMPTY /\ res[t] = "true"
    BY <1>2, <1>3, <1>6 DEF ThreadInv, SeenInv
  <2>2. key[t] \notin Contents \cup NoRoom /\ Contents' = Contents \cup {key[t]}
    BY <1>2, <1>3, <1>6, <2>1, Inserts
  <2>3. Set!Add(t)
    BY <1>2, <1>4, <1>6, <2>1, <2>2 DEF Set!Add
  <2> QED BY <1>5, <2>3 DEF Simulates, Moves
<1>7. CASE op[t] = "erase" /\ data[Here(t)] = key[t]
  <2>1. res[t] = "true"
    BY <1>2, <1>3, <1>7 DEF SeenInv
  <2>2. key[t] \in Contents /\ Contents' = Contents \ {key[t]}
    BY <1>2, <1>3, <1>7, Erases
  <2>3. Set!Remove(t)
    BY <1>2, <1>4, <1>7, <2>1, <2>2 DEF Set!Remove
  <2> QED BY <1>5, <2>3 DEF Simulates, Moves
<1>8. CASE op[t] = "erase" /\ data[Here(t)] # key[t]
  <2>1. res[t] = "false" /\ data[Here(t)] = TOMBSTONE /\ FALSE \in seen[t]
    BY <1>2, <1>3, <1>8 DEF SeenInv, ThreadInv
  <2>2. Contents' = Contents
    BY <1>2, <1>3, <1>8, <2>1, ErasesNothing DEF Contents
  <2>3. Set!Decline(t)
    BY <1>1, <1>4, <1>8, <2>1, <2>2, Declines
  <2> QED BY <1>5, <2>3 DEF Simulates, Moves
<1> QED BY <1>2, <1>6, <1>7, <1>8

LEMMA UnlockSlotStep ==
    ASSUME SInv, NEW t \in Threads, Record, alg # "C", UnlockSlot(t)
    PROVE  Simulates(t)
<1>1. Inside(t)
  BY StepInside DEF Probe, AStep, BStep, Inside, SInv, IInv, TypeOK
<1>2. /\ SeenInv(t) /\ TypeOK /\ seen[t] \subseteq seen'[t] /\ (key[t] \in Contents') \in seen'[t]
      /\ op' = op /\ key' = key /\ ThreadInv(t) /\ TypeOK' /\ Frame(t)
      /\ data' = data /\ pc[t] = "unlock"
  BY <1>1, InsideFacts DEF Inside, UnlockSlot, At
<1>3. CASE res[t] # "pending" /\ Answer(t, "return", res[t])
  <2>1. pc'[t] = "return" /\ res'[t] = res[t]
    BY <1>2, <1>3 DEF Answer, Goto, TypeOK, ProbeTypeOK
  <2>2. Status'[t] = Status[t]
    BY <1>2, <2>1, StatusStep
  <2>3. UNCHANGED <<Contents, op, key, Status>>
    BY <1>1, <1>2, <2>2, Stutters
  <2>4. SeenInv(t)'
    BY <1>2, <1>3, <2>1 DEF SeenInv
  <2> QED BY <2>3, <2>4 DEF Simulates, Moves
<1>4. CASE res[t] = "pending" /\ NextSlot(t, "probe")
  <2>1. data[Here(t)] \notin {EMPTY, key[t]}
    BY <1>2, <1>4 DEF ThreadInv
  <2> QED BY <1>1, <1>2, <1>4, <2>1, Skips
<1> QED BY <1>3, <1>4 DEF UnlockSlot
\* The answers given on the spot, from a slot that was read and not written.
LEMMA AnswersNo ==
    ASSUME NEW t \in Threads, Inside(t), data' = data, Passed(t),
           pc[t] \notin {"write", "idle"}, res[t] = "pending", res'[t] = "false", pc'[t] # "write",
           \/ op[t] = "insert" /\ data[Here(t)] = key[t]
           \/ op[t] = "erase" /\ (data[Here(t)] = EMPTY \/ FALSE \in seen[t])
    PROVE  Moves(t) /\ (pc'[t] = "return" => SeenInv(t)')
<1>1. /\ SeenInv(t) /\ TypeOK /\ seen[t] \subseteq seen'[t] /\ (key[t] \in Contents') \in seen'[t]
      /\ op' = op /\ key' = key /\ IInv /\ key[t] \in Keys /\ op[t] \in {"insert", "erase"}
      /\ ThreadInv(t) /\ TypeOK' /\ Frame(t)
      /\ pc'[t] # "idle" /\ Contents' = Contents
  BY InsideFacts DEF Inside, Contents
<1>2. op[t] = "insert" => key[t] \in Contents
  BY <1>1, Present
<1>3. data[Here(t)] = EMPTY => key[t] \notin Contents
  BY <1>1, Absent, Sentinels
<1>4. Status[t] = "pending" /\ Status'[t] = "false"
  BY <1>1, StatusStep
<1>5. Set!Decline(t)
  BY <1>1, <1>2, <1>3, <1>4, Declines
<1>6. pc'[t] = "return" => SeenInv(t)'
  BY <1>1 DEF SeenInv
<1> QED BY <1>5, <1>6 DEF Moves

-----------------------------------------------------------------------------
\* The table that locks when it must.

LEMMA BReadStep ==
    ASSUME SInv, NEW t \in Threads, Record, alg = "B", BRead(t)
    PROVE  Simulates(t)
<1>1. Inside(t)
  BY StepInside DEF Probe, BStep
<1>2. /\ SeenInv(t) /\ TypeOK /\ seen[t] \subseteq seen'[t] /\ (key[t] \in Contents') \in seen'[t]
      /\ op' = op /\ key' = key /\ IInv /\ key[t] \in Keys /\ op[t] \in {"insert", "erase"}
      /\ ThreadInv(t) /\ TypeOK' /\ Frame(t)
  BY <1>1, InsideFacts DEF Inside
<1>3. /\ data' = data /\ pc[t] = "probe" /\ res[t] = "pending" /\ Passed(t)
  BY <1>2 DEF BRead, At, SeenInv, ThreadInv
<1>4. CASE Answer(t, "lock", "pending") /\ data[Here(t)] = IF op[t] = "insert" THEN EMPTY ELSE key[t]
  <2>1. pc'[t] = "lock" /\ res'[t] = "pending" /\ Here(t)' = Here(t)
    BY <1>2, <1>4 DEF Answer, Goto, TypeOK, ProbeTypeOK, Here
  <2>2. Moves(t)
    BY <1>1, <1>3, <2>1, GoesOn
  <2>3. SeenInv(t)'
    BY <1>2, <1>3, <1>4, <2>1 DEF SeenInv
  <2> QED BY <2>2, <2>3 DEF Simulates
<1>5. CASE Answer(t, "return", "false") /\ data[Here(t)] = IF op[t] = "insert" THEN key[t] ELSE EMPTY
  <2>1. pc'[t] = "return" /\ res'[t] = "false"
    BY <1>2, <1>5 DEF Answer, Goto, TypeOK, ProbeTypeOK
  <2> QED BY <1>1, <1>2, <1>3, <1>5, <2>1, AnswersNo DEF Simulates
<1>6. CASE data[Here(t)] \notin {key[t], EMPTY} /\ NextSlot(t, "probe")
  BY <1>1, <1>3, <1>6, Skips
<1> QED BY <1>4, <1>5, <1>6 DEF BRead

LEMMA BRecheckInsertStep ==
    ASSUME SInv, NEW t \in Threads, Record, alg = "B", BRecheckInsert(t)
    PROVE  Simulates(t)
<1>1. Inside(t)
  BY StepInside DEF Probe, BStep
<1>2. /\ SeenInv(t) /\ TypeOK /\ seen[t] \subseteq seen'[t] /\ (key[t] \in Contents') \in seen'[t]
      /\ op' = op /\ key' = key /\ IInv /\ key[t] \in Keys /\ op[t] \in {"insert", "erase"}
      /\ ThreadInv(t) /\ TypeOK' /\ Frame(t)
  BY <1>1, InsideFacts DEF Inside
<1>3. /\ data' = data /\ pc[t] = "recheck" /\ res[t] = "pending" /\ Passed(t) /\ op[t] = "insert"
  BY <1>2 DEF BRecheckInsert, At, SeenInv, ThreadInv
<1>4. CASE data[Here(t)] = key[t] /\ Answer(t, "unlock", "false")
  <2>1. pc'[t] = "unlock" /\ res'[t] = "false"
    BY <1>2, <1>4 DEF Answer, Goto, TypeOK, ProbeTypeOK
  <2>2. Moves(t)
    BY <1>1, <1>3, <1>4, <2>1, AnswersNo
  <2>3. SeenInv(t)'
    BY <1>2, <2>1 DEF SeenInv
  <2> QED BY <2>2, <2>3 DEF Simulates
<1>5. CASE Answer(t, "write", "true")
  <2>1. pc'[t] = "write" /\ res'[t] = "true"
    BY <1>2, <1>5 DEF Answer, Goto, TypeOK, ProbeTypeOK
  <2>2. Moves(t)
    BY <1>1, <1>3, <2>1, GoesOn
  <2>3. SeenInv(t)'
    BY <1>2, <1>3, <2>1 DEF SeenInv
  <2> QED BY <2>2, <2>3 DEF Simulates
<1>6. CASE Answer(t, "unlock", "pending")
  <2>1. pc'[t] = "unlock" /\ res'[t] = "pending"
    BY <1>2, <1>6 DEF Answer, Goto, TypeOK, ProbeTypeOK
  <2>2. Moves(t)
    BY <1>1, <1>3, <2>1, GoesOn
  <2>3. SeenInv(t)'
    BY <1>2, <2>1 DEF SeenInv
  <2> QED BY <2>2, <2>3 DEF Simulates
<1> QED BY <1>4, <1>5, <1>6 DEF BRecheckInsert

LEMMA BRecheckEraseStep ==
    ASSUME SInv, NEW t \in Threads, Record, alg = "B", BRecheckErase(t)
    PROVE  Simulates(t)
<1>1. Inside(t)
  BY StepInside DEF Probe, BStep
<1>2. /\ SeenInv(t) /\ TypeOK /\ seen[t] \subseteq seen'[t] /\ (key[t] \in Contents') \in seen'[t]
      /\ op' = op /\ key' = key /\ IInv /\ key[t] \in Keys /\ op[t] \in {"insert", "erase"}
      /\ ThreadInv(t) /\ TypeOK' /\ Frame(t)
  BY <1>1, InsideFacts DEF Inside
<1>3. /\ data' = data /\ pc[t] = "recheck" /\ res[t] = "pending" /\ op[t] = "erase"
      /\ pc'[t] = "write" /\ res'[t] = IF data[Here(t)] = key[t] THEN "true" ELSE "false"
      /\ Here(t)' = Here(t)
  BY <1>2 DEF BRecheckErase, At, SeenInv, Answer, Goto, TypeOK, ProbeTypeOK, Here
<1>4. Moves(t)
  BY <1>1, <1>3, GoesOn
<1>5. SeenInv(t)'
  BY <1>2, <1>3 DEF SeenInv
<1> QED BY <1>4, <1>5 DEF Simulates

-----------------------------------------------------------------------------
\* The lock-free table.

LEMMA CReadStep ==
    ASSUME SInv, NEW t \in Threads, Record, alg = "C", UNCHANGED lock,
           CInsertRead(t) \/ CEraseRead(t)
    PROVE  Simulates(t)
<1>1. Inside(t)
  BY StepInside DEF Probe, CStep
<1>2. /\ SeenInv(t) /\ TypeOK /\ seen[t] \subseteq seen'[t] /\ (key[t] \in Contents') \in seen'[t]
      /\ op' = op /\ key' = key /\ IInv /\ key[t] \in Keys /\ op[t] \in {"insert", "erase"}
      /\ ThreadInv(t) /\ TypeOK' /\ Frame(t)
  BY <1>1, InsideFacts DEF Inside
<1>3. /\ data' = data /\ pc[t] = "probe" /\ res[t] = "pending" /\ Passed(t)
  BY <1>2 DEF CInsertRead, CEraseRead, At, SeenInv, ThreadInv
<1>4. CASE Goto(t, "cas") /\ UNCHANGED <<i, res>> /\ (op[t] = "erase" => data[Here(t)] = key[t])
  <2>1. pc'[t] = "cas" /\ res'[t] = "pending" /\ Here(t)' = Here(t)
    BY <1>2, <1>3, <1>4 DEF Goto, TypeOK, Here
  <2>2. Moves(t)
    BY <1>1, <1>3, <2>1, GoesOn
  <2>3. SeenInv(t)'
    BY <1>2, <1>3, <1>4, <2>1 DEF SeenInv
  <2> QED BY <2>2, <2>3 DEF Simulates
<1>5. CASE Answer(t, "return", "false") /\ data[Here(t)] = IF op[t] = "insert" THEN key[t] ELSE EMPTY
  <2>1. pc'[t] = "return" /\ res'[t] = "false"
    BY <1>2, <1>5 DEF Answer, Goto, TypeOK, ProbeTypeOK
  <2> QED BY <1>1, <1>2, <1>3, <1>5, <2>1, AnswersNo DEF Simulates
<1>6. CASE data[Here(t)] \notin {key[t], EMPTY} /\ NextSlot(t, "probe")
  BY <1>1, <1>3, <1>6, Skips
<1> QED BY <1>4, <1>5, <1>6 DEF CInsertRead, CEraseRead

LEMMA CInsertCASStep ==
    ASSUME SInv, NEW t \in Threads, Record, alg = "C", UNCHANGED lock, CInsertCAS(t)
    PROVE  Simulates(t)
<1>1. Inside(t)
  BY StepInside DEF Probe, CStep
<1>2. /\ SeenInv(t) /\ TypeOK /\ seen[t] \subseteq seen'[t] /\ (key[t] \in Contents') \in seen'[t]
      /\ op' = op /\ key' = key /\ IInv /\ key[t] \in Keys /\ op[t] \in {"insert", "erase"}
      /\ ThreadInv(t) /\ TypeOK' /\ Frame(t)
  BY <1>1, InsideFacts DEF Inside
<1>3. pc[t] = "cas" /\ res[t] = "pending" /\ Passed(t) /\ op[t] = "insert"
  BY <1>2 DEF CInsertCAS, At, SeenInv, ThreadInv
<1>4. CASE /\ data[Here(t)] = EMPTY /\ data' = [data EXCEPT ![Here(t)] = key[t]]
           /\ Answer(t, "return", "true")
  <2>1. pc'[t] = "return" /\ res'[t] = "true"
    BY <1>2, <1>4 DEF Answer, Goto, TypeOK, ProbeTypeOK
  <2>2. key[t] \notin Contents \cup NoRoom /\ Contents' = Contents \cup {key[t]}
    BY <1>2, <1>3, <1>4, Inserts
  <2>3. /\ Status[t] = "pending" /\ Status'[t] = "true"
        /\ Status' = [Status EXCEPT ![t] = Status'[t]]
    BY <1>2, <1>3, <2>1, StatusStep
  <2>4. Set!Add(t)
    BY <1>2, <1>3, <2>2, <2>3 DEF Set!Add
  <2>5. SeenInv(t)'
    BY <1>2, <2>1 DEF SeenInv
  <2> QED BY <2>4, <2>5 DEF Simulates, Moves
<1>5. CASE data[Here(t)] = key[t] /\ data' = data /\ Answer(t, "return", "false")
  <2>1. pc'[t] = "return" /\ res'[t] = "false"
    BY <1>2, <1>5 DEF Answer, Goto, TypeOK, ProbeTypeOK
  <2> QED BY <1>1, <1>2, <1>3, <1>5, <2>1, AnswersNo DEF Simulates
<1>6. CASE data[Here(t)] \notin {EMPTY, key[t]} /\ data' = data /\ NextSlot(t, "probe")
  BY <1>1, <1>3, <1>6, Skips
<1> QED BY <1>4, <1>5, <1>6 DEF CInsertCAS

LEMMA CEraseCASStep ==
    ASSUME SInv, NEW t \in Threads, Record, alg = "C", UNCHANGED lock, CEraseCAS(t)
    PROVE  Simulates(t)
<1>1. Inside(t)
  BY StepInside DEF Probe, CStep
<1>2. /\ SeenInv(t) /\ TypeOK /\ seen[t] \subseteq seen'[t] /\ (key[t] \in Contents') \in seen'[t]
      /\ op' = op /\ key' = key /\ IInv /\ key[t] \in Keys /\ op[t] \in {"insert", "erase"}
      /\ ThreadInv(t) /\ TypeOK' /\ Frame(t)
  BY <1>1, InsideFacts DEF Inside
<1>3. pc[t] = "cas" /\ res[t] = "pending" /\ Passed(t) /\ op[t] = "erase"
  BY <1>2 DEF CEraseCAS, At, SeenInv, ThreadInv
<1>4. CASE /\ data[Here(t)] = key[t] /\ data' = [data EXCEPT ![Here(t)] = TOMBSTONE]
           /\ Answer(t, "return", "true")
  <2>1. pc'[t] = "return" /\ res'[t] = "true"
    BY <1>2, <1>4 DEF Answer, Goto, TypeOK, ProbeTypeOK
  <2>2. key[t] \in Contents /\ Contents' = Contents \ {key[t]}
    BY <1>2, <1>4, Erases
  <2>3. /\ Status[t] = "pending" /\ Status'[t] = "true"
        /\ Status' = [Status EXCEPT ![t] = Status'[t]]
    BY <1>2, <1>3, <2>1, StatusStep
  <2>4. Set!Remove(t)
    BY <1>2, <1>3, <2>2, <2>3 DEF Set!Remove
  <2>5. SeenInv(t)'
    BY <1>2, <2>1 DEF SeenInv
  <2> QED BY <2>4, <2>5 DEF Simulates, Moves
<1>5. CASE data[Here(t)] # key[t] /\ data' = data /\ Answer(t, "return", "false")
  <2>1. pc'[t] = "return" /\ res'[t] = "false" /\ FALSE \in seen[t]
    BY <1>2, <1>3, <1>5 DEF Answer, Goto, TypeOK, ProbeTypeOK, SeenInv
  <2> QED BY <1>1, <1>2, <1>3, <1>5, <2>1, AnswersNo DEF Simulates
<1> QED BY <1>4, <1>5 DEF CEraseCAS
-----------------------------------------------------------------------------
\* The ends of a call.

LEMMA CallStep ==
    ASSUME SInv, NEW t \in Threads, Start(t)
    PROVE  Simulates(t)
<1>1. Facts(t) /\ TypeOK /\ SeenInv(t) /\ Call(t) /\ Record
  BY StepFacts DEF SInv, IInv, Start
<1>2. /\ pc[t] = "idle" /\ pc'[t] = "probe" /\ res[t] = "pending" /\ res' = res /\ data' = data
  BY <1>1 DEF Call, At, Goto, SeenInv, TypeOK
<1>3. Contents' = Contents
  BY <1>2 DEF Contents
<1>4. (key'[t] \in Contents') \in seen'[t]
  BY <1>1, <1>2, WitnessStep
<1>5. /\ Status[t] = "idle" /\ Status'[t] = "pending" /\ Status' = [Status EXCEPT ![t] = Status'[t]]
  BY <1>1, <1>2, StatusStep DEF Facts
<1>6. \E o \in Set!Ops, k \in Keys : op' = [op EXCEPT ![t] = o] /\ key' = [key EXCEPT ![t] = k]
  BY <1>1 DEF Call, Set!Ops
<1>7. Set!Invoke(t)
  BY <1>3, <1>5, <1>6 DEF Set!Invoke
<1>8. SeenInv(t)'
  BY <1>2, <1>4 DEF SeenInv
<1> QED BY <1>7, <1>8 DEF Simulates, Moves

LEMMA ReturnStep ==
    ASSUME SInv, NEW t \in Threads, Return(t), UNCHANGED lock, Record
    PROVE  Simulates(t)
<1>1. Facts(t) /\ TypeOK /\ SeenInv(t)
  BY StepFacts DEF SInv, IInv, Work
<1>2. /\ pc[t] = "return" /\ pc'[t] = "idle" /\ res[t] \in {"true", "false"} /\ res'[t] = "pending"
      /\ data' = data
  BY <1>1, TableType DEF Return, At, Goto, SeenInv, TypeOK, ProbeTypeOK
<1>3. Contents' = Contents
  BY <1>2 DEF Contents
<1>4. /\ Status[t] = res[t] /\ Status'[t] = "idle" /\ Status' = [Status EXCEPT ![t] = Status'[t]]
  BY <1>1, <1>2, StatusStep DEF Facts
<1>5. /\ \E o \in Set!Ops \cup {"none"} : op' = [op EXCEPT ![t] = o]
      /\ \E k \in Keys \cup {0} : key' = [key EXCEPT ![t] = k]
  BY DEF Return, EMPTY
<1>6. Set!Return(t)
  BY <1>2, <1>3, <1>4, <1>5 DEF Set!Return, Set!Answered
<1>7. SeenInv(t)'
  BY <1>2 DEF SeenInv
<1> QED BY <1>6, <1>7 DEF Simulates, Moves

-----------------------------------------------------------------------------
\* All of it together.

LEMMA EveryStep ==
    ASSUME SInv, NEW t \in Threads, Start(t) \/ Work(t)
    PROVE  Simulates(t)
<1>1. CASE Start(t)
  BY <1>1, CallStep
<1>2. CASE Return(t) /\ UNCHANGED lock /\ Record
  BY <1>2, ReturnStep
<1>3. CASE alg = "A" /\ AStep(t) /\ Record
  <2>1. alg # "C"
    BY <1>3
  <2>2. CASE ALock(t)
    BY <1>3, <2>2, LockSteps
  <2>3. CASE ARead(t)
    BY <1>3, <2>3, AReadStep
  <2>4. CASE WriteSlot(t)
    BY <1>3, <2>1, <2>4, WriteSlotStep
  <2>5. CASE UnlockSlot(t)
    BY <1>3, <2>1, <2>5, UnlockSlotStep
  <2> QED BY <1>3, <2>2, <2>3, <2>4, <2>5 DEF AStep
<1>4. CASE alg = "B" /\ BStep(t) /\ Record
  BY <1>4, LockSteps, BReadStep, BRecheckInsertStep, BRecheckEraseStep, WriteSlotStep,
     UnlockSlotStep DEF BStep
<1>5. CASE alg = "C" /\ CStep(t) /\ UNCHANGED lock /\ Record
  BY <1>5, CReadStep, CInsertCASStep, CEraseCASStep DEF CStep
<1> QED BY <1>1, <1>2, <1>3, <1>4, <1>5 DEF Work, Probe

LEMMA InitSInv == Init => SInv
<1> SUFFICES ASSUME Init PROVE SInv
  OBVIOUS
<1>1. \A t \in Threads : SeenInv(t)
  BY DEF Init, ProbeInit, SeenInv
<1> QED BY <1>1, InitIInv DEF SInv

LEMMA NextSInv == SInv /\ [Next]_vars => SInv'
<1>1. ASSUME SInv, NEW t \in Threads, Start(t) \/ Work(t) PROVE \A u \in Threads : SeenInv(u)'
  <2>1. SeenInv(t)'
    BY <1>1, EveryStep DEF Simulates
  <2>2. \A u \in Threads \ {t} : SeenInv(u)'
    BY <1>1, OthersKeepSeen
  <2> QED BY <2>1, <2>2
<1>2. ASSUME SInv, UNCHANGED vars PROVE \A u \in Threads : SeenInv(u)'
  <2>1. Contents' = Contents
    BY <1>2 DEF vars, lockVars, Contents
  <2> QED BY <1>2, <2>1 DEF vars, lockVars, SInv, SeenInv, Here, Slot
<1> QED BY <1>1, <1>2, NextIInv DEF SInv, Next

LEMMA InitSet == Init => Set!Init
<1> SUFFICES ASSUME Init PROVE Set!Init
  OBVIOUS
<1>1. Contents = {}
  BY Sentinels DEF Init, ProbeInit, Contents
<1>2. 0 \in Positions
  BY CapacityAssumption DEF Positions
<1>3. NoRoom = {}
  <2>1. \A k \in Keys : data[Slot(k, 0)] = EMPTY
    BY <1>2, SlotInRange DEF Init, ProbeInit
  <2> QED BY <1>2, <2>1 DEF NoRoom
<1>4. Status = [t \in Threads |-> "idle"]
  BY DEF Init, ProbeInit, Status
<1> QED BY <1>1, <1>3, <1>4 DEF Init, ProbeInit, Set!Init, EMPTY

\* What the tables record is what the set records.
LEMMA SameWitness ==
    ASSUME TypeOK, TypeOK', NEW t \in Threads
    PROVE  Witness(t) = Set!Observe(t)
<1>1. (Status[t] = "idle" <=> pc[t] = "idle") /\ (Status'[t] = "idle" <=> pc'[t] = "idle")
  BY DEF TypeOK, ProbeTypeOK, Status
<1> QED BY <1>1 DEF Witness, Set!Observe

LEMMA NextSet == SInv /\ SInv' /\ [Next]_vars => [Set!Next]_(Set!objVars)
<1>1. ASSUME SInv, SInv', NEW t \in Threads, Start(t) \/ Work(t) PROVE Set!Next
  <2>1. Moves(t)
    BY <1>1, EveryStep DEF Simulates
  <2>2. NoRoom \subseteq NoRoom' /\ NoRoom' \subseteq Keys
    BY <1>1, StepFacts, DataStepAges, RoomShrinks DEF SInv, IInv, Facts
  <2>3. seen' = [u \in Threads |-> Set!Observe(u)]
    BY <1>1, SameWitness DEF SInv, IInv, Start, Work, Record
  <2> QED BY <2>1, <2>2, <2>3 DEF Moves, Set!Next
<1>2. ASSUME UNCHANGED vars PROVE UNCHANGED Set!objVars
  BY <1>2 DEF vars, lockVars, Set!objVars, Contents, NoRoom, Status
<1> QED BY <1>1, <1>2 DEF Next

\* insertIfAbsent and erase of the three tables are linearizable: every update
\* happens at one step between its call and its return, and every failure reports
\* what was so at some step in between (alg_a.h:53-97, alg_b.h:51-103, alg_c.h:43-80).
THEOREM TablesAreLinearizable == Spec => Linearizable
<1>1. Spec => []SInv
  BY InitSInv, NextSInv, PTL DEF Spec
<1> QED BY <1>1, InitSet, NextSet, PTL DEF Spec, Linearizable, Set!Spec

-----------------------------------------------------------------------------
\* f has the partial sums of the first n numbers of w.
Adds(f, w, n) ==
    /\ f \in [0 .. n -> Int] /\ f[0] = 0
    /\ \A j \in 0 .. n - 1 : w[j] \in Int /\ f[j + 1] = f[j] + w[j]

Worth(s) == IF data[s] > 0 THEN data[s] ELSE 0
Total(x) == \E f : Adds(f, [s \in Slots |-> Worth(s)], Capacity) /\ f[Capacity] = x

\* What a call has done to the table and its thread has not yet recorded.
Owed(t) == IF Status[t] # "true" THEN 0 ELSE IF op[t] = "insert" THEN key[t] ELSE -key[t]

\* e lists the threads that owe something; together they owe x.
Debts(e, n, x) ==
    /\ e \in [0 .. n - 1 -> Threads]
    /\ \A j, l \in 0 .. n - 1 : e[j] = e[l] => j = l
    /\ \A t \in Threads : Owed(t) # 0 <=> \E j \in 0 .. n - 1 : e[j] = t
    /\ \E f : Adds(f, [j \in 0 .. n - 1 |-> Owed(e[j])], n) /\ f[n] = x
Debt(x) == \E n \in Nat : \E e : Debts(e, n, x)

Balance == \E x \in Int : Debt(x) /\ Total(checksum + x)

-----------------------------------------------------------------------------
\* Sums.

LEMMA Least == \A S \in SUBSET Nat : S # {} => \E x \in S : \A y \in S : x <= y
<1> SUFFICES ASSUME NEW S \in SUBSET Nat, S # {} PROVE \E x \in S : \A y \in S : x <= y
  OBVIOUS
<1>1. PICK x \in S : \A y \in S : ~(<<y, x>> \in OpToRel(<, Nat))
  BY NatLessThanWellFounded, WFMin
<1>2. \A y \in S : ~(y < x)
  BY <1>1 DEF OpToRel
<1> QED BY <1>2

LEMMA OneSum ==
    ASSUME NEW n \in Nat, NEW w, NEW f, NEW g, Adds(f, w, n), Adds(g, w, n)
    PROVE  f[n] = g[n]
<1> DEFINE Bad == {j \in 0 .. n : f[j] # g[j]}
<1> SUFFICES ASSUME Bad # {} PROVE FALSE
  OBVIOUS
<1>1. Bad \in SUBSET Nat
  OBVIOUS
<1>2. PICK x \in Bad : \A y \in Bad : x <= y
  <2> HIDE DEF Bad
  <2> QED BY <1>1, Least
<1>3. x \in 0 .. n /\ f[x] # g[x] /\ x # 0
  BY <1>2 DEF Adds
<1>4. x - 1 \in 0 .. n - 1 /\ x - 1 \notin Bad
  BY <1>2, <1>3
<1>5. f[x - 1] = g[x - 1] /\ f[(x - 1) + 1] = f[x - 1] + w[x - 1] /\ g[(x - 1) + 1] = g[x - 1] + w[x - 1]
  BY <1>4 DEF Adds
<1> QED BY <1>3, <1>5

\* One number changes.
LEMMA SumChange ==
    ASSUME NEW n \in Nat, NEW v, NEW w, NEW f, Adds(f, v, n), NEW s \in 0 .. n - 1,
           v[s] \in Int, w[s] \in Int, \A j \in 0 .. n - 1 : j # s => w[j] = v[j]
    PROVE  \E g : Adds(g, w, n) /\ g[n] = f[n] + (w[s] - v[s])
<1> DEFINE g == [j \in 0 .. n |-> IF j <= s THEN f[j] ELSE f[j] + (w[s] - v[s])]
<1>1. f \in [0 .. n -> Int] /\ f[0] = 0 /\ \A j \in 0 .. n - 1 : v[j] \in Int /\ f[j + 1] = f[j] + v[j]
  BY DEF Adds
<1>2. g \in [0 .. n -> Int] /\ g[0] = 0 /\ g[n] = f[n] + (w[s] - v[s])
  BY <1>1, SMTT(60)
<1>3. ASSUME NEW j \in 0 .. n - 1 PROVE w[j] \in Int /\ g[j + 1] = g[j] + w[j]
  <2>1. f[j + 1] = f[j] + v[j] /\ f[j] \in Int /\ f[j + 1] \in Int /\ v[j] \in Int
    BY <1>1
  <2>2. /\ g[j] = (IF j <= s THEN f[j] ELSE f[j] + (w[s] - v[s]))
        /\ g[j + 1] = (IF j + 1 <= s THEN f[j + 1] ELSE f[j + 1] + (w[s] - v[s]))
        /\ j # s => w[j] = v[j]
    OBVIOUS
  <2> HIDE DEF g
  <2>3. CASE j < s
    <3>1. w[j] = v[j] /\ g[j] = f[j] /\ g[j + 1] = f[j + 1]
      BY <2>2, <2>3
    <3> QED BY <2>1, <3>1
  <2>4. CASE j = s
    <3>1. g[j] = f[j] /\ g[j + 1] = f[j + 1] + (w[j] - v[j]) /\ w[j] \in Int
      BY <2>2, <2>4
    <3> QED BY <2>1, <3>1
  <2>5. CASE s < j
    <3>1. w[j] = v[j] /\ g[j] = f[j] + (w[s] - v[s]) /\ g[j + 1] = f[j + 1] + (w[s] - v[s])
      BY <2>2, <2>5
    <3> QED BY <2>1, <3>1
  <2> QED BY <2>3, <2>4, <2>5
<1> QED BY <1>2, <1>3 DEF Adds

\* One number more.
LEMMA SumMore ==
    ASSUME NEW n \in Nat, NEW v, NEW w, NEW f, Adds(f, v, n), w[n] \in Int,
           \A j \in 0 .. n - 1 : w[j] = v[j]
    PROVE  \E g : Adds(g, w, n + 1) /\ g[n + 1] = f[n] + w[n]
<1> DEFINE g == [j \in 0 .. n + 1 |-> IF j = n + 1 THEN f[n] + w[n] ELSE f[j]]
<1>1. f \in [0 .. n -> Int] /\ f[0] = 0 /\ \A j \in 0 .. n - 1 : v[j] \in Int /\ f[j + 1] = f[j] + v[j]
  BY DEF Adds
<1>2. g \in [0 .. n + 1 -> Int] /\ g[0] = 0 /\ g[n + 1] = f[n] + w[n]
  BY <1>1
<1>3. ASSUME NEW j \in 0 .. (n + 1) - 1 PROVE w[j] \in Int /\ g[j + 1] = g[j] + w[j]
  <2>1. CASE j = n
    BY <1>1, <2>1
  <2>2. CASE j # n
    <3>1. j \in 0 .. n - 1 /\ j \in 0 .. n + 1 /\ j + 1 \in 0 .. n + 1 /\ j # n + 1 /\ j + 1 # n + 1
      BY <2>2
    <3>2. g[j] = f[j] /\ g[j + 1] = f[j + 1]
      BY <3>1
    <3>3. w[j] = v[j] /\ v[j] \in Int /\ f[j + 1] = f[j] + v[j]
      BY <1>1, <3>1
    <3> HIDE DEF g
    <3> QED BY <3>2, <3>3
  <2> QED BY <2>1, <2>2
<1> HIDE DEF g
<1> QED BY <1>2, <1>3 DEF Adds

\* One number less.
LEMMA SumLess ==
    ASSUME NEW n \in Nat, NEW v, NEW w, NEW f, Adds(f, v, n + 1), NEW s \in 0 .. n, v[s] \in Int,
           \A j \in 0 .. n - 1 : w[j] = IF j < s THEN v[j] ELSE v[j + 1]
    PROVE  \E g : Adds(g, w, n) /\ g[n] = f[n + 1] - v[s]
<1> DEFINE g == [j \in 0 .. n |-> IF j <= s THEN f[j] ELSE f[j + 1] - v[s]]
<1>1. f \in [0 .. n + 1 -> Int] /\ f[0] = 0 /\ \A j \in 0 .. n : v[j] \in Int /\ f[j + 1] = f[j] + v[j]
  BY DEF Adds
<1>2. f[s + 1] = f[s] + v[s] /\ f[s + 1] \in Int /\ f[s] \in Int
  BY <1>1
<1>3. g \in [0 .. n -> Int] /\ g[0] = 0
  BY <1>1
<1>4. g[n] = f[n + 1] - v[s]
  <2>1. CASE s = n
    BY <1>1, <1>2, <2>1
  <2>2. CASE s < n
    BY <1>1, <2>2
  <2> QED BY <2>1, <2>2
<1>5. ASSUME NEW j \in 0 .. n - 1 PROVE w[j] \in Int /\ g[j + 1] = g[j] + w[j]
  <2>1. /\ f[j + 1] = f[j] + v[j] /\ f[j + 2] = f[j + 1] + v[j + 1]
        /\ f[j] \in Int /\ f[j + 1] \in Int /\ f[j + 2] \in Int /\ v[j] \in Int /\ v[j + 1] \in Int
    <3>1. j \in 0 .. n /\ j + 1 \in 0 .. n /\ (j + 1) + 1 = j + 2 /\ j + 2 \in 0 .. n + 1
      OBVIOUS
    <3>2. f[(j + 1) + 1] = f[j + 1] + v[j + 1] /\ v[j + 1] \in Int
      BY <1>1, <3>1
    <3> QED BY <1>1, <3>1, <3>2, SMTT(60)
  <2>2. g[j] = (IF j <= s THEN f[j] ELSE f[j + 1] - v[s])
        /\ g[j + 1] = (IF j + 1 <= s THEN f[j + 1] ELSE f[j + 2] - v[s])
        /\ w[j] = (IF j < s THEN v[j] ELSE v[j + 1])
    BY <2>1
  <2> HIDE DEF g
  <2>3. CASE j < s
    <3>1. w[j] = v[j] /\ g[j] = f[j] /\ g[j + 1] = f[j + 1]
      BY <2>2, <2>3
    <3> QED BY <2>1, <3>1
  <2>4. CASE j = s
    <3>1. w[j] = v[j + 1] /\ g[j] = f[j] /\ g[j + 1] = f[j + 2] - v[j]
      BY <2>2, <2>4
    <3> QED BY <2>1, <3>1
  <2>5. CASE s < j
    <3>1. w[j] = v[j + 1] /\ g[j] = f[j + 1] - v[s] /\ g[j + 1] = f[j + 2] - v[s]
      BY <2>2, <2>5
    <3> QED BY <2>1, <3>1
  <2> QED BY <2>3, <2>4, <2>5
<1> QED BY <1>3, <1>4, <1>5 DEF Adds

\* The benchmark's loop over the slots.
LEMMA SumIs ==
    ASSUME NEW x, Total(x)
    PROVE  SumOfKeys = x
<1>1. PICK f : Adds(f, [s \in Slots |-> Worth(s)], Capacity) /\ f[Capacity] = x
  BY DEF Total
<1> DEFINE IsTotal(g) == g = [s \in 0 .. Capacity |->
                                IF s = 0 THEN 0
                                ELSE g[s - 1] + (IF data[s - 1] > 0 THEN data[s - 1] ELSE 0)]
           total == CHOOSE g : IsTotal(g)
<1>2. SumOfKeys = total[Capacity]
  BY DEF SumOfKeys
<1>3. Capacity \in Nat \ {0} /\ Slots = 0 .. Capacity - 1
  BY CapacityAssumption DEF Slots
<1>4. /\ f \in [0 .. Capacity -> Int] /\ f[0] = 0
      /\ \A s \in 0 .. Capacity - 1 : Worth(s) \in Int /\ f[s + 1] = f[s] + Worth(s)
  BY <1>1, <1>3 DEF Adds
<1>5. \A s \in 0 .. Capacity : s # 0 => f[s] = f[s - 1] + Worth(s - 1)
  <2> SUFFICES ASSUME NEW s \in 0 .. Capacity, s # 0 PROVE f[s] = f[s - 1] + Worth(s - 1)
    OBVIOUS
  <2>1. s - 1 \in 0 .. Capacity - 1 /\ (s - 1) + 1 = s
    BY <1>3
  <2> QED BY <1>4, <2>1
<1>6. IsTotal(f)
  BY <1>4, <1>5 DEF Worth
<1>7. IsTotal(total)
  BY <1>6
<1>8. total[0] = 0 /\ \A s \in 0 .. Capacity : s # 0 => total[s] = total[s - 1] + Worth(s - 1)
  <2> HIDE DEF total
  <2> QED BY <1>3, <1>7 DEF Worth
<1> DEFINE Bad == {s \in 0 .. Capacity : total[s] # f[s]}
<1>9. Bad = {}
  <2> SUFFICES ASSUME Bad # {} PROVE FALSE
    OBVIOUS
  <2>1. Bad \in SUBSET Nat
    BY <1>3
  <2>2. PICK x0 \in Bad : \A y \in Bad : x0 <= y
    <3> HIDE DEF Bad
    <3> QED BY <2>1, Least
  <2> HIDE DEF total
  <2>3. x0 \in 0 .. Capacity /\ x0 # 0 /\ total[x0] # f[x0]
    BY <1>4, <1>8, <2>2
  <2>4. x0 - 1 \in 0 .. Capacity /\ x0 - 1 \notin Bad
    BY <1>3, <2>2, <2>3
  <2>5. total[x0 - 1] = f[x0 - 1]
    BY <2>4
  <2> QED BY <1>5, <1>8, <2>3, <2>5
<1> QED BY <1>1, <1>2, <1>3, <1>9

LEMMA TotalStep ==
    ASSUME TypeOK, NEW s \in Slots, NEW k \in Keys \cup {EMPTY, TOMBSTONE},
           data' = [data EXCEPT ![s] = k], NEW x, Total(x), NEW y, y = (IF k > 0 THEN k ELSE 0) - Worth(s)
    PROVE  Total(x + y)'
<1>0. Slots = 0 .. Capacity - 1 /\ Capacity \in Nat
  BY CapacityAssumption DEF Slots
<1>1. PICK f : Adds(f, [r \in Slots |-> Worth(r)], Capacity) /\ f[Capacity] = x
  BY DEF Total
<1> DEFINE v == [r \in Slots |-> Worth(r)]
           w == [r \in Slots |-> Worth(r)']
<1>2. \A r \in Slots : data[r] \in Int /\ data'[r] \in Int
  <2>1. Keys \cup {EMPTY, TOMBSTONE} \subseteq Int
    BY KeysAssumption DEF EMPTY, TOMBSTONE
  <2>2. \A r \in Slots : /\ data[r] \in Keys \cup {EMPTY, TOMBSTONE}
                          /\ data'[r] \in Keys \cup {EMPTY, TOMBSTONE}
    BY TableType
  <2> QED BY <2>1, <2>2
<1>3. \A r \in Slots : v[r] \in Int /\ w[r] \in Int /\ (r # s => w[r] = v[r])
  BY <1>2, TableType DEF Worth
<1>4. w[s] = (IF k > 0 THEN k ELSE 0) /\ v[s] = Worth(s)
  BY TableType DEF Worth
<1> HIDE DEF v, w
<1>5. PICK g : Adds(g, w, Capacity) /\ g[Capacity] = f[Capacity] + (w[s] - v[s])
  <2>1. Adds(f, v, Capacity)
    BY <1>1 DEF v
  <2>2. /\ s \in 0 .. Capacity - 1 /\ v[s] \in Int /\ w[s] \in Int
        /\ \A j \in 0 .. Capacity - 1 : j # s => w[j] = v[j]
    BY <1>0, <1>3
  <2> QED BY <1>0, <2>1, <2>2, SumChange
<1> QED BY <1>1, <1>4, <1>5 DEF Total, w

-----------------------------------------------------------------------------
\* What is owed.

LEMMA DebtStays ==
    ASSUME NEW x, Debt(x), \A t \in Threads : Owed(t)' = Owed(t)
    PROVE  Debt(x)'
<1>n. PICK n \in Nat : \E e : Debts(e, n, x)
  BY DEF Debt
<1>1. PICK e : Debts(e, n, x)
  BY <1>n
<1>2. [j \in 0 .. n - 1 |-> Owed(e[j])] = [j \in 0 .. n - 1 |-> Owed(e[j])']
  BY <1>1 DEF Debts
<1>3. Debts(e, n, x)'
  BY <1>1, <1>2 DEF Debts
<1> QED BY <1>3 DEF Debt

LEMMA DebtMade ==
    ASSUME NEW x, Debt(x), NEW t \in Threads, Owed(t) = 0, NEW y \in Int \ {0}, Owed(t)' = y,
           \A u \in Threads \ {t} : Owed(u)' = Owed(u)
    PROVE  Debt(x + y)'
<1>n. PICK n \in Nat : \E e : Debts(e, n, x)
  BY DEF Debt
<1>1. PICK e : Debts(e, n, x)
  BY <1>n
<1>2. PICK f : Adds(f, [j \in 0 .. n - 1 |-> Owed(e[j])], n) /\ f[n] = x
  BY <1>1 DEF Debts
<1> DEFINE d == [j \in 0 .. n |-> IF j = n THEN t ELSE e[j]]
           v == [j \in 0 .. n - 1 |-> Owed(e[j])]
           w == [j \in 0 .. n |-> Owed(d[j])']
<1>3. /\ \A j \in 0 .. n - 1 : e[j] \in Threads \ {t} /\ j \in 0 .. n /\ j # n
      /\ \A j \in 0 .. n : j = n \/ j \in 0 .. n - 1
  BY <1>1 DEF Debts
<1>4. d \in [0 .. n -> Threads] /\ d[n] = t /\ \A j \in 0 .. n - 1 : d[j] = e[j]
  BY <1>3
<1>5. w[n] = y /\ \A j \in 0 .. n - 1 : w[j] = v[j]
  BY <1>3, <1>4
<1> HIDE DEF d, v, w
<1>6. PICK g : Adds(g, w, n + 1) /\ g[n + 1] = f[n] + w[n]
  BY <1>2, <1>5, SumMore DEF v
<1>7. \A j, l \in 0 .. n : d[j] = d[l] => j = l
  BY <1>1, <1>3, <1>4 DEF Debts
<1>8. \A u \in Threads : Owed(u)' # 0 <=> \E j \in 0 .. n : d[j] = u
  <2> SUFFICES ASSUME NEW u \in Threads PROVE Owed(u)' # 0 <=> \E j \in 0 .. n : d[j] = u
    OBVIOUS
  <2>1. CASE u = t
    BY <1>4, <2>1
  <2>2. CASE u # t
    BY <1>1, <1>3, <1>4, <2>2 DEF Debts
  <2> QED BY <2>1, <2>2
<1>9. (n + 1) - 1 = n /\ n + 1 \in Nat
  OBVIOUS
<1>10. Debts(d, n + 1, x + y)'
  BY <1>2, <1>4, <1>5, <1>6, <1>7, <1>8, <1>9, ZenonT(60) DEF Debts, w
<1> QED BY <1>9, <1>10 DEF Debt

LEMMA DebtPaid ==
    ASSUME NEW x, Debt(x), NEW t \in Threads, NEW y \in Int \ {0}, Owed(t) = y, Owed(t)' = 0,
           \A u \in Threads \ {t} : Owed(u)' = Owed(u)
    PROVE  Debt(x - y)'
<1>n. PICK m \in Nat : \E e : Debts(e, m, x)
  BY DEF Debt
<1>1. PICK e : Debts(e, m, x)
  BY <1>n
<1>2. PICK f : Adds(f, [j \in 0 .. m - 1 |-> Owed(e[j])], m) /\ f[m] = x
  BY <1>1 DEF Debts
<1>3. PICK s \in 0 .. m - 1 : e[s] = t
  BY <1>1 DEF Debts
<1>4. PICK n \in Nat : m = n + 1
  <2>1. m # 0
    BY <1>3
  <2>2. m - 1 \in Nat /\ m = (m - 1) + 1
    BY <2>1
  <2> QED BY <2>2
<1> DEFINE d == [j \in 0 .. n - 1 |-> IF j < s THEN e[j] ELSE e[j + 1]]
           v == [j \in 0 .. m - 1 |-> Owed(e[j])]
           w == [j \in 0 .. n - 1 |-> Owed(d[j])']
<1>5. s \in 0 .. n /\ m - 1 = n
  BY <1>3, <1>4
<1>6. /\ e \in [0 .. n -> Threads] /\ \A j, l \in 0 .. n : e[j] = e[l] => j = l
      /\ \A u \in Threads : Owed(u) # 0 <=> \E j \in 0 .. n : e[j] = u
  BY <1>1, <1>5 DEF Debts
<1>7. ASSUME NEW j \in 0 .. n - 1
      PROVE  /\ d[j] = (IF j < s THEN e[j] ELSE e[j + 1])
             /\ j \in 0 .. n /\ j + 1 \in 0 .. n /\ d[j] \in Threads \ {t}
             /\ w[j] = Owed(d[j])' /\ w[j] = Owed(d[j])
  <2>1. d[j] = (IF j < s THEN e[j] ELSE e[j + 1]) /\ j \in 0 .. n /\ j + 1 \in 0 .. n
    BY <1>5
  <2>2. d[j] \in Threads \ {t}
    <3>1. CASE j < s
      BY <1>3, <1>5, <1>6, <2>1, <3>1
    <3>2. CASE ~(j < s)
      <4>1. j + 1 # s
        BY <1>5, <3>2
      <4> QED BY <1>3, <1>5, <1>6, <2>1, <3>2, <4>1
    <3> QED BY <3>1, <3>2
  <2> HIDE DEF d
  <2> QED BY <2>1, <2>2
<1>8. d \in [0 .. n - 1 -> Threads]
  BY <1>6, <1>7
<1>9. v[s] = y /\ \A j \in 0 .. n - 1 : w[j] = IF j < s THEN v[j] ELSE v[j + 1]
  <2>1. \A j \in 0 .. n : v[j] = Owed(e[j])
    BY <1>5
  <2> HIDE DEF d, v, w
  <2> QED BY <1>3, <1>5, <1>7, <2>1
<1>10. \A j, l \in 0 .. n - 1 : d[j] = d[l] => j = l
  <2> HIDE DEF d, v, w
  <2> SUFFICES ASSUME NEW j \in 0 .. n - 1, NEW l \in 0 .. n - 1, d[j] = d[l] PROVE j = l
    OBVIOUS
  <2>1. PICK a \in 0 .. n : d[j] = e[a] /\ a = IF j < s THEN j ELSE j + 1
    BY <1>7
  <2>2. PICK b \in 0 .. n : d[l] = e[b] /\ b = IF l < s THEN l ELSE l + 1
    BY <1>7
  <2>3. a = b
    BY <1>6, <2>1, <2>2, ZenonT(60)
  <2> QED BY <1>5, <2>1, <2>2, <2>3
<1>11. \A u \in Threads : Owed(u)' # 0 <=> \E j \in 0 .. n - 1 : d[j] = u
  <2> HIDE DEF d, v, w
  <2> SUFFICES ASSUME NEW u \in Threads PROVE Owed(u)' # 0 <=> \E j \in 0 .. n - 1 : d[j] = u
    OBVIOUS
  <2>1. CASE u = t
    BY <1>7, <2>1
  <2>2. CASE u # t
    <3>1. (\E j \in 0 .. n - 1 : d[j] = u) => \E j \in 0 .. n : e[j] = u
      BY <1>7
    <3>2. ASSUME NEW j \in 0 .. n, e[j] = u PROVE \E l \in 0 .. n - 1 : d[l] = u
      <4>1. j # s
        BY <1>3, <2>2, <3>2
      <4>2. CASE j < s
        <5>1. j \in 0 .. n - 1
          BY <1>5, <4>2
        <5> QED BY <1>7, <3>2, <4>2, <5>1
      <4>3. CASE s < j
        <5>1. j - 1 \in 0 .. n - 1 /\ ~(j - 1 < s) /\ (j - 1) + 1 = j
          BY <1>5, <4>3
        <5> QED BY <1>7, <3>2, <5>1
      <4> QED BY <1>5, <4>1, <4>2, <4>3
    <3> QED BY <1>6, <2>2, <3>1, <3>2
  <2> QED BY <2>1, <2>2
<1> HIDE DEF d, v
<1>12. PICK g : Adds(g, w, n) /\ g[n] = f[n + 1] - v[s]
  <2> HIDE DEF w
  <2>1. Adds(f, v, n + 1) /\ v[s] \in Int
    BY <1>2, <1>4, <1>9 DEF v
  <2> QED BY <1>5, <1>9, <2>1, SumLess, SMTT(60)
<1>13. Debts(d, n, x - y)'
  BY <1>2, <1>4, <1>8, <1>9, <1>10, <1>11, <1>12 DEF Debts
<1> QED BY <1>13 DEF Debt

-----------------------------------------------------------------------------
\* Table, checksum and debts change together.

LEMMA OwedIs ==
    ASSUME SInv, NEW t \in Threads
    PROVE  /\ Owed(t) \in Int
           /\ Status[t] # "true" => Owed(t) = 0
           /\ Status[t] = "true" => Owed(t) # 0 /\ op[t] \in {"insert", "erase"} /\ key[t] \in Keys
<1>1. ThreadInv(t) /\ TypeOK
  BY DEF SInv, IInv
<1>2. Status[t] = "true" => pc[t] # "idle"
  BY DEF Status
<1>3. Status[t] = "true" => op[t] \in {"insert", "erase"} /\ key[t] \in Keys
  BY <1>1, <1>2 DEF ThreadInv
<1>4. \A k \in Keys : k \in Int /\ -k \in Int /\ k # 0 /\ -k # 0
  BY KeysAssumption
<1>5. CASE Status[t] = "true"
  BY <1>3, <1>4, <1>5 DEF Owed
<1>6. CASE Status[t] # "true"
  BY <1>6 DEF Owed
<1> QED BY <1>5, <1>6

LEMMA DataChanges ==
    ASSUME SInv, NEW t \in Threads, Start(t) \/ Work(t)
    PROVE  \/ data' = data /\ Contents' = Contents
           \/ /\ key[t] \in Keys /\ data[Here(t)] = EMPTY /\ data' = [data EXCEPT ![Here(t)] = key[t]]
              /\ key[t] \notin Contents /\ Contents' = Contents \cup {key[t]}
           \/ /\ key[t] \in Keys /\ data[Here(t)] = key[t] /\ data' = [data EXCEPT ![Here(t)] = TOMBSTONE]
              /\ key[t] \in Contents /\ Contents' = Contents \ {key[t]}
<1>1. IInv /\ TypeOK /\ DataStep(t)
  BY StepFacts DEF SInv, IInv, Facts
<1>2. CASE data' = data
  BY <1>2 DEF Contents
<1>3. CASE key[t] \in Keys /\ data[Here(t)] = EMPTY /\ Passed(t) /\ data' = [data EXCEPT ![Here(t)] = key[t]]
  BY <1>1, <1>3, Inserts
<1>4. CASE /\ key[t] \in Keys /\ data[Here(t)] \in {key[t], TOMBSTONE}
           /\ data' = [data EXCEPT ![Here(t)] = TOMBSTONE]
  <2>1. CASE data[Here(t)] = key[t]
    BY <1>1, <1>4, <2>1, Erases
  <2>2. CASE data[Here(t)] = TOMBSTONE
    BY <1>1, <1>2, <1>4, <2>2, ErasesNothing
  <2> QED BY <1>4, <2>1, <2>2
<1> QED BY <1>1, <1>2, <1>3, <1>4 DEF DataStep

LEMMA OthersOwe ==
    ASSUME SInv, NEW t \in Threads, Start(t) \/ Work(t), NEW u \in Threads \ {t}
    PROVE  Owed(u)' = Owed(u)
<1>1. Frame(t)
  BY StepFacts DEF SInv, IInv, Facts
<1> QED BY <1>1 DEF Frame, Owed, Status

LEMMA ChecksumStep ==
    ASSUME SInv, NEW t \in Threads, Start(t) \/ Work(t)
    PROVE  \/ checksum' = checksum /\ ~Return(t)
           \/ checksum' = checksum + Owed(t) /\ Return(t)
<1>1. CASE Return(t)
  <2>1. pc[t] = "return" /\ SeenInv(t) /\ TypeOK /\ ThreadInv(t)
    BY <1>1 DEF Return, At, SInv, IInv
  <2>2. res[t] \in {"true", "false"} /\ Status[t] = res[t] /\ key[t] \in Keys /\ checksum \in Int
    BY <2>1, TableType DEF SeenInv, Status, TypeOK, ProbeTypeOK, ThreadInv
  <2>3. key[t] \in Int
    <3>1. \A k \in Keys : k \in Int
      BY KeysAssumption
    <3> QED BY <2>2, <3>1
  <2>4. checksum' = IF res[t] = "false" THEN checksum
                    ELSE IF op[t] = "insert" THEN checksum + key[t] ELSE checksum - key[t]
    BY <1>1 DEF Return
  <2>5. Owed(t) = IF res[t] = "false" THEN 0 ELSE IF op[t] = "insert" THEN key[t] ELSE -key[t]
    BY <2>2 DEF Owed
  <2>6. checksum' = checksum + Owed(t)
    BY <2>2, <2>3, <2>4, <2>5
  <2> QED BY <1>1, <2>6
<1>2. CASE ~Return(t)
  BY <1>2 DEF Start, Call, Work, Probe, AStep, BStep, CStep, ALock, ARead, WriteSlot, UnlockSlot, BRead, BLock,
         BRecheckInsert, BRecheckErase, CInsertRead, CInsertCAS, CEraseRead, CEraseCAS, LockSlot
<1> QED BY <1>1, <1>2

LEMMA BalanceStep ==
    ASSUME SInv, SInv', NEW t \in Threads, Start(t) \/ Work(t), Balance
    PROVE  Balance'
<1>0. /\ IInv /\ TypeOK /\ SeenInv(t) /\ ThreadInv(t) /\ Moves(t) /\ checksum \in Int
      /\ \A u \in Threads \ {t} : Owed(u)' = Owed(u)
      /\ Status \in [Threads -> {"idle", "pending", "true", "false"}]
  BY EveryStep, OthersOwe DEF SInv, IInv, Simulates, TypeOK, ProbeTypeOK, Status
<1>1. PICK x \in Int, z \in Int : Debt(x) /\ Total(z) /\ z = checksum + x
  <2>1. PICK x \in Int : Debt(x) /\ Total(checksum + x)
    BY DEF Balance
  <2>2. checksum + x \in Int
    BY <1>0
  <2> QED BY <2>1, <2>2
\* It is enough to say how much each of the three changes.
<1>2. ASSUME NEW d \in Int, NEW e \in Int, Debt(x + d)', Total(z + e)', checksum' = checksum + (e - d)
      PROVE  Balance'
  <2>1. checksum' + (x + d) = z + e /\ x + d \in Int
    BY <1>0, <1>1, <1>2
  <2>2. ASSUME NEW a \in Int, NEW b, Debt(a)', Total(b)', checksum' + a = b PROVE Balance'
    BY <2>2 DEF Balance
  <2> QED BY <1>2, <2>1, <2>2
<1>3. ASSUME NEW d \in Int, Owed(t)' = Owed(t) + d, d = 0 \/ Owed(t) = 0 \/ Owed(t)' = 0
      PROVE  Debt(x + d)'
  <2>1. PICK y \in Int : y = Owed(t)
    BY OwedIs
  <2>2. CASE d = 0
    <3>1. x + d = x /\ \A u \in Threads : Owed(u)' = Owed(u)
      BY <1>0, <1>3, <2>1, <2>2
    <3> QED BY <1>1, <3>1, DebtStays
  <2>3. CASE d # 0 /\ y = 0
    <3>1. Owed(t)' = d /\ Owed(t) = 0
      BY <1>3, <2>1, <2>3
    <3> QED BY <1>0, <1>1, <2>3, <3>1, DebtMade
  <2>4. CASE d # 0 /\ y # 0
    <3>1. Owed(t)' = 0 /\ x - y = x + d
      BY <1>1, <1>3, <2>1, <2>4
    <3>2. Debt(x - y)'
      BY <1>0, <1>1, <2>1, <2>4, <3>1, DebtPaid
    <3>3. ASSUME NEW a, NEW b, a = b, Debt(a)' PROVE Debt(b)'
      BY <3>3
    <3> QED BY <3>1, <3>2, <3>3
  <2> QED BY <2>2, <2>3, <2>4
<1>4. ASSUME data' = data PROVE Total(z + 0)'
  <2>1. z + 0 = z
    OBVIOUS
  <2>2. Total(z)'
    BY <1>1, <1>4 DEF Total, Worth
  <2> QED BY <2>1, <2>2
<1>5. ASSUME NEW k \in Keys \cup {EMPTY, TOMBSTONE}, data' = [data EXCEPT ![Here(t)] = k], key[t] \in Keys,
             NEW e \in Int, e = (IF k > 0 THEN k ELSE 0) - Worth(Here(t))
      PROVE  Total(z + e)'
  <2>1. PICK s \in Slots : s = Here(t)
    BY <1>0, <1>5, HereInRange
  <2> QED BY <1>0, <1>1, <1>5, <2>1, TotalStep
<1>6. CASE Return(t)
  <2>1. data' = data /\ checksum' = checksum + Owed(t)
    BY <1>6, ChecksumStep DEF Return
  <2>2. pc'[t] = "idle" /\ Status'[t] = "idle"
    BY <1>0, <1>6 DEF Return, Goto, Status, TypeOK
  <2>3. Owed(t)' = 0
    BY <2>2 DEF Owed
  <2>4. PICK d \in Int : d = -Owed(t)
    BY OwedIs
  <2>5. Owed(t)' = Owed(t) + d /\ checksum' = checksum + (0 - d)
    BY <1>0, <2>1, <2>3, <2>4, OwedIs
  <2> QED BY <1>2, <1>3, <1>4, <2>1, <2>3, <2>5, SMTT(60)
<1>7. CASE ~Return(t) /\ data' = data /\ Contents' = Contents
  <2>1. checksum' = checksum + (0 - 0)
    BY <1>0, <1>7, ChecksumStep
  <2>2. CASE Start(t)
    <3>1. Status[t] = "idle" /\ Status'[t] # "true"
      BY <1>0, <2>2 DEF Start, Call, At, Goto, Status, TypeOK, SeenInv
    <3> QED BY <1>2, <1>3, <1>4, <1>7, <2>1, <3>1 DEF Owed
  <2>3. CASE Probe(t) /\ Record
    <3>1. Inside(t)
      BY <2>3, StepInside
    <3>2. op' = op /\ key' = key /\ Status'[t] # "idle"
      BY <3>1, InsideFacts DEF Inside, Status
    <3>3. Status'[t] = Status[t] \/ (Status[t] = "pending" /\ Status'[t] = "false")
      <4>1. Status[t] # "idle"
        BY <1>0, <3>1 DEF Inside, Status, TypeOK, ProbeTypeOK
      <4>2. ~Set!Invoke(t) /\ ~Set!Return(t)
        BY <1>0, <3>2, <4>1 DEF Set!Invoke, Set!Return
      <4>3. ~Set!Add(t) /\ ~Set!Remove(t)
        BY <1>7 DEF Set!Add, Set!Remove
      <4>4. CASE Set!Decline(t)
        BY <1>0, <4>4 DEF Set!Decline
      <4>5. CASE UNCHANGED <<Contents, op, key, Status>>
        BY <4>5
      <4> QED BY <1>0, <4>2, <4>3, <4>4, <4>5 DEF Moves
    <3>4. Owed(t)' = Owed(t) + 0 /\ (Owed(t)' = Owed(t))
      BY <3>2, <3>3, OwedIs DEF Owed
    <3> QED BY <1>2, <1>3, <1>4, <1>7, <2>1, <3>4
  <2> QED BY <1>7, <2>2, <2>3 DEF Work
<1>8. ASSUME ~Return(t), Contents' # Contents
      PROVE  \/ Set!Add(t) /\ Owed(t) = 0 /\ Owed(t)' = key[t]
             \/ Set!Remove(t) /\ Owed(t) = 0 /\ Owed(t)' = -key[t]
  <2>1. Set!Add(t) \/ Set!Remove(t)
    BY <1>0, <1>8 DEF Moves, Set!Invoke, Set!Decline, Set!Return
  <2>2. CASE Set!Add(t)
    BY <1>0, <2>2 DEF Set!Add, Owed
  <2>3. CASE Set!Remove(t)
    BY <1>0, <2>3 DEF Set!Remove, Owed
  <2> QED BY <2>1, <2>2, <2>3
<1>9. \A k \in Keys : k \in Int /\ k > 0 /\ -k \in Int /\ k + 0 = k
  BY KeysAssumption
<1>10. CASE /\ ~Return(t) /\ key[t] \in Keys /\ data[Here(t)] = EMPTY
            /\ data' = [data EXCEPT ![Here(t)] = key[t]]
            /\ key[t] \notin Contents /\ Contents' = Contents \cup {key[t]}
  <2>1. PICK d \in Int : d = key[t] /\ d > 0
    BY <1>9, <1>10
  <2>2. Owed(t) = 0 /\ Owed(t)' = d
    BY <1>8, <1>10, <2>1 DEF Set!Remove
  <2>3. checksum' = checksum + (d - d)
    BY <1>0, <1>10, <2>1, ChecksumStep
  <2>4. d = (IF d > 0 THEN d ELSE 0) - Worth(Here(t))
    BY <1>10, <2>1 DEF Worth, EMPTY
  <2>5. Total(z + d)'
    BY <1>5, <1>10, <2>1, <2>4
  <2>6. Debt(x + d)'
    BY <1>3, <2>1, <2>2
  <2> QED BY <1>2, <2>3, <2>5, <2>6
<1>11. CASE /\ ~Return(t) /\ key[t] \in Keys /\ data[Here(t)] = key[t]
            /\ data' = [data EXCEPT ![Here(t)] = TOMBSTONE]
            /\ key[t] \in Contents /\ Contents' = Contents \ {key[t]}
  <2>1. PICK d \in Int : d = -key[t] /\ key[t] > 0 /\ key[t] \in Int
    BY <1>9, <1>11
  <2>2. Owed(t) = 0 /\ Owed(t)' = d
    BY <1>8, <1>11, <2>1 DEF Set!Add
  <2>3. checksum' = checksum + (d - d)
    BY <1>0, <1>11, <2>1, ChecksumStep
  <2>4. d = (IF TOMBSTONE > 0 THEN TOMBSTONE ELSE 0) - Worth(Here(t))
    BY <1>11, <2>1 DEF Worth, TOMBSTONE
  <2>5. Total(z + d)'
    BY <1>5, <1>11, <2>1, <2>4
  <2>6. Debt(x + d)'
    BY <1>3, <2>1, <2>2
  <2> QED BY <1>2, <2>3, <2>5, <2>6
<1> QED BY <1>6, <1>7, <1>10, <1>11, DataChanges

LEMMA InitBalance == Init => Balance
<1> SUFFICES ASSUME Init PROVE Balance
  OBVIOUS
<1>1. data = [s \in Slots |-> EMPTY] /\ checksum = 0 /\ \A t \in Threads : Owed(t) = 0
  BY DEF Init, ProbeInit, Status, Owed
<1>2. Capacity \in Nat /\ Slots = 0 .. Capacity - 1
  BY CapacityAssumption DEF Slots
<1>3. Adds([s \in 0 .. Capacity |-> 0], [s \in Slots |-> Worth(s)], Capacity)
  BY <1>1, <1>2 DEF Adds, Worth, EMPTY
<1>4. Total(0)
  BY <1>2, <1>3, SMTT(60) DEF Total
<1> DEFINE e == [j \in 0 .. 0 - 1 |-> CHOOSE t \in Threads : TRUE]
<1>5. 0 .. 0 - 1 = {}
  OBVIOUS
<1>6. Adds([s \in 0 .. 0 |-> 0], [j \in 0 .. 0 - 1 |-> Owed(e[j])], 0)
  BY <1>5 DEF Adds
<1>7. Debts(e, 0, 0)
  BY <1>1, <1>5, <1>6 DEF Debts
<1>8. Debt(0)
  BY <1>7 DEF Debt
<1>9. checksum + 0 = 0
  BY <1>1
<1> QED BY <1>4, <1>8, <1>9 DEF Balance

LEMMA BalanceNext == SInv /\ SInv' /\ Balance /\ [Next]_vars => Balance'
<1> SUFFICES ASSUME SInv, SInv', Balance, [Next]_vars PROVE Balance'
  OBVIOUS
<1>1. CASE Next
  BY <1>1, BalanceStep DEF Next
<1>2. CASE UNCHANGED vars
  <2>1. \A t \in Threads : Owed(t)' = Owed(t)
    BY <1>2 DEF vars, lockVars, Owed, Status
  <2>2. PICK x \in Int : Debt(x) /\ \E z : Total(z) /\ z = checksum + x
    BY DEF Balance
  <2>z. PICK z : Total(z) /\ z = checksum + x
    BY <2>2
  <2>3. Debt(x)'
    BY <2>1, <2>2, DebtStays
  <2>4. Total(z)' /\ z = checksum' + x
    BY <1>2, <2>z DEF vars, lockVars, Total, Worth
  <2> QED BY <2>2, <2>3, <2>4 DEF Balance
<1> QED BY <1>1, <1>2

\* When the threads are between calls, the sum of the keys in the table is the sum of the keys
\* they were told they inserted, less those they were told they erased, whatever calls overlapped
\* before (benchmark.cpp:186, alg_a.h:100-112).
THEOREM ChecksumsAgree == Spec => []ChecksumAgrees
<1>1. Spec => []SInv
  BY InitSInv, NextSInv, PTL DEF Spec
<1>2. Spec => []Balance
  BY <1>1, InitBalance, BalanceNext, PTL DEF Spec
<1>3. SInv /\ Balance => ChecksumAgrees
  <2> SUFFICES ASSUME SInv, Balance, \A t \in Threads : pc[t] = "idle" PROVE SumOfKeys = checksum
    BY DEF ChecksumAgrees
  <2>1. PICK x \in Int : Debt(x) /\ Total(checksum + x)
    BY DEF Balance
  <2>2. \A t \in Threads : Owed(t) = 0
    BY DEF Owed, Status
  <2>n. PICK n \in Nat : \E e : Debts(e, n, x)
    BY <2>1 DEF Debt
  <2>3. PICK e : Debts(e, n, x)
    BY <2>n
  <2>4. n = 0
    <3>1. ASSUME n # 0 PROVE FALSE
      <4>1. 0 \in 0 .. n - 1
        BY <3>1
      <4> QED BY <2>2, <2>3, <4>1 DEF Debts
    <3> QED BY <3>1
  <2>5. x = 0
    BY <2>3, <2>4 DEF Debts, Adds
  <2>6. checksum + x = checksum
    BY <2>5 DEF SInv, IInv, TypeOK, ProbeTypeOK
  <2> QED BY <2>1, <2>6, SumIs
<1> QED BY <1>1, <1>2, <1>3, PTL
=============================================================================
