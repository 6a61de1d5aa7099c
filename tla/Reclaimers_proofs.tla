-------------------------- MODULE Reclaimers_proofs --------------------------
(***************************************************************************)
(* The token reclaimers and the epoch tree implement Reclamation, no node  *)
(* of the tree gets ahead of the threads below it, and whatever implements *)
(* Reclamation is safe; all for any number of threads, records and blocks. *)
(*                                                                         *)
(* The argument for the token.  There is one token, with a thread or on    *)
(* its way to it.  The rank of a thread is the number of passes until the  *)
(* token is at that thread; a pass takes one from every rank, and the      *)
(* thread that has just passed the token is the last in line.  Whoever     *)
(* holds back a record that waits for the token's next visit to t comes    *)
(* before t in line (Waits): when the token is back, there is nobody left. *)
(*                                                                         *)
(* The argument for the tree.  Whoever is on the way up carries an epoch   *)
(* that all the threads below have announced (Climbs): a node takes it     *)
(* only if both its children had it or have no threads.  So the epoch is   *)
(* that of the slowest thread or one step ahead (Behind), every rotation   *)
(* is one step, and an operation that ran when a record was retired cannot *)
(* outlast the third rotation after it (Ages).                             *)
(***************************************************************************)
EXTENDS Reclaimers, WellFoundedInduction, TLAPS

-----------------------------------------------------------------------------
(* The token. *)

Succ(t) == (t + 1) % NUM_PROCESSES

Rank(t, p) == IF t >= p THEN t - p ELSE t + NUM_PROCESSES - p

\* The token is at p, or on its way to p.
At(p) ==
    /\ \A t \in Threads : token[t] => t = p
    /\ \A t \in Threads : passing[t] => Succ(t) = p /\ ~token[p]

Busy(t) == pc[t] \in {"free", "swap"}

Controls ==
    /\ \A t \in Threads : t \in running <=> pc[t] = "op"
    /\ \A t \in Threads : Busy(t) /\ variant = "token1" => token[t]

Runs == \A r \in Records : graced[r] \subseteq running

\* The three places of a thread for retired records.
Limbo(t, i) ==
    IF i = 1 THEN curr[t] ELSE IF i = 2 THEN last[t] ELSE deamortizedFreeables[t]

Filed ==
    /\ \A r \in Records, t \in Threads, i \in 1..3 : r \in Limbo(t, i) => where[r] = "retired"
    /\ \A r \in Records, t, u \in Threads, i, j \in 1..3 :
          r \in Limbo(t, i) /\ r \in Limbo(u, j) => t = u /\ i = j

\* A thread that has passed the token and not yet swapped its bags.
Late(t) == Busy(t) /\ variant # "token1"

\* What is freed when the token is at t again, and what may be freed now.
Waiting(t) == IF Late(t) THEN curr[t] ELSE last[t]
Ready(t) == deamortizedFreeables[t] \cup (IF Late(t) THEN last[t] ELSE {})

Waits(p) ==
    \A t \in Threads :
       /\ \A r \in Waiting(t) : \A u \in graced[r] : Rank(u, p) < Rank(t, p)
       /\ \A r \in Ready(t) : graced[r] = {}

RingInv == Ring!TypeOK /\ Controls /\ Runs /\ Filed /\ \E p \in Threads : At(p) /\ Waits(p)

-----------------------------------------------------------------------------
LEMMA ThreadNumbers ==
    NUM_PROCESSES \in Nat \ {0} /\ \A t : t \in Threads <=> t \in 0..NUM_PROCESSES - 1
  BY ProcessesAssumption

LEMMA Count == NUM_PROCESSES \in Nat \ {0}
  BY ProcessesAssumption

LEMMA SuccWraps ==
    ASSUME NEW t \in Threads
    PROVE  /\ Succ(t) = IF t + 1 = NUM_PROCESSES THEN 0 ELSE t + 1
           /\ Succ(t) \in Threads
  <1> DEFINE N == NUM_PROCESSES
  <1>1. N \in Nat \ {0} /\ t \in 0..N - 1
    BY ThreadNumbers
  <1>2. ASSUME NEW x \in 0..N PROVE x % N = IF x = N THEN 0 ELSE x
    BY <1>1, <1>2, SMT
  <1>3. t + 1 \in 0..N
    BY <1>1
  <1>4. QED
    BY <1>1, <1>2, <1>3, ThreadNumbers DEF Succ

\* A pass: the thread goes to the end of the line, the others move up.
LEMMA RankAfterPass ==
    ASSUME NEW p \in Threads, NEW t \in Threads
    PROVE  /\ Rank(t, p) \in 0..NUM_PROCESSES - 1
           /\ Rank(p, p) = 0
           /\ t # p => Rank(t, Succ(p)) = Rank(t, p) - 1 /\ Rank(t, p) > 0
           /\ Rank(p, Succ(p)) = NUM_PROCESSES - 1
  BY SuccWraps, ThreadNumbers DEF Rank

LEMMA RingInit == Ring!Init => RingInv
  <1> SUFFICES ASSUME Ring!Init PROVE RingInv
    OBVIOUS
  <1> USE ThreadNumbers DEF Ring!Init, Ring!RecordsInit
  <1>1. 0 \in Threads
    BY ThreadNumbers
  <1>2. Ring!TypeOK /\ Controls /\ Runs
    BY DEF Ring!TypeOK, Ring!RecordsType, Controls, Runs, Busy, Ring!Variants
  <1>3. Filed
    BY DEF Filed, Limbo
  <1>4. At(0) /\ Waits(0)
    BY <1>1 DEF At, Waits, Waiting, Ready, Late, Busy
  <1>5. QED
    BY <1>1, <1>2, <1>3, <1>4 DEF RingInv

-----------------------------------------------------------------------------
\* What a rotation frees is nobody's any more.
LEMMA LastIsFree ==
    ASSUME RingInv, NEW t \in Threads, Busy(t), NEW r \in last[t]
    PROVE  where[r] = "retired" /\ graced[r] = {}
  <1> PICK p \in Threads : At(p) /\ Waits(p)
    BY DEF RingInv
  <1>1. r \in Records
    BY DEF RingInv, Ring!TypeOK
  <1>2. where[r] = "retired"
    BY <1>1 DEF RingInv, Filed, Limbo
  <1>3. CASE variant # "token1"
    BY <1>2, <1>3 DEF Waits, Ready, Late
  <1>4. CASE variant = "token1"
    <2>1. t = p
      BY <1>4 DEF RingInv, Controls, At
    <2>2. r \in Waiting(t)
      BY <1>4 DEF Waiting, Late
    <2>3. ASSUME NEW u \in graced[r] PROVE FALSE
      <3>1. u \in Threads
        BY <1>1 DEF RingInv, Ring!TypeOK, Ring!RecordsType
      <3>2. Rank(u, p) < Rank(t, p)
        BY <2>2 DEF Waits
      <3>3. Rank(u, p) \in 0..NUM_PROCESSES - 1 /\ Rank(t, p) = 0
        BY <2>1, <3>1, RankAfterPass
      <3>4. QED
        BY <3>2, <3>3, ThreadNumbers
    <2>4. QED
      BY <1>2, <2>3
  <1>5. QED
    BY <1>3, <1>4

LEMMA FreelistIsFree ==
    ASSUME RingInv, NEW t \in Threads, NEW r \in deamortizedFreeables[t]
    PROVE  where[r] = "retired" /\ graced[r] = {}
  BY DEF RingInv, Ring!TypeOK, Filed, Limbo, Waits, Ready

LEMMA InvStartOp == ASSUME RingInv, NEW t \in Threads, Ring!StartOp(t) PROVE RingInv'
  <1> PICK p \in Threads : At(p) /\ Waits(p)
    BY DEF RingInv
  <1> USE DEF Ring!StartOp, Ring!Goto, Ring!Pass, Ring!build, Ring!bags, Ring!records
  <1>1. Ring!TypeOK'
    BY DEF RingInv, Ring!TypeOK, Ring!RecordsType
  <1>2. Controls'
    BY DEF RingInv, Ring!TypeOK, Controls, Busy
  <1>3. Runs' /\ Filed'
    BY DEF RingInv, Runs, Filed, Limbo
  <1>4. \A u \in Threads : u # t => Late(u)' = Late(u)
    BY DEF RingInv, Ring!TypeOK, Late, Busy
  <1>5. CASE ~token[t] \/ variant = "token1"
    <2>1. ~Late(t) /\ ~Late(t)'
      BY <1>5 DEF RingInv, Ring!TypeOK, Late, Busy
    <2>2. Waits(p)'
      BY <1>4, <2>1 DEF Waits, Waiting, Ready
    <2>3. At(p)'
      BY <1>5 DEF At
    <2>4. QED
      BY <1>1, <1>2, <1>3, <2>2, <2>3 DEF RingInv
  <1>6. CASE token[t] /\ variant # "token1"
    <2>1. t = p /\ ~Late(t) /\ Late(t)' /\ t \notin running
      BY <1>6 DEF RingInv, Ring!TypeOK, At, Late, Busy, Controls
    <2>2. At(Succ(p))'
      <3>1. Succ(p) \in Threads
        BY SuccWraps
      <3>2. \A u \in Threads : token'[u] = (IF u = t THEN FALSE ELSE token[u])
        BY <1>6 DEF RingInv, Ring!TypeOK
      <3>3. \A u \in Threads : ~token[u] \/ u = t
        BY <2>1 DEF At
      <3>4. \A u \in Threads : passing'[u] => u = t
        BY <1>6, <2>1 DEF RingInv, Ring!TypeOK, At
      <3>5. QED
        BY <2>1, <3>1, <3>2, <3>3, <3>4 DEF At, Succ
    <2>3. ASSUME NEW w \in Threads, NEW r \in Waiting(w)', NEW u \in graced'[r]
          PROVE  Rank(u, Succ(p)) < Rank(w, Succ(p))
      <3>1. r \in Records /\ u \in Threads /\ u \in graced[r] /\ u # t
        BY <2>1, <2>3 DEF RingInv, Ring!TypeOK, Ring!RecordsType, Waiting, Runs
      <3>2. CASE w = t
        BY <2>1, <3>1, <3>2, RankAfterPass, Count
      <3>3. CASE w # t
        <4>1. r \in Waiting(w)
          BY <1>4, <3>3 DEF Waiting
        <4>2. QED
          BY <2>1, <3>1, <3>3, <4>1, RankAfterPass, Count DEF Waits
      <3>4. QED
        BY <3>2, <3>3
    <2>4. ASSUME NEW w \in Threads, NEW r \in Ready(w)' PROVE graced'[r] = {}
      <3>1. CASE w # t
        BY <1>4, <2>4, <3>1 DEF Waits, Ready
      <3>2. CASE w = t /\ r \in deamortizedFreeables[t]
        BY <3>2, FreelistIsFree
      <3>3. CASE w = t /\ r \in last[t]
        <4>1. r \in Waiting(t) /\ r \in Records
          BY <2>1, <3>3 DEF Waiting, RingInv, Ring!TypeOK
        <4>2. ASSUME NEW u \in graced[r] PROVE FALSE
          <5>1. u \in Threads
            BY <4>1 DEF RingInv, Ring!TypeOK, Ring!RecordsType
          <5>2. QED
            BY <2>1, <4>1, <5>1, RankAfterPass, Count DEF Waits
        <4>3. QED
          BY <4>2
      <3>4. QED
        BY <2>1, <2>4, <3>1, <3>2, <3>3 DEF Ready
    <2>5. Waits(Succ(p))'
      BY <2>3, <2>4 DEF Waits, Rank
    <2>6. QED
      BY <1>1, <1>2, <1>3, <2>2, <2>5, SuccWraps DEF RingInv
  <1>7. QED
    BY <1>5, <1>6

LEMMA InvHandOver == ASSUME RingInv, NEW t \in Threads, Ring!HandOver(t) PROVE RingInv'
  <1> PICK p \in Threads : At(p) /\ Waits(p)
    BY DEF RingInv
  <1> USE DEF Ring!HandOver, Ring!build, Ring!bags, Ring!records
  <1>1. Ring!TypeOK'
    BY SuccWraps DEF RingInv, Ring!TypeOK, Ring!RecordsType
  <1>2. Controls'
    BY SuccWraps DEF RingInv, Ring!TypeOK, Controls, Busy, Succ
  <1>3. Runs' /\ Filed'
    BY DEF RingInv, Runs, Filed, Limbo
  <1>4. Waits(p)'
    BY DEF Waits, Waiting, Ready, Late, Busy
  <1>5. At(p)'
    <2>1. p = Succ(t) /\ ~token[p]
      BY DEF At
    <2>2. ASSUME NEW u \in Threads, passing'[u] PROVE FALSE
      <3>1. passing[u] /\ u # t /\ Succ(u) = Succ(t)
        BY <2>1, <2>2 DEF RingInv, Ring!TypeOK, At
      <3>2. QED
        BY <3>1, SuccWraps, ThreadNumbers
    <2>3. QED
      BY <2>1, <2>2 DEF RingInv, Ring!TypeOK, At, Succ
  <1>6. QED
    BY <1>1, <1>2, <1>3, <1>4, <1>5 DEF RingInv

\* Records leave last and are freed.
LEMMA InvFreeing ==
    ASSUME RingInv, NEW t \in Threads, Busy(t), NEW full \in SUBSET last[t],
           Ring!Release(full), last' = [last EXCEPT ![t] = @ \ full],
           pc' \in [Threads -> {"idle", "free", "swap", "trickle", "fence", "op"}],
           Busy(t)', \A u \in Threads : u # t => pc'[u] = pc[u],
           UNCHANGED <<variant, pool, token, passing, curr, deamortizedFreeables>>
    PROVE  RingInv'
  <1> PICK p \in Threads : At(p) /\ Waits(p)
    BY DEF RingInv
  <1> USE DEF Ring!Release
  <1>0. full \subseteq Records
    BY DEF RingInv, Ring!TypeOK
  <1>1. Ring!TypeOK'
    BY <1>0 DEF RingInv, Ring!TypeOK, Ring!RecordsType
  <1>2. Controls'
    BY DEF RingInv, Controls, Busy
  <1>3. Runs'
    BY DEF RingInv, Runs
  <1>4. \A u \in Threads, i \in 1..3 : Limbo(u, i)' = Limbo(u, i) \ (IF u = t /\ i = 2 THEN full ELSE {})
    BY DEF RingInv, Ring!TypeOK, Limbo
  <1>5. Filed'
    <2>1. ASSUME NEW r \in full, NEW u \in Threads, NEW i \in 1..3, r \in Limbo(u, i)
          PROVE  u = t /\ i = 2
      BY <1>0, <2>1 DEF RingInv, Filed, Limbo
    <2>2. ASSUME NEW r \in Records, NEW u \in Threads, NEW i \in 1..3, r \in Limbo(u, i)'
          PROVE  where'[r] = "retired"
      BY <1>4, <2>1, <2>2 DEF RingInv, Filed, Ring!TypeOK, Ring!RecordsType
    <2>3. QED
      BY <1>4, <2>2 DEF RingInv, Filed
  <1>6. \A u \in Threads : Late(u)' = Late(u)
    BY DEF Late, Busy
  <1>7. \A u \in Threads : Waiting(u)' \subseteq Waiting(u) /\ Ready(u)' \subseteq Ready(u)
    BY <1>6 DEF RingInv, Ring!TypeOK, Waiting, Ready
  <1>8. Waits(p)' /\ At(p)'
    BY <1>7 DEF Waits, At, Rank
  <1>9. QED
    BY <1>1, <1>2, <1>3, <1>5, <1>8 DEF RingInv

LEMMA InvFreeBlocks == ASSUME RingInv, NEW t \in Threads, Ring!FreeBlocks(t) PROVE RingInv'
  <1> PICK full \in Ring!InFullBlocks(last[t]) :
         Ring!Release(full) /\ last' = [last EXCEPT ![t] = @ \ full]
    BY DEF Ring!FreeBlocks
  <1>1. full \in SUBSET last[t]
    BY DEF Ring!InFullBlocks
  <1>2. QED
    BY <1>1, InvFreeing
       DEF Ring!FreeBlocks, Ring!Rotating, Ring!Goto, RingInv, Ring!TypeOK, Busy, Ring!build

LEMMA InvFreeOne == ASSUME RingInv, NEW t \in Threads, Ring!FreeOne(t) PROVE RingInv'
  <1> PICK r \in last[t] : Ring!Release({r}) /\ last' = [last EXCEPT ![t] = @ \ {r}]
    BY DEF Ring!FreeOne
  <1>1. Busy(t) /\ Busy(t)' /\ UNCHANGED <<variant, pool, token, passing, curr, deamortizedFreeables, pc>>
    BY DEF Ring!FreeOne, Ring!Rotating, Busy, Ring!build
  <1>2. pc' \in [Threads -> {"idle", "free", "swap", "trickle", "fence", "op"}]
    BY <1>1 DEF RingInv, Ring!TypeOK
  <1>3. {r} \in SUBSET last[t]
    OBVIOUS
  <1>4. QED
    BY <1>1, <1>2, <1>3, InvFreeing

LEMMA InvMoveBlocks == ASSUME RingInv, NEW t \in Threads, Ring!MoveBlocks(t) PROVE RingInv'
  <1> PICK p \in Threads : At(p) /\ Waits(p)
    BY DEF RingInv
  <1> PICK full \in SUBSET last[t] :
         /\ deamortizedFreeables' = [deamortizedFreeables EXCEPT ![t] = @ \cup full]
         /\ last' = [last EXCEPT ![t] = @ \ full]
    BY DEF Ring!MoveBlocks, Ring!InFullBlocks
  <1> USE DEF Ring!MoveBlocks, Ring!Rotating, Ring!Goto, Ring!build, Ring!records
  <1>1. Ring!TypeOK'
    BY DEF RingInv, Ring!TypeOK, Ring!RecordsType
  <1>2. Controls' /\ Runs'
    BY DEF RingInv, Ring!TypeOK, Controls, Runs, Busy
  <1>3. \A u \in Threads, i \in 1..3 : Limbo(u, i)' =
           IF u = t /\ i = 2 THEN last[t] \ full
           ELSE IF u = t /\ i = 3 THEN deamortizedFreeables[t] \cup full ELSE Limbo(u, i)
    <2> SUFFICES ASSUME NEW u \in Threads, NEW i \in 1..3
                 PROVE  Limbo(u, i)' = IF u = t /\ i = 2 THEN last[t] \ full
                           ELSE IF u = t /\ i = 3 THEN deamortizedFreeables[t] \cup full
                           ELSE Limbo(u, i)
      OBVIOUS
    <2>1. i = 1 \/ i = 2 \/ i = 3
      OBVIOUS
    <2>2. /\ curr'[u] = curr[u]
          /\ last'[u] = IF u = t THEN last[t] \ full ELSE last[u]
          /\ deamortizedFreeables'[u] =
                IF u = t THEN deamortizedFreeables[t] \cup full ELSE deamortizedFreeables[u]
      BY DEF RingInv, Ring!TypeOK
    <2>3. QED
      BY <2>1, <2>2 DEF Limbo
  <1>4. Filed'
    <2>1. ASSUME NEW r \in Records, NEW u \in Threads, NEW i \in 1..3, r \in Limbo(u, i)'
          PROVE  \/ r \in Limbo(u, i) /\ ~(u = t /\ r \in full)
                 \/ u = t /\ i = 3 /\ r \in full /\ r \in Limbo(t, 2)
      <3>1. last[t] = Limbo(t, 2) /\ deamortizedFreeables[t] = Limbo(t, 3)
        BY DEF Limbo
      <3>2. ASSUME r \in full, u = t, r \in Limbo(t, i) PROVE i = 2
        BY <3>1, <3>2 DEF RingInv, Filed
      <3>3. QED
        BY <1>3, <2>1, <3>1, <3>2
    <2>2. QED
      BY <2>1 DEF RingInv, Filed
  <1>5. \A u \in Threads : Late(u)' = Late(u)
    BY DEF RingInv, Ring!TypeOK, Late, Busy
  <1>6. \A u \in Threads : Waiting(u)' \subseteq Waiting(u) /\ Ready(u)' \subseteq Ready(u)
    BY <1>5 DEF RingInv, Ring!TypeOK, Waiting, Ready, Late, Busy
  <1>7. Waits(p)' /\ At(p)'
    BY <1>6 DEF Waits, At, Rank
  <1>8. QED
    BY <1>1, <1>2, <1>4, <1>7 DEF RingInv

LEMMA InvSwapBags == ASSUME RingInv, NEW t \in Threads, Ring!SwapBags(t) PROVE RingInv'
  <1> PICK p \in Threads : At(p) /\ Waits(p)
    BY DEF RingInv
  <1> USE DEF Ring!SwapBags, Ring!Goto, Ring!build, Ring!records
  <1>0. Busy(t) /\ ~Busy(t)' /\ t \notin running
    BY DEF Ring!BagIsDone, Ring!Rotating, Busy, RingInv, Ring!TypeOK, Controls
  <1>1. Ring!TypeOK'
    BY DEF RingInv, Ring!TypeOK, Ring!RecordsType, Ring!Pass
  <1>2. Controls'
    BY <1>0 DEF RingInv, Ring!TypeOK, Controls, Busy, Ring!Pass
  <1>3. Runs'
    BY DEF RingInv, Runs
  <1>4. Filed'
    <2> DEFINE turn(u, i) == IF u # t THEN i ELSE IF i = 1 THEN 2 ELSE IF i = 2 THEN 1 ELSE 3
    <2>1. \A u \in Threads : /\ curr'[u] = (IF u = t THEN last[t] ELSE curr[u])
                             /\ last'[u] = (IF u = t THEN curr[t] ELSE last[u])
      BY DEF RingInv, Ring!TypeOK
    <2>2. \A u \in Threads, i \in 1..3 : turn(u, i) \in 1..3 /\ Limbo(u, i)' = Limbo(u, turn(u, i))
      BY <2>1 DEF Limbo
    <2>3. \A u \in Threads, i, j \in 1..3 : turn(u, i) = turn(u, j) => i = j
      OBVIOUS
    <2> HIDE DEF turn
    <2>4. QED
      BY <2>2, <2>3 DEF RingInv, Filed
  <1>5. \A u \in Threads : u # t => Late(u)' = Late(u)
    BY DEF RingInv, Ring!TypeOK, Late, Busy
  <1>6. ~Late(t)'
    BY <1>0 DEF Late
  <1>7. \A u \in Threads : /\ u # t => Waiting(u)' = Waiting(u) /\ Ready(u)' = Ready(u)
                           /\ Waiting(t)' = curr[t] /\ Ready(t)' \subseteq Ready(t)
    BY <1>5, <1>6 DEF RingInv, Ring!TypeOK, Waiting, Ready, Late
  <1>8. CASE variant # "token1"
    <2>1. Waiting(t) = curr[t]
      BY <1>0, <1>8 DEF Waiting, Late
    <2>2. Waits(p)' /\ At(p)'
      BY <1>7, <1>8, <2>1 DEF Waits, At, Rank
    <2>3. QED
      BY <1>1, <1>2, <1>3, <1>4, <2>2 DEF RingInv
  <1>9. CASE variant = "token1"
    <2>1. token[t] /\ t = p
      BY <1>0, <1>9 DEF RingInv, Controls, At
    <2>2. At(Succ(p))'
      <3>1. Succ(p) \in Threads
        BY SuccWraps
      <3>2. \A u \in Threads : token'[u] = (IF u = t THEN FALSE ELSE token[u])
        BY <1>9 DEF RingInv, Ring!TypeOK, Ring!Pass
      <3>3. \A u \in Threads : ~token[u] \/ u = t
        BY <2>1 DEF At
      <3>4. \A u \in Threads : passing'[u] => u = t
        BY <1>9, <2>1 DEF RingInv, Ring!TypeOK, At, Ring!Pass
      <3>5. QED
        BY <2>1, <3>1, <3>2, <3>3, <3>4 DEF At, Succ
    <2>3. ASSUME NEW w \in Threads, NEW r \in Waiting(w)', NEW u \in graced'[r]
          PROVE  Rank(u, Succ(p)) < Rank(w, Succ(p))
      <3>1. r \in Records
        BY <1>1, <2>3 DEF Ring!TypeOK, Waiting
      <3>2. u \in Threads /\ u \in graced[r] /\ u # t
        BY <1>0, <2>3, <3>1 DEF RingInv, Ring!TypeOK, Ring!RecordsType, Runs
      <3>3. CASE w = t
        BY <2>1, <3>2, <3>3, RankAfterPass, Count
      <3>4. CASE w # t
        <4>1. r \in Waiting(w)
          BY <1>7, <2>3, <3>4
        <4>2. QED
          BY <2>1, <3>2, <3>4, <4>1, RankAfterPass, Count DEF Waits
      <3>5. QED
        BY <3>3, <3>4
    <2>4. \A w \in Threads : \A r \in Ready(w)' : graced'[r] = {}
      BY <1>7 DEF Waits
    <2>5. Waits(Succ(p))'
      BY <2>3, <2>4 DEF Waits, Rank
    <2>6. QED
      BY <1>1, <1>2, <1>3, <1>4, <2>2, <2>5, SuccWraps DEF RingInv
  <1>10. QED
    BY <1>8, <1>9

LEMMA InvTrickle == ASSUME RingInv, NEW t \in Threads, Ring!Trickle(t) PROVE RingInv'
  <1> PICK p \in Threads : At(p) /\ Waits(p)
    BY DEF RingInv
  <1> USE DEF Ring!Trickle, Ring!Goto, Ring!build, Ring!records
  <1> DEFINE full == deamortizedFreeables[t] \ deamortizedFreeables'[t]
  <1>0. /\ full \subseteq Records
        /\ where' = [r \in Records |-> IF r \in full THEN "freed" ELSE where[r]]
        /\ deamortizedFreeables' = [deamortizedFreeables EXCEPT ![t] = @ \ full]
        /\ UNCHANGED <<running, held, graced>>
    <2>1. CASE deamortizedFreeables[t] = {}
      BY <2>1 DEF RingInv, Ring!TypeOK, Ring!RecordsType
    <2>2. CASE deamortizedFreeables[t] # {}
      <3>1. PICK r \in deamortizedFreeables[t] :
               /\ Ring!Release({r})
               /\ deamortizedFreeables' = [deamortizedFreeables EXCEPT ![t] = @ \ {r}]
        BY <2>2
      <3>2. full = {r} /\ r \in Records
        BY <3>1 DEF RingInv, Ring!TypeOK
      <3>3. QED
        BY <3>1, <3>2 DEF Ring!Release
    <2>3. QED
      BY <2>1, <2>2
  <1>1. full \subseteq Limbo(t, 3)
    BY DEF Limbo
  <1> HIDE DEF full
  <1>2. Ring!TypeOK'
    BY <1>0 DEF RingInv, Ring!TypeOK, Ring!RecordsType
  <1>3. Controls' /\ Runs'
    BY <1>0 DEF RingInv, Ring!TypeOK, Controls, Runs, Busy
  <1>4. \A u \in Threads, i \in 1..3 : Limbo(u, i)' = Limbo(u, i) \ (IF u = t /\ i = 3 THEN full ELSE {})
    <2> SUFFICES ASSUME NEW u \in Threads, NEW i \in 1..3
                 PROVE  Limbo(u, i)' = Limbo(u, i) \ (IF u = t /\ i = 3 THEN full ELSE {})
      OBVIOUS
    <2>1. i = 1 \/ i = 2 \/ i = 3
      OBVIOUS
    <2>2. /\ curr' = curr /\ last' = last
          /\ deamortizedFreeables'[u] = deamortizedFreeables[u] \ (IF u = t THEN full ELSE {})
      BY <1>0 DEF RingInv, Ring!TypeOK
    <2>3. QED
      BY <2>1, <2>2 DEF Limbo
  <1>5. Filed'
    <2>1. ASSUME NEW r \in full, NEW u \in Threads, NEW i \in 1..3, r \in Limbo(u, i)
          PROVE  u = t /\ i = 3
      BY <1>0, <1>1, <2>1 DEF RingInv, Filed
    <2>2. ASSUME NEW r \in Records, NEW u \in Threads, NEW i \in 1..3, r \in Limbo(u, i)'
          PROVE  where'[r] = "retired"
      BY <1>0, <1>4, <2>1, <2>2 DEF RingInv, Filed, Ring!TypeOK, Ring!RecordsType
    <2>3. QED
      BY <1>4, <2>2 DEF RingInv, Filed
  <1>6. \A u \in Threads : Late(u)' = Late(u)
    BY DEF RingInv, Ring!TypeOK, Late, Busy
  <1>7. \A u \in Threads : Waiting(u)' \subseteq Waiting(u) /\ Ready(u)' \subseteq Ready(u)
    BY <1>0, <1>6 DEF RingInv, Ring!TypeOK, Waiting, Ready
  <1>8. Waits(p)' /\ At(p)'
    BY <1>0, <1>7 DEF Waits, At, Rank
  <1>9. QED
    BY <1>2, <1>3, <1>5, <1>8 DEF RingInv

\* What happens to the records in an operation leaves bags and token alone.
LEMMA InvFence == ASSUME RingInv, NEW t \in Threads, Ring!Fence(t) PROVE RingInv'
  <1> PICK p \in Threads : At(p) /\ Waits(p)
    BY DEF RingInv
  <1> USE DEF Ring!Fence, Ring!Begin, Ring!Goto, Ring!build, Ring!bags
  <1>1. Ring!TypeOK' /\ Controls' /\ Runs' /\ Filed'
    BY DEF RingInv, Ring!TypeOK, Ring!RecordsType, Controls, Runs, Filed, Limbo, Busy
  <1>2. \A u \in Threads : Late(u)' = Late(u)
    BY DEF RingInv, Ring!TypeOK, Late, Busy
  <1>3. Waits(p)' /\ At(p)'
    BY <1>2 DEF Waits, Waiting, Ready, At, Rank
  <1>4. QED
    BY <1>1, <1>3 DEF RingInv

LEMMA InvUseRecords == ASSUME RingInv, NEW t \in Threads, Ring!UseRecords(t) PROVE RingInv'
  <1> PICK p \in Threads : At(p) /\ Waits(p)
    BY DEF RingInv
  <1> USE DEF Ring!UseRecords, Ring!build, Ring!bags
  <1>1. /\ graced' = graced /\ running' = running
        /\ where' \in [Records -> {"linked", "retired", "freed"}]
        /\ \A r \in Records : where[r] = "retired" => where'[r] = "retired"
    BY DEF Ring!Reach, Ring!Allocate, RingInv, Ring!TypeOK, Ring!RecordsType
  <1>2. Ring!TypeOK'
    BY <1>1 DEF Ring!Reach, Ring!Allocate, RingInv, Ring!TypeOK, Ring!RecordsType
  <1>3. Controls' /\ Runs' /\ Filed'
    BY <1>1 DEF RingInv, Controls, Runs, Filed, Limbo, Busy
  <1>4. Waits(p)' /\ At(p)'
    BY <1>1 DEF Waits, Waiting, Ready, Late, Busy, At, Rank
  <1>5. QED
    BY <1>2, <1>3, <1>4 DEF RingInv

LEMMA InvRetire == ASSUME RingInv, NEW t \in Threads, Ring!retire(t) PROVE RingInv'
  <1> PICK p \in Threads : At(p) /\ Waits(p)
    BY DEF RingInv
  <1> USE DEF Ring!retire, Ring!build
  <1> PICK r \in Records : Ring!Unlink(t, r) /\ curr' = [curr EXCEPT ![t] = @ \cup {r}]
    OBVIOUS
  <1> USE DEF Ring!Unlink
  <1>1. Ring!TypeOK'
    BY DEF RingInv, Ring!TypeOK, Ring!RecordsType
  <1>2. Controls' /\ Runs'
    BY DEF RingInv, Ring!TypeOK, Ring!RecordsType, Controls, Runs, Busy
  <1>3. \A u \in Threads, i \in 1..3 : r \notin Limbo(u, i)
    BY DEF RingInv, Filed
  <1>4. \A u \in Threads, i \in 1..3 :
           Limbo(u, i)' = Limbo(u, i) \cup (IF u = t /\ i = 1 THEN {r} ELSE {})
    BY DEF RingInv, Ring!TypeOK, Limbo
  <1>5. Filed'
    BY <1>3, <1>4 DEF RingInv, Filed, Ring!TypeOK, Ring!RecordsType
  <1>6. pc[t] = "op" /\ ~Late(t)
    BY DEF RingInv, Controls, Late, Busy
  <1>7. \A u \in Threads : Waiting(u)' = Waiting(u) /\ Ready(u)' = Ready(u)
    BY <1>6 DEF RingInv, Ring!TypeOK, Waiting, Ready, Late, Busy
  <1>8. \A u \in Threads : \A s \in Waiting(u) \cup Ready(u) : s # r /\ s \in Records
    BY <1>3 DEF RingInv, Ring!TypeOK, Waiting, Ready, Limbo
  <1>9. Waits(p)' /\ At(p)'
    BY <1>7, <1>8 DEF Waits, At, Rank, RingInv, Ring!TypeOK, Ring!RecordsType
  <1>10. QED
    BY <1>1, <1>2, <1>5, <1>9 DEF RingInv

LEMMA InvEndOp == ASSUME RingInv, NEW t \in Threads, Ring!EndOp(t) PROVE RingInv'
  <1> PICK p \in Threads : At(p) /\ Waits(p)
    BY DEF RingInv
  <1> USE DEF Ring!EndOp, Ring!End, Ring!Goto, Ring!build, Ring!bags
  <1>1. Ring!TypeOK' /\ Controls'
    BY DEF RingInv, Ring!TypeOK, Ring!RecordsType, Controls, Busy
  <1>2. Runs' /\ Filed'
    BY DEF RingInv, Ring!TypeOK, Ring!RecordsType, Runs, Filed, Limbo
  <1>3. \A u \in Threads : Late(u)' = Late(u)
    BY DEF RingInv, Ring!TypeOK, Controls, Late, Busy
  <1>4. \A u \in Threads : /\ Waiting(u)' = Waiting(u) /\ Ready(u)' = Ready(u)
                           /\ Waiting(u) \cup Ready(u) \subseteq Records
    BY <1>3 DEF RingInv, Ring!TypeOK, Waiting, Ready
  <1>5. Waits(p)' /\ At(p)'
    BY <1>4 DEF Waits, At, Rank
  <1>6. QED
    BY <1>1, <1>2, <1>5 DEF RingInv

-----------------------------------------------------------------------------
LEMMA RingNext == ASSUME RingInv, [Ring!Next]_Ring!vars PROVE RingInv'
  <1>1. CASE UNCHANGED Ring!vars
    <2> PICK p \in Threads : At(p) /\ Waits(p)
      BY DEF RingInv
    <2> USE <1>1 DEF Ring!vars, Ring!build, Ring!bags, Ring!records
    <2>1. Ring!TypeOK' /\ Controls' /\ Runs' /\ Filed'
      BY DEF RingInv, Ring!TypeOK, Ring!RecordsType, Controls, Runs, Filed, Limbo, Busy
    <2>2. At(p)'
      BY DEF At, Succ
    <2>3. Waits(p)'
      BY DEF Waits, Waiting, Ready, Late, Busy, Rank
    <2>4. QED
      BY <2>1, <2>2, <2>3 DEF RingInv
  <1>2. CASE Ring!Next
    BY <1>2, InvStartOp, InvHandOver, InvFreeBlocks, InvFreeOne, InvMoveBlocks, InvSwapBags,
       InvTrickle, InvFence, InvUseRecords, InvRetire, InvEndOp DEF Ring!Next, Ring!Step
  <1>3. QED
    BY <1>1, <1>2

LEMMA RingInvariance == Ring!Spec => []RingInv
  <1>1. RingInv /\ [Ring!Next]_Ring!vars => RingInv'
    BY RingNext
  <1>2. QED
    BY <1>1, RingInit, PTL DEF Ring!Spec

\* What a step frees is a set of which the promise allows the freeing.
LEMMA FreesAsPromised ==
    ASSUME RingInv, NEW full \in SUBSET Records,
           \A r \in full : where[r] = "retired" /\ graced[r] = {}, Ring!Release(full)
    PROVE  [Ring!Contract!Next]_Ring!Contract!records
  <1>1. CASE full = {}
    BY <1>1 DEF Ring!Release, RingInv, Ring!TypeOK, Ring!RecordsType, Ring!Contract!records
  <1>2. CASE full # {}
    BY <1>2 DEF Ring!Release, Ring!Contract!Next, Ring!Contract!Free, Ring!Contract!Release
  <1>3. QED
    BY <1>1, <1>2

LEMMA RingStepKeepsPromise ==
    ASSUME RingInv, [Ring!Next]_Ring!vars
    PROVE  [Ring!Contract!Next]_Ring!Contract!records
  <1> USE DEF Ring!Contract!Next, Ring!Contract!records
  <1>1. CASE UNCHANGED Ring!vars
    BY <1>1 DEF Ring!vars, Ring!records
  <1>2. ASSUME NEW t \in Threads, Ring!StartOp(t) \/ Ring!HandOver(t) \/ Ring!MoveBlocks(t) \/ Ring!SwapBags(t)
        PROVE  [Ring!Contract!Next]_Ring!Contract!records
    BY <1>2 DEF Ring!StartOp, Ring!HandOver, Ring!MoveBlocks, Ring!SwapBags, Ring!records
  <1>3. ASSUME NEW t \in Threads, Ring!FreeBlocks(t)
        PROVE  [Ring!Contract!Next]_Ring!Contract!records
    <2>1. PICK full \in SUBSET last[t] : Ring!Release(full)
      BY <1>3 DEF Ring!FreeBlocks, Ring!InFullBlocks
    <2>2. Busy(t) /\ full \in SUBSET Records
      BY <1>3 DEF Ring!FreeBlocks, Ring!Rotating, Busy, RingInv, Ring!TypeOK
    <2>3. QED
      BY <2>1, <2>2, LastIsFree, FreesAsPromised
  <1>4. ASSUME NEW t \in Threads, Ring!FreeOne(t) PROVE [Ring!Contract!Next]_Ring!Contract!records
    <2>1. PICK r \in last[t] : Ring!Release({r})
      BY <1>4 DEF Ring!FreeOne
    <2>2. Busy(t) /\ {r} \in SUBSET Records
      BY <1>4 DEF Ring!FreeOne, Ring!Rotating, Busy, RingInv, Ring!TypeOK
    <2>3. where[r] = "retired" /\ graced[r] = {}
      BY <2>2, LastIsFree
    <2>4. QED
      BY <2>1, <2>2, <2>3, FreesAsPromised
  <1>5. ASSUME NEW t \in Threads, Ring!Trickle(t) PROVE [Ring!Contract!Next]_Ring!Contract!records
    <2>1. CASE deamortizedFreeables[t] = {}
      BY <1>5, <2>1 DEF Ring!Trickle, Ring!records
    <2>2. CASE deamortizedFreeables[t] # {}
      <3>1. PICK r \in deamortizedFreeables[t] : Ring!Release({r})
        BY <1>5, <2>2 DEF Ring!Trickle
      <3>2. {r} \in SUBSET Records
        BY DEF RingInv, Ring!TypeOK
      <3>3. where[r] = "retired" /\ graced[r] = {}
        BY FreelistIsFree
      <3>4. QED
        BY <3>1, <3>2, <3>3, FreesAsPromised
    <2>3. QED
      BY <2>1, <2>2
  <1>6. ASSUME NEW t \in Threads, Ring!Fence(t) PROVE [Ring!Contract!Next]_Ring!Contract!records
    BY <1>6 DEF Ring!Fence, Ring!Begin, Ring!Contract!Begin
  <1>7. ASSUME NEW t \in Threads, Ring!UseRecords(t)
        PROVE  [Ring!Contract!Next]_Ring!Contract!records
    BY <1>7
       DEF Ring!UseRecords, Ring!Reach, Ring!Allocate, Ring!Contract!Reach, Ring!Contract!Allocate
  <1>8. ASSUME NEW t \in Threads, Ring!retire(t) PROVE [Ring!Contract!Next]_Ring!Contract!records
    BY <1>8 DEF Ring!retire, Ring!Unlink, Ring!Contract!Unlink
  <1>9. ASSUME NEW t \in Threads, Ring!EndOp(t) PROVE [Ring!Contract!Next]_Ring!Contract!records
    BY <1>9 DEF Ring!EndOp, Ring!End, Ring!Contract!End
  <1>10. QED
    BY <1>1, <1>2, <1>3, <1>4, <1>5, <1>6, <1>7, <1>8, <1>9 DEF Ring!Next, Ring!Step

\* The token reclaimers free a record only after every operation that ran when it was
\* retired has ended (reclaimer_token1.h:174-310, reclaimer_ebr_token.h:128-232).
THEOREM TokenKeepsPromise == Ring!Spec => Ring!KeepsPromise
  <1>1. Ring!Init => Ring!Contract!RecordsInit
    BY DEF Ring!Init, Ring!RecordsInit, Ring!Contract!RecordsInit
  <1>2. RingInv /\ [Ring!Next]_Ring!vars => [Ring!Contract!Next]_Ring!Contract!records
    BY RingStepKeepsPromise
  <1>3. QED
    BY <1>1, <1>2, RingInvariance, PTL DEF Ring!Spec, Ring!KeepsPromise, Ring!Contract!Spec

-----------------------------------------------------------------------------
\* What the promise is worth: an operation that has a pointer to a retired record ran when that
\* was retired.
HeldIsGraced ==
    \A t \in Threads : \A r \in held[t] :
        t \in running /\ (where[r] = "linked" \/ (where[r] = "retired" /\ t \in graced[r]))

Safe == Ring!RecordsType /\ HeldIsGraced

LEMMA SafeInit == Ring!Contract!RecordsInit => Safe
  BY DEF Ring!Contract!RecordsInit, Safe, Ring!RecordsType, HeldIsGraced

LEMMA SafeNext == Safe /\ [Ring!Contract!Next]_Ring!Contract!records => Safe'
  <1> SUFFICES ASSUME Safe, [Ring!Contract!Next]_Ring!Contract!records PROVE Safe'
    OBVIOUS
  <1> USE DEF Safe, Ring!RecordsType, HeldIsGraced
  <1>1. ASSUME NEW t \in Threads, Ring!Contract!Begin(t) PROVE Safe'
    BY <1>1 DEF Ring!Contract!Begin
  <1>2. ASSUME NEW t \in Threads, Ring!Contract!Reach(t) PROVE Safe'
    BY <1>2 DEF Ring!Contract!Reach
  <1>3. ASSUME NEW t \in Threads, NEW r \in Records, Ring!Contract!Unlink(t, r) PROVE Safe'
    BY <1>3 DEF Ring!Contract!Unlink
  <1>4. ASSUME NEW t \in Threads, Ring!Contract!Allocate(t) PROVE Safe'
    BY <1>4 DEF Ring!Contract!Allocate
  <1>5. ASSUME NEW t \in Threads, Ring!Contract!End(t) PROVE Safe'
    BY <1>5 DEF Ring!Contract!End
  <1>6. CASE Ring!Contract!Free
    BY <1>6 DEF Ring!Contract!Free, Ring!Contract!Release
  <1>7. CASE UNCHANGED Ring!Contract!records
    BY <1>7 DEF Ring!Contract!records
  <1>8. QED
    BY <1>1, <1>2, <1>3, <1>4, <1>5, <1>6, <1>7 DEF Ring!Contract!Next

\* Whatever keeps the promise never frees a record that an operation has a pointer to
\* (a7's record_manager.h:314-328, reclaimer_interface.h:66-77).
THEOREM PromiseIsSafe == Ring!Contract!Spec => []Ring!Contract!NoUseAfterFree
  <1>1. Safe => Ring!Contract!NoUseAfterFree
    BY DEF Safe, HeldIsGraced, Ring!Contract!NoUseAfterFree
  <1>2. QED
    BY <1>1, SafeInit, SafeNext, PTL DEF Ring!Contract!Spec

\* So the token reclaimers never do (reclaimer_token1.h:174-310, reclaimer_ebr_token.h:128-232).
THEOREM TokensAreSafe == Ring!Spec => []Ring!Contract!NoUseAfterFree
  BY PromiseIsSafe, TokenKeepsPromise, PTL DEF Ring!KeepsPromise

-----------------------------------------------------------------------------
(* The tree. *)

Climbing == {"sibling", "parent", "propagate"}

TreeType ==
    /\ Tree!RecordsType
    /\ nodes \in [Tree!Nodes -> Nat]
    /\ ann \in [Threads -> Nat]
    /\ pending \in [Threads -> BOOLEAN]
    /\ index \in [Threads -> Tree!Bags]
    /\ epochbags \in [Threads -> [Tree!Bags -> SUBSET Records]]
    /\ pc \in [Threads -> Climbing \cup {"idle", "fence", "op"}]
    /\ currIx \in [Threads -> Tree!Nodes]
    /\ parentVal \in [Threads -> Nat]

\* Announcements are even, and so are the values of nodes with threads below them.
Parity ==
    /\ \A t \in Threads : ann[t] % 2 = 0
    /\ \A ix \in Tree!Nodes : Tree!QUIESCENT(nodes[ix]) => Tree!Empty(ix)

\* NodesBehind, and the epoch is not behind any thread.
Behind ==
    /\ \A ix \in Tree!Nodes, t \in Threads :
          Tree!Below(ix, t) => nodes[ix] <= ann[t] + IF ix = Tree!EBRT_ROOT THEN Tree!EPOCH_INCREMENT ELSE 0
    /\ \A t \in Threads : ann[t] <= Tree!epoch

\* All threads below ix have announced what t has.
Arrived(t, ix) == \A u \in Threads : Tree!Below(ix, u) => ann[t] <= ann[u]

Climbs ==
    \A t \in Threads :
       /\ pc[t] \notin Climbing => currIx[t] = Tree!EBRT_LEAF(t)
       /\ pc[t] \in Climbing => Arrived(t, currIx[t])
       /\ pc[t] \in {"parent", "propagate"} =>
             currIx[t] > Tree!EBRT_ROOT /\ Arrived(t, Tree!EBRT_PARENT(currIx[t]))
       /\ pc[t] = "propagate" /\ Tree!EBRT_PARENT(currIx[t]) = Tree!EBRT_ROOT => parentVal[t] = ann[t]

TreeInv == TreeType /\ Parity /\ Behind /\ Climbs

\* Bags have retired records, each of them once.
Bagged ==
    /\ \A t \in Threads : t \in running <=> pc[t] = "op"
    /\ \A r \in Records : graced[r] \subseteq running
    /\ \A t \in Threads, b \in Tree!Bags : \A r \in epochbags[t][b] : where[r] = "retired"
    /\ \A t, u \in Threads, b, d \in Tree!Bags :
          epochbags[t][b] \cap epochbags[u][d] # {} => t = u /\ b = d

\* The rotations since bag b was in use, when i is.
AgoAt(i, b) == IF b <= i THEN i - b ELSE i + NUMBER_OF_EPOCH_BAGS - b

Ages ==
    \A t \in Threads, b \in Tree!Bags : \A r \in epochbags[t][b] : \A u \in graced[r] :
       ann[u] + 2 * AgoAt(index[t], b) <= ann[t] + 2

TreeKept == TreeInv /\ Bagged /\ Ages

\* Three bags between the one in use and the one that is freed.
ThreeBags == NUMBER_OF_EPOCH_BAGS - NUMBER_OF_ALWAYS_EMPTY_EPOCH_BAGS >= 3

-----------------------------------------------------------------------------
\* The shape of the tree.
LEMMA Room ==
    ASSUME Tree!TreeAssumption
    PROVE  /\ NUM_PROCESSES \in Nat \ {0} /\ \A t : t \in Threads <=> t \in 0..NUM_PROCESSES - 1
           /\ Tree!Pow2(NUM_PROCESSES) \in Nat \ {0} /\ Tree!Pow2(NUM_PROCESSES) >= NUM_PROCESSES
           /\ \A t \in Threads : Tree!EBRT_LEAF(t) \in Tree!Nodes /\ Tree!EBRT_LEAF(t) >= Tree!Pow2(NUM_PROCESSES)
           /\ Tree!EBRT_ROOT \in Tree!Nodes
  <1>1. /\ NUM_PROCESSES \in Nat \ {0} /\ \A t : t \in Threads <=> t \in 0..NUM_PROCESSES - 1
        /\ Tree!Pow2(NUM_PROCESSES) \in Nat \ {0} /\ Tree!Pow2(NUM_PROCESSES) >= NUM_PROCESSES
    BY ProcessesAssumption DEF Tree!TreeAssumption
  <1> QED BY <1>1 DEF Tree!EBRT_LEAF, Tree!Nodes, Tree!EBRT_ROOT

\* A way up: it has the leaf of t, and with a node the parent.
Way(way, t) ==
    /\ way \in SUBSET Tree!Nodes /\ Tree!EBRT_LEAF(t) \in way
    /\ \A n \in way \ {Tree!EBRT_ROOT} : Tree!EBRT_PARENT(n) \in way

LEMMA BelowIsOnTheWay == \A ix, t : Tree!Below(ix, t) <=> \A way \in SUBSET Tree!Nodes : Way(way, t) => ix \in way
  BY DEF Tree!Below, Way

LEMMA Parents ==
    ASSUME Tree!TreeAssumption, NEW n \in Tree!Nodes, n # Tree!EBRT_ROOT
    PROVE  /\ Tree!EBRT_PARENT(n) \in Tree!Nodes /\ Tree!EBRT_PARENT(n) < n
           /\ Tree!EBRT_PARENT(n) < Tree!Pow2(NUM_PROCESSES)
           /\ Tree!Sibling(n) \in Tree!Nodes \ {Tree!EBRT_ROOT}
           /\ \A m \in Tree!Nodes \ {Tree!EBRT_ROOT} :
                 Tree!EBRT_PARENT(m) = Tree!EBRT_PARENT(n) => m = n \/ m = Tree!Sibling(n)
  BY Room DEF Tree!Nodes, Tree!EBRT_PARENT, Tree!EBRT_ROOT, Tree!Sibling

LEMMA Least == \A S \in SUBSET Nat : S # {} => \E x \in S : \A y \in S : x <= y
  <1> SUFFICES ASSUME NEW S \in SUBSET Nat, S # {} PROVE \E x \in S : \A y \in S : x <= y
    OBVIOUS
  <1>1. PICK x \in S : \A y \in S : ~(<<y, x>> \in OpToRel(<, Nat))
    BY NatLessThanWellFounded, WFMin
  <1>2. \A y \in S : ~(y < x)
    BY <1>1 DEF OpToRel
  <1> QED BY <1>2

LEMMA RootIsAbove ==
    ASSUME Tree!TreeAssumption, NEW t \in Threads
    PROVE  Tree!Below(Tree!EBRT_ROOT, t)
  <1> SUFFICES ASSUME NEW way \in SUBSET Tree!Nodes, Way(way, t) PROVE Tree!EBRT_ROOT \in way
    BY BelowIsOnTheWay
  <1>1. way \in SUBSET Nat /\ way # {}
    BY DEF Tree!Nodes, Way
  <1>2. PICK n \in way : \A m \in way : n <= m
    BY <1>1, Least
  <1>3. ASSUME n # Tree!EBRT_ROOT PROVE FALSE
    <2>1. Tree!EBRT_PARENT(n) \in way
      BY <1>3 DEF Way
    <2>2. Tree!EBRT_PARENT(n) < n /\ n \in Nat /\ Tree!EBRT_PARENT(n) \in Nat
      BY <1>1, <1>3, <2>1, Parents
    <2> QED BY <1>2, <2>1, <2>2
  <1> QED BY <1>3

LEMMA OneLeaf ==
    ASSUME Tree!TreeAssumption, NEW t \in Threads, NEW u \in Threads, Tree!Below(Tree!EBRT_LEAF(t), u)
    PROVE  u = t
  <1> DEFINE L == Tree!Pow2(NUM_PROCESSES)
  <1>1. L \in Nat \ {0} /\ Tree!EBRT_LEAF(u) \in Tree!Nodes /\ Tree!EBRT_LEAF(t) >= L /\ Tree!EBRT_LEAF(u) >= L
    BY Room
  <1> DEFINE way == {Tree!EBRT_LEAF(u)} \cup {n \in Tree!Nodes : n < L}
  <1>2. \A n \in way \ {Tree!EBRT_ROOT} : Tree!EBRT_PARENT(n) \in way
    BY <1>1, Parents
  <1>3. way \in SUBSET Tree!Nodes /\ Way(way, u)
    BY <1>1, <1>2 DEF Way
  <1>4. Tree!EBRT_LEAF(t) \in way
    BY <1>3, BelowIsOnTheWay
  <1>5. Tree!EBRT_LEAF(t) = Tree!EBRT_LEAF(u)
    <2>1. Tree!EBRT_LEAF(t) \in Nat
      BY Room DEF Tree!Nodes
    <2> QED BY <1>1, <1>4, <2>1
  <1> QED BY <1>5, Room DEF Tree!EBRT_LEAF

\* Who is below a parent is below one of its children.
LEMMA OneChild ==
    ASSUME Tree!TreeAssumption, NEW n \in Tree!Nodes, n # Tree!EBRT_ROOT, NEW t \in Threads,
           Tree!Below(Tree!EBRT_PARENT(n), t), ~Tree!Below(n, t), ~Tree!Below(Tree!Sibling(n), t)
    PROVE  FALSE
  <1>1. PICK w1 \in SUBSET Tree!Nodes : Way(w1, t) /\ n \notin w1
    BY BelowIsOnTheWay
  <1>2. PICK w2 \in SUBSET Tree!Nodes : Way(w2, t) /\ Tree!Sibling(n) \notin w2
    BY BelowIsOnTheWay
  <1> DEFINE p == Tree!EBRT_PARENT(n)
             way == (w1 \cap w2) \ {p}
  <1>3. Tree!EBRT_LEAF(t) \in way
    <2>1. p < Tree!Pow2(NUM_PROCESSES) /\ Tree!EBRT_LEAF(t) >= Tree!Pow2(NUM_PROCESSES)
      BY Room, Parents
    <2>2. p \in Nat /\ Tree!EBRT_LEAF(t) \in Nat /\ Tree!Pow2(NUM_PROCESSES) \in Nat
      BY Room, Parents DEF Tree!Nodes
    <2> QED BY <1>1, <1>2, <2>1, <2>2 DEF Way
  <1>4. ASSUME NEW m \in way \ {Tree!EBRT_ROOT} PROVE Tree!EBRT_PARENT(m) \in way
    <2>1. m \in Tree!Nodes \ {Tree!EBRT_ROOT} /\ m # n /\ m # Tree!Sibling(n)
      BY <1>1, <1>2
    <2>2. Tree!EBRT_PARENT(m) # p
      BY <2>1, Parents
    <2> QED BY <1>1, <1>2, <2>2 DEF Way
  <1>5. Way(way, t)
    BY <1>3, <1>4 DEF Way
  <1>6. p \in way
    BY <1>5, BelowIsOnTheWay
  <1> QED BY <1>6

-----------------------------------------------------------------------------
\* Epochs are even.
LEMMA Even ==
    ASSUME NEW e \in Nat
    PROVE  /\ e % 2 = 0 => (e + 2) % 2 = 0 /\ (e + 2) % 2 # 1 /\ e % 2 # 1
           /\ e % 2 # 1 => e % 2 = 0
           /\ \A m \in Nat : e % 2 = 0 /\ m % 2 = 0 /\ e < m => e + 2 <= m
  BY SMT

\* How an epoch reaches a thread.
LEMMA EpochBounds ==
    ASSUME Tree!TreeAssumption, TreeInv, NEW t \in Threads
    PROVE  /\ Tree!epoch \in Nat /\ Tree!epoch % 2 = 0 /\ ann[t] \in Nat /\ ann[t] % 2 = 0
           /\ ann[t] <= Tree!epoch /\ Tree!epoch <= ann[t] + 2
           /\ Tree!epoch # ann[t] => Tree!epoch = ann[t] + 2
  <1>1. Tree!epoch \in Nat /\ ann[t] \in Nat /\ ann[t] % 2 = 0
    BY Room DEF TreeInv, TreeType, Parity, Tree!epoch
  <1>2. ~Tree!QUIESCENT(Tree!epoch)
    BY Room, RootIsAbove DEF TreeInv, Parity, Tree!Empty, Tree!epoch
  <1>3. Tree!epoch % 2 = 0
    BY <1>1, <1>2, Even DEF Tree!QUIESCENT
  <1>4. ann[t] <= Tree!epoch /\ Tree!epoch <= ann[t] + 2
    BY Room, RootIsAbove DEF TreeInv, Behind, Tree!epoch, Tree!EPOCH_INCREMENT
  <1>5. Tree!epoch # ann[t] => ann[t] + 2 <= Tree!epoch
    BY <1>1, <1>3, <1>4, Even
  <1> QED BY <1>1, <1>3, <1>4, <1>5

LEMMA TreeInit == Tree!TreeAssumption /\ Tree!Init => TreeInv
  <1> SUFFICES ASSUME Tree!TreeAssumption, Tree!Init PROVE TreeInv
    OBVIOUS
  <1> USE Room DEF Tree!Init, Tree!RecordsInit, Tree!EPOCH_INCREMENT
  <1>1. \A ix \in Tree!Nodes : nodes[ix] = IF ix = Tree!EBRT_ROOT THEN 2 ELSE IF Tree!Empty(ix) THEN 1 ELSE 0
    OBVIOUS
  <1>2. \A t \in Threads : ann[t] = 0 \/ (ann[t] = 2 /\ Tree!EBRT_LEAF(t) = Tree!EBRT_ROOT)
    <2> SUFFICES ASSUME NEW t \in Threads
                 PROVE  ann[t] = 0 \/ (ann[t] = 2 /\ Tree!EBRT_LEAF(t) = Tree!EBRT_ROOT)
      OBVIOUS
    <2>1. ~Tree!Empty(Tree!EBRT_LEAF(t))
      BY BelowIsOnTheWay DEF Tree!Empty, Way
    <2> QED BY <1>1, <2>1
  <1>3. TreeType
    BY <1>1, <1>2 DEF TreeType, Tree!RecordsType, Climbing, Tree!Bags, Tree!TreeAssumption
  <1>4. Parity
    <2>1. 0 % 2 = 0 /\ 2 % 2 = 0 /\ 0 % 2 # 1 /\ 2 % 2 # 1
      OBVIOUS
    <2>2. \A t \in Threads : ann[t] % 2 = 0
      BY <1>2, <2>1
    <2>3. ASSUME NEW ix \in Tree!Nodes, Tree!QUIESCENT(nodes[ix]) PROVE Tree!Empty(ix)
      <3>1. nodes[ix] # 0 /\ nodes[ix] # 2
        BY ONLY <2>1, <2>3, Zenon DEF Tree!QUIESCENT
      <3> QED BY <1>1, <3>1
    <2> QED BY <2>2, <2>3 DEF Parity
  <1>5. Behind
    BY <1>1, <1>2 DEF Behind, Tree!Empty, Tree!epoch
  <1>6. Climbs
    BY DEF Climbs, Climbing
  <1> QED BY <1>3, <1>4, <1>5, <1>6 DEF TreeInv

\* Announcements only grow, and what has arrived stays so.
LEMMA Monotone ==
    ASSUME TreeType, NEW t \in Threads, NEW ix, Arrived(t, ix), ann'[t] = ann[t],
           ann' \in [Threads -> Nat], \A u \in Threads : ann[u] <= ann'[u]
    PROVE  Arrived(t, ix)'
  <1> SUFFICES ASSUME NEW u \in Threads, Tree!Below(ix, u)' PROVE ann'[t] <= ann'[u]
    BY DEF Arrived
  <1>1. Tree!Below(ix, u)
    BY DEF Tree!Below
  <1> QED BY <1>1 DEF Arrived, TreeType

LEMMA ClimbKeeps ==
    ASSUME Tree!TreeAssumption, TreeInv, NEW t \in Threads,
           Tree!ReadSibling(t) \/ Tree!ReadParent(t) \/ Tree!Propagate(t)
    PROVE  TreeInv'
  <1> DEFINE cur == currIx[t]
             par == Tree!EBRT_PARENT(cur)
  <1>0. cur \in Tree!Nodes /\ Tree!EBRT_ROOT \in Tree!Nodes /\ Tree!EBRT_LEAF(t) \in Tree!Nodes /\ Arrived(t, cur)
    BY Room
       DEF Tree!ReadSibling, Tree!ReadParent, Tree!Propagate, TreeInv, TreeType, Climbs, Climbing
  <1>1. /\ ann' = ann /\ UNCHANGED <<pending, index, epochbags, Tree!records>>
        /\ \A u \in Threads : u # t => /\ pc'[u] = pc[u] /\ currIx'[u] = currIx[u]
                                       /\ parentVal'[u] = parentVal[u]
    BY
       DEF Tree!ReadSibling, Tree!ReadParent, Tree!Propagate, Tree!Stop, Tree!Goto, TreeInv, TreeType
  <1>2. \A u \in Threads : \A ix : Arrived(u, ix)' <=> Arrived(u, ix)
    BY <1>1 DEF Arrived, Tree!Below
  <1>3. \A ix \in Tree!Nodes : Tree!Empty(ix)' <=> Tree!Empty(ix)
    BY DEF Tree!Empty, Tree!Below
  <1>4. CASE Tree!Stop(t) /\ nodes' = nodes
    <2>1. TreeType'
      BY <1>0, <1>1, <1>4
         DEF TreeInv, TreeType, Tree!RecordsType, Tree!records, Tree!Stop, Tree!Goto, Climbing
    <2>2. Parity' /\ Behind'
      BY <1>1, <1>3, <1>4 DEF TreeInv, Parity, Behind, Tree!Below, Tree!epoch
    <2>3. Climbs'
      BY <1>1, <1>2, <1>4 DEF TreeInv, TreeType, Climbs, Tree!Stop, Tree!Goto, Climbing
    <2> QED BY <2>1, <2>2, <2>3 DEF TreeInv
  <1>5. CASE Tree!ReadSibling(t) /\ ~Tree!Stop(t)
    <2>1. /\ nodes' = nodes /\ currIx' = currIx /\ parentVal' = parentVal
          /\ pc' = [pc EXCEPT ![t] = "parent"]
          /\ cur > Tree!EBRT_ROOT
          /\ nodes[Tree!Sibling(cur)] = ann[t] \/ Tree!QUIESCENT(nodes[Tree!Sibling(cur)])
      BY <1>5 DEF Tree!ReadSibling, Tree!Goto
    <2>2. TreeType'
      BY <1>1, <2>1 DEF TreeInv, TreeType, Tree!RecordsType, Tree!records, Climbing
    <2>3. Parity' /\ Behind'
      BY <1>1, <1>3, <2>1 DEF TreeInv, Parity, Behind, Tree!Below, Tree!epoch
    <2>4. Arrived(t, par)
      <3> SUFFICES ASSUME NEW u \in Threads, Tree!Below(par, u) PROVE ann[t] <= ann[u]
        BY DEF Arrived
      <3>1. cur # Tree!EBRT_ROOT
        BY <2>1 DEF Tree!EBRT_ROOT
      <3>2. CASE Tree!Below(cur, u)
        BY <1>0, <3>2 DEF Arrived
      <3>3. CASE Tree!Below(Tree!Sibling(cur), u)
        <4>1. Tree!Sibling(cur) \in Tree!Nodes \ {Tree!EBRT_ROOT}
          BY <1>0, <3>1, Parents
        <4>2. nodes[Tree!Sibling(cur)] = ann[t]
          BY <2>1, <3>3, <4>1 DEF TreeInv, Parity, Tree!Empty
        <4> QED BY <3>3, <4>1, <4>2 DEF TreeInv, TreeType, Behind
      <3> QED BY <1>0, <3>1, <3>2, <3>3, OneChild
    <2>5. Climbs'
      BY <1>0, <1>1, <1>2, <2>1, <2>4 DEF TreeInv, TreeType, Climbs, Climbing
    <2> QED BY <2>2, <2>3, <2>5 DEF TreeInv
  <1>6. CASE Tree!ReadParent(t) /\ ~Tree!Stop(t)
    <2>1. /\ nodes' = nodes /\ currIx' = currIx
          /\ pc[t] = "parent" /\ pc' = [pc EXCEPT ![t] = "propagate"]
          /\ parentVal' = [parentVal EXCEPT ![t] = nodes[par]]
          /\ par = Tree!EBRT_ROOT => nodes[par] = ann[t]
      BY <1>6 DEF Tree!ReadParent, Tree!Goto
    <2>2. cur # Tree!EBRT_ROOT /\ Arrived(t, par)
      BY <2>1 DEF TreeInv, Climbs, Tree!EBRT_ROOT
    <2>3. par \in Tree!Nodes
      BY <1>0, <2>2, Parents
    <2>4. TreeType'
      BY <1>1, <2>1, <2>3 DEF TreeInv, TreeType, Tree!RecordsType, Tree!records, Climbing
    <2>5. Parity' /\ Behind'
      BY <1>1, <1>3, <2>1 DEF TreeInv, Parity, Behind, Tree!Below, Tree!epoch
    <2>6. Climbs'
      BY <1>0, <1>1, <1>2, <2>1, <2>2 DEF TreeInv, TreeType, Climbs, Climbing
    <2> QED BY <2>4, <2>5, <2>6 DEF TreeInv
  <1>7. CASE Tree!Propagate(t) /\ nodes[par] = parentVal[t]
    <2>1. cur # Tree!EBRT_ROOT /\ Arrived(t, par) /\ (par = Tree!EBRT_ROOT => nodes[par] = ann[t])
      BY <1>7 DEF Tree!Propagate, TreeInv, Climbs, Tree!EBRT_ROOT
    <2>2. par \in Tree!Nodes
      BY <1>0, <2>1, Parents
    <2> DEFINE val == IF par = Tree!EBRT_ROOT THEN ann[t] + 2 ELSE ann[t]
    <2>3. nodes' = [nodes EXCEPT ![par] = val]
      BY <1>7, <2>1 DEF Tree!Propagate, Tree!Carry, Tree!EPOCH_INCREMENT
    <2>4. ann[t] \in Nat /\ val \in Nat /\ val % 2 = 0 /\ val % 2 # 1
      BY Even DEF TreeInv, TreeType, Parity
    <2>5. TreeType'
      <3>1. nodes' \in [Tree!Nodes -> Nat]
        BY <2>3, <2>4 DEF TreeInv, TreeType
      <3>2. /\ pc' \in [Threads -> Climbing \cup {"idle", "fence", "op"}]
            /\ currIx' \in [Threads -> Tree!Nodes] /\ parentVal' \in [Threads -> Nat]
        <4>1. CASE par = Tree!EBRT_ROOT
          <5>1. Tree!Stop(t)
            BY <1>7, <4>1 DEF Tree!Propagate
          <5> QED BY <1>0, <5>1 DEF Tree!Stop, Tree!Goto, TreeInv, TreeType, Climbing
        <4>2. CASE par # Tree!EBRT_ROOT
          <5>1. /\ pc' = [pc EXCEPT ![t] = "sibling"] /\ currIx' = [currIx EXCEPT ![t] = par]
                /\ parentVal' = parentVal
            BY <1>7, <4>2 DEF Tree!Propagate, Tree!Goto
          <5> QED BY <2>2, <5>1 DEF TreeInv, TreeType, Climbing
        <4> QED BY <4>1, <4>2
      <3> QED BY <1>1, <3>1, <3>2 DEF TreeInv, TreeType, Tree!RecordsType, Tree!records
    <2>6. \A ix \in Tree!Nodes : nodes'[ix] = IF ix = par THEN val ELSE nodes[ix]
      BY <2>2, <2>3 DEF TreeInv, TreeType
    <2>7. Parity'
      BY <1>1, <1>3, <2>4, <2>6 DEF TreeInv, Parity, Tree!QUIESCENT
    <2>8. Behind'
      <3>1. ASSUME NEW ix \in Tree!Nodes, NEW u \in Threads, Tree!Below(ix, u)
            PROVE  nodes'[ix] <= ann[u] + IF ix = Tree!EBRT_ROOT THEN Tree!EPOCH_INCREMENT ELSE 0
        <4>1. CASE ix = par
          <5>1. ann[t] <= ann[u]
            BY <2>1, <3>1, <4>1 DEF Arrived
          <5> QED BY <2>4, <2>6, <4>1, <5>1 DEF TreeInv, TreeType, Tree!EPOCH_INCREMENT
        <4>2. CASE ix # par
          BY <2>6, <3>1, <4>2 DEF TreeInv, Behind
        <4> QED BY <4>1, <4>2
      <3>2. ASSUME NEW u \in Threads PROVE ann[u] <= nodes'[Tree!EBRT_ROOT]
        <4>1. ann[u] \in Nat /\ ann[u] <= nodes[Tree!EBRT_ROOT]
          BY DEF TreeInv, TreeType, Behind, Tree!epoch
        <4> QED BY <1>0, <2>1, <2>4, <2>6, <4>1
      <3> QED BY <1>1, <3>1, <3>2 DEF Behind, Tree!Below, Tree!epoch
    <2>9. Climbs'
      <3>1. CASE par = Tree!EBRT_ROOT
        BY <1>1, <1>2, <1>7, <3>1
           DEF TreeInv, TreeType, Climbs, Tree!Propagate, Tree!Stop, Tree!Goto, Climbing
      <3>2. CASE par # Tree!EBRT_ROOT
        <4>1. pc' = [pc EXCEPT ![t] = "sibling"] /\ currIx' = [currIx EXCEPT ![t] = par]
          BY <1>7, <3>2 DEF Tree!Propagate, Tree!Goto
        <4> QED BY <1>1, <1>2, <2>1, <2>2, <4>1 DEF TreeInv, TreeType, Climbs, Climbing
      <3> QED BY <3>1, <3>2
    <2> QED BY <2>5, <2>7, <2>8, <2>9 DEF TreeInv
  <1> QED BY <1>4, <1>5, <1>6, <1>7 DEF Tree!ReadSibling, Tree!ReadParent, Tree!Propagate

\* What a rotation does: an epoch later, the bag that was in use longest ago is emptied.
LEMMA Announces ==
    ASSUME TreeInv, NEW t \in Threads, NEW climbs \in BOOLEAN, Tree!StartOp(t, climbs)
    PROVE  /\ pc[t] = "idle" /\ pc' = [pc EXCEPT ![t] = IF climbs THEN "sibling" ELSE "fence"]
           /\ UNCHANGED <<nodes, currIx, parentVal, running, held, graced>>
           /\ ann' = [ann EXCEPT ![t] = Tree!epoch]
           /\ pending' \in [Threads -> BOOLEAN]
           /\ \A u \in Threads : pending[u] => pending'[u]
  <1>1. CASE Tree!epoch # ann[t]
    BY <1>1 DEF Tree!StartOp, Tree!Goto, Tree!rotateEpochBags, Tree!Release, TreeInv, TreeType
  <1>2. CASE Tree!epoch = ann[t]
    BY <1>2 DEF Tree!StartOp, Tree!Goto, Tree!records, TreeInv, TreeType
  <1> QED BY <1>1, <1>2

LEMMA StartKeeps ==
    ASSUME Tree!TreeAssumption, TreeInv, NEW t \in Threads, NEW climbs \in BOOLEAN, Tree!StartOp(t, climbs),
           Tree!RecordsType', index' \in [Threads -> Tree!Bags],
           epochbags' \in [Threads -> [Tree!Bags -> SUBSET Records]]
    PROVE  TreeInv'
  <1>1. /\ pc[t] = "idle" /\ pc' = [pc EXCEPT ![t] = IF climbs THEN "sibling" ELSE "fence"]
        /\ UNCHANGED <<nodes, currIx, parentVal, running, held, graced>>
        /\ ann' = [ann EXCEPT ![t] = Tree!epoch]
        /\ pending' \in [Threads -> BOOLEAN]
    BY Announces
  <1>2. Tree!epoch \in Nat /\ Tree!epoch % 2 = 0 /\ ann[t] <= Tree!epoch
    BY EpochBounds
  <1>3. /\ ann' \in [Threads -> Nat] /\ ann'[t] = Tree!epoch
        /\ \A u \in Threads : ann[u] <= ann'[u] /\ (u # t => ann'[u] = ann[u])
    BY <1>1, <1>2 DEF TreeInv, TreeType
  <1>4. TreeType'
    BY <1>1, <1>3 DEF TreeInv, TreeType, Climbing
  <1>5. Parity'
    BY <1>1, <1>2, <1>3 DEF TreeInv, Parity, Tree!Empty, Tree!Below
  <1>6. Behind'
    <2>1. ASSUME NEW ix \in Tree!Nodes, NEW u \in Threads, Tree!Below(ix, u)
          PROVE  nodes[ix] <= ann'[u] + IF ix = Tree!EBRT_ROOT THEN Tree!EPOCH_INCREMENT ELSE 0
      <3>1. nodes[ix] <= ann[u] + IF ix = Tree!EBRT_ROOT THEN Tree!EPOCH_INCREMENT ELSE 0
        BY <2>1 DEF TreeInv, Behind
      <3>2. ann[u] <= ann'[u] /\ ann[u] \in Nat /\ ann'[u] \in Nat /\ nodes[ix] \in Nat
        BY <1>3 DEF TreeInv, TreeType
      <3> QED BY <3>1, <3>2 DEF Tree!EPOCH_INCREMENT
    <2>2. \A u \in Threads : ann'[u] <= Tree!epoch
      BY <1>2, <1>3 DEF TreeInv, Behind
    <2> QED BY <1>1, <2>1, <2>2 DEF Behind, Tree!Below, Tree!epoch
  <1>7. Climbs'
    <2>1. ASSUME NEW u \in Threads, u # t, NEW ix, Arrived(u, ix) PROVE Arrived(u, ix)'
      BY <1>3, <2>1, Monotone DEF TreeInv
    <2>2. currIx[t] = Tree!EBRT_LEAF(t)
      BY <1>1 DEF TreeInv, Climbs, Climbing
    <2>3. Arrived(t, currIx[t])'
      <3>1. ASSUME NEW u \in Threads, Tree!Below(currIx[t], u) PROVE u = t
        BY <2>2, <3>1, OneLeaf
      <3> QED BY <1>1, <1>2, <1>3, <3>1 DEF Arrived, Tree!Below
    <2>4. \A u \in Threads : u # t => pc'[u] = pc[u]
      BY <1>1 DEF TreeInv, TreeType
    <2>5. pc'[t] \in {"sibling", "fence"}
      BY <1>1 DEF TreeInv, TreeType
    <2> QED BY <1>1, <1>3, <2>1, <2>2, <2>3, <2>4, <2>5 DEF TreeInv, Climbs, Climbing
  <1> QED BY <1>4, <1>5, <1>6, <1>7 DEF TreeInv

LEMMA DrainKeeps ==
    ASSUME Tree!TreeAssumption, TreeInv, NEW t \in Threads, Tree!Drain(t) PROVE TreeInv'
  <1> DEFINE leaf == Tree!EBRT_LEAF(t)
  <1>0. leaf \in Tree!Nodes /\ Tree!EBRT_ROOT \in Tree!Nodes
    BY Room
  <1>1. /\ UNCHANGED <<ann, index, epochbags, pc, currIx, parentVal, Tree!records>>
        /\ pending' = [pending EXCEPT ![t] = FALSE]
        /\ \A ix \in Tree!Nodes : nodes'[ix] = IF ix = leaf THEN ann[t] ELSE nodes[ix]
    BY <1>0 DEF Tree!Drain, TreeInv, TreeType
  <1>2. ann[t] \in Nat /\ ann[t] % 2 = 0 /\ ann[t] % 2 # 1
    BY Even DEF TreeInv, TreeType, Parity
  <1>3. TreeType'
    BY <1>1, <1>2, ZenonT(60) DEF Tree!Drain, TreeInv, TreeType, Tree!RecordsType, Tree!records
  <1>4. Parity'
    BY <1>1, <1>2 DEF TreeInv, Parity, Tree!QUIESCENT, Tree!Empty, Tree!Below
  <1>5. Behind'
    <2>1. ASSUME NEW ix \in Tree!Nodes, NEW u \in Threads, Tree!Below(ix, u)
          PROVE  nodes'[ix] <= ann[u] + IF ix = Tree!EBRT_ROOT THEN Tree!EPOCH_INCREMENT ELSE 0
      <3>1. CASE ix = leaf
        BY <1>1, <1>2, <2>1, <3>1, OneLeaf DEF Tree!EPOCH_INCREMENT
      <3>2. CASE ix # leaf
        BY <1>1, <2>1, <3>2 DEF TreeInv, Behind
      <3> QED BY <3>1, <3>2
    <2>2. ASSUME NEW u \in Threads PROVE ann[u] <= nodes'[Tree!EBRT_ROOT]
      <3>1. CASE leaf = Tree!EBRT_ROOT
        <4>1. u = t
          BY <3>1, RootIsAbove, OneLeaf
        <4> QED BY <1>0, <1>1, <1>2, <3>1, <4>1
      <3>2. CASE leaf # Tree!EBRT_ROOT
        BY <1>0, <1>1, <3>2 DEF TreeInv, Behind, Tree!epoch
      <3> QED BY <3>1, <3>2
    <2> QED BY <1>1, <2>1, <2>2 DEF Behind, Tree!Below, Tree!epoch
  <1>6. Climbs'
    BY <1>1 DEF TreeInv, Climbs, Arrived, Tree!Below
  <1> QED BY <1>3, <1>4, <1>5, <1>6 DEF TreeInv

\* Operations leave the tree alone.
LEMMA OperationKeeps ==
    ASSUME TreeInv, NEW t \in Threads,
           pc' = pc \/ (pc[t] \notin Climbing /\ \E l \in {"idle", "op"} : pc' = [pc EXCEPT ![t] = l]),
           UNCHANGED <<nodes, ann, pending, index, currIx, parentVal>>,
           Tree!RecordsType', epochbags' \in [Threads -> [Tree!Bags -> SUBSET Records]]
    PROVE  TreeInv'
  <1>1. TreeType'
    BY DEF TreeInv, TreeType, Climbing
  <1>2. Parity' /\ Behind'
    BY DEF TreeInv, Parity, Tree!Empty, Behind, Tree!Below, Tree!epoch
  <1>3. Climbs'
    BY DEF TreeInv, TreeType, Climbs, Climbing, Arrived, Tree!Below
  <1> QED BY <1>1, <1>2, <1>3 DEF TreeInv

-----------------------------------------------------------------------------
\* The ring of bags.
LEMMA Wrap ==
    ASSUME NEW B \in Nat \ {0}, NEW x \in 0..2 * B - 1
    PROVE  x % B = IF x < B THEN x ELSE x - B
  BY SMT

Next1(i) == (i + 1) % NUMBER_OF_EPOCH_BAGS
Oldest(i) == (Next1(i) + NUMBER_OF_ALWAYS_EMPTY_EPOCH_BAGS) % NUMBER_OF_EPOCH_BAGS

LEMMA Turn ==
    ASSUME Tree!TreeAssumption, NEW i \in Tree!Bags, NEW b \in Tree!Bags
    PROVE  /\ NUMBER_OF_EPOCH_BAGS \in Nat \ {0} /\ NUMBER_OF_ALWAYS_EMPTY_EPOCH_BAGS \in Nat
           /\ Next1(i) \in Tree!Bags /\ Oldest(i) \in Tree!Bags
           /\ AgoAt(i, b) \in Nat
           /\ AgoAt(Next1(i), b) = IF b = Next1(i) THEN 0 ELSE AgoAt(i, b) + 1
           /\ AgoAt(i, i) = 0
           /\ AgoAt(i, Oldest(i)) = NUMBER_OF_EPOCH_BAGS - 1 - NUMBER_OF_ALWAYS_EMPTY_EPOCH_BAGS
  <1> DEFINE B == NUMBER_OF_EPOCH_BAGS
             E == NUMBER_OF_ALWAYS_EMPTY_EPOCH_BAGS
             f == i + 1
             g == Next1(i) + E
  <1>1. B \in Nat \ {0} /\ E \in 0..B - 1 /\ i \in 0..B - 1 /\ b \in 0..B - 1
    BY DEF Tree!TreeAssumption, Tree!Bags
  <1>2. f \in 0..2 * B - 1
    BY <1>1
  <1>3. Next1(i) = IF f < B THEN f ELSE f - B
    <2> HIDE DEF f
    <2> QED BY <1>1, <1>2, Wrap DEF Next1, f
  <1>4. g \in 0..2 * B - 1
    BY <1>1, <1>3
  <1>5. Oldest(i) = IF g < B THEN g ELSE g - B
    <2> HIDE DEF g
    <2>1. Oldest(i) = g % B
      BY DEF Oldest, g
    <2> QED BY <1>1, <1>4, <2>1, Wrap
  <1> QED BY <1>1, <1>3, <1>5 DEF AgoAt, Tree!Bags

\* What a rotation frees, no operation can have a pointer to.
LEMMA OldestIsOver ==
    ASSUME Tree!TreeAssumption, ThreeBags, TreeKept, NEW t \in Threads, Tree!epoch # ann[t],
           NEW r \in epochbags[t][Oldest(index[t])]
    PROVE  r \in Records /\ where[r] = "retired" /\ graced[r] = {}
  <1> DEFINE B == NUMBER_OF_EPOCH_BAGS
             E == NUMBER_OF_ALWAYS_EMPTY_EPOCH_BAGS
             o == Oldest(index[t])
  <1>1. index[t] \in Tree!Bags
    BY DEF TreeKept, TreeInv, TreeType
  <1>2. o \in Tree!Bags /\ AgoAt(index[t], o) = B - 1 - E /\ B \in Nat /\ E \in Nat
    BY <1>1, Turn
  <1>3. r \in Records /\ where[r] = "retired"
    BY <1>2 DEF TreeKept, TreeInv, TreeType, Bagged
  <1>4. ASSUME NEW u \in graced[r] PROVE FALSE
    <2>1. u \in Threads
      BY <1>3 DEF TreeKept, TreeInv, TreeType, Tree!RecordsType
    <2>2. ann[u] + 2 * AgoAt(index[t], o) <= ann[t] + 2
      BY <1>2 DEF TreeKept, Ages
    <2>3. Tree!epoch = ann[t] + 2 /\ Tree!epoch <= ann[u] + 2 /\ ann[t] \in Nat /\ ann[u] \in Nat
      BY <2>1, EpochBounds DEF TreeKept
    <2> HIDE DEF o
    <2> QED BY <1>2, <2>2, <2>3 DEF ThreeBags
  <1> QED BY <1>3, <1>4

LEMMA Rotates ==
    ASSUME Tree!TreeAssumption, TreeKept, NEW t \in Threads, NEW climbs \in BOOLEAN, Tree!StartOp(t, climbs)
    PROVE  \E freeable \in SUBSET epochbags[t][Oldest(index[t])] :
              /\ Tree!epoch = ann[t] => freeable = {} /\ index' = index
              /\ Tree!epoch # ann[t] => index' = [index EXCEPT ![t] = Next1(index[t])]
              /\ epochbags' = [epochbags EXCEPT ![t][Oldest(index[t])] = @ \ freeable]
              /\ where' = [r \in Records |-> IF r \in freeable THEN "freed" ELSE where[r]]
              /\ UNCHANGED <<running, held, graced>>
  <1> DEFINE o == Oldest(index[t])
  <1>0. index[t] \in Tree!Bags /\ o \in Tree!Bags
    BY Turn DEF TreeKept, TreeInv, TreeType
  <1>1. CASE Tree!epoch # ann[t]
    BY <1>1 DEF Tree!StartOp, Tree!rotateEpochBags, Tree!Release, Next1, Oldest
  <1>2. CASE Tree!epoch = ann[t]
    <2>1. UNCHANGED <<index, epochbags, Tree!records>>
      BY <1>2 DEF Tree!StartOp
    <2>2. epochbags = [epochbags EXCEPT ![t][o] = @ \ {}]
      BY <1>0 DEF TreeKept, TreeInv, TreeType
    <2>3. where = [r \in Records |-> IF r \in {} THEN "freed" ELSE where[r]]
      BY DEF TreeKept, TreeInv, TreeType, Tree!RecordsType
    <2> WITNESS {} \in SUBSET epochbags[t][o]
    <2>4. UNCHANGED <<index, epochbags, where, running, held, graced>>
      BY <2>1 DEF Tree!records
    <2> QED BY <1>2, <2>2, <2>3, <2>4, Zenon
  <1> QED BY <1>1, <1>2

LEMMA StartOpKeeps ==
    ASSUME Tree!TreeAssumption, TreeKept, NEW t \in Threads, NEW climbs \in BOOLEAN, Tree!StartOp(t, climbs)
    PROVE  TreeKept'
  <1> DEFINE o == Oldest(index[t])
  <1>0. index[t] \in Tree!Bags /\ o \in Tree!Bags /\ Next1(index[t]) \in Tree!Bags
    BY Turn DEF TreeKept, TreeInv, TreeType
  <1>1. PICK freeable \in SUBSET epochbags[t][o] :
           /\ Tree!epoch = ann[t] => freeable = {} /\ index' = index
           /\ Tree!epoch # ann[t] => index' = [index EXCEPT ![t] = Next1(index[t])]
           /\ epochbags' = [epochbags EXCEPT ![t][o] = @ \ freeable]
           /\ where' = [r \in Records |-> IF r \in freeable THEN "freed" ELSE where[r]]
           /\ UNCHANGED <<running, held, graced>>
    BY Rotates
  <1>2. /\ pc[t] = "idle" /\ pc' = [pc EXCEPT ![t] = IF climbs THEN "sibling" ELSE "fence"]
        /\ ann' = [ann EXCEPT ![t] = Tree!epoch]
    BY Announces DEF TreeKept
  <1>3. \A u \in Threads, b \in Tree!Bags :
           epochbags'[u][b] = epochbags[u][b] \ (IF u = t /\ b = o THEN freeable ELSE {})
    BY <1>0, <1>1 DEF TreeKept, TreeInv, TreeType
  <1>4. Tree!RecordsType'
    BY <1>1 DEF TreeKept, TreeInv, TreeType, Tree!RecordsType
  <1>5. index' \in [Threads -> Tree!Bags] /\ epochbags' \in [Threads -> [Tree!Bags -> SUBSET Records]]
    BY <1>0, <1>1 DEF TreeKept, TreeInv, TreeType
  <1>6. TreeInv'
    BY <1>4, <1>5, StartKeeps DEF TreeKept
  <1>7. Bagged'
    <2>1. \A u \in Threads : u \in running' <=> pc'[u] = "op"
      BY <1>1, <1>2 DEF TreeKept, Bagged, TreeInv, TreeType
    <2>2. ASSUME NEW u \in Threads, NEW b \in Tree!Bags, NEW r \in epochbags'[u][b]
          PROVE  where'[r] = "retired"
      <3>1. r \in epochbags[u][b] /\ ~(u = t /\ b = o /\ r \in freeable)
        BY <1>3, <2>2
      <3>2. r \in Records /\ where[r] = "retired"
        BY <3>1 DEF TreeKept, Bagged, TreeInv, TreeType
      <3>3. r \notin freeable
        BY <1>0, <1>1, <3>1 DEF TreeKept, Bagged
      <3> QED BY <1>1, <3>2, <3>3
    <2>3. \A u, w \in Threads, b, d \in Tree!Bags :
             epochbags'[u][b] \cap epochbags'[w][d] # {} => u = w /\ b = d
      BY <1>3 DEF TreeKept, Bagged
    <2>4. \A r \in Records : graced'[r] \subseteq running'
      BY <1>1 DEF TreeKept, Bagged
    <2> QED BY <2>1, <2>2, <2>3, <2>4 DEF Bagged
  <1>8. Ages'
    <2> SUFFICES ASSUME NEW u \in Threads, NEW b \in Tree!Bags, NEW r \in epochbags'[u][b],
                        NEW w \in graced[r]
                 PROVE  ann'[w] + 2 * AgoAt(index'[u], b) <= ann'[u] + 2
      BY <1>1 DEF Ages, AgoAt
    <2>1. r \in epochbags[u][b] /\ r \in Records
      BY <1>3 DEF TreeKept, TreeInv, TreeType
    <2>2. w \in Threads /\ w # t
      BY <1>2, <2>1 DEF TreeKept, Bagged, TreeInv, TreeType, Tree!RecordsType
    <2>3. ann'[w] = ann[w]
      BY <1>2, <2>2 DEF TreeKept, TreeInv, TreeType
    <2>4. ann[w] + 2 * AgoAt(index[u], b) <= ann[u] + 2
      BY <2>1 DEF TreeKept, Ages
    <2>5. CASE u # t
      <3>1. ann'[u] = ann[u] /\ index'[u] = index[u]
        BY <1>1, <1>2, <2>5 DEF TreeKept, TreeInv, TreeType
      <3> QED BY <2>3, <2>4, <3>1
    <2>6. CASE u = t /\ Tree!epoch = ann[t]
      <3>1. ann'[u] = ann[u] /\ index'[u] = index[u]
        BY <1>1, <1>2, <2>6 DEF TreeKept, TreeInv, TreeType
      <3> QED BY <2>3, <2>4, <3>1
    <2>7. CASE u = t /\ Tree!epoch # ann[t]
      <3>1. ann'[t] = Tree!epoch /\ index'[t] = Next1(index[t])
        BY <1>1, <1>2, <2>7 DEF TreeKept, TreeInv, TreeType
      <3>2. Tree!epoch = ann[t] + 2 /\ ann[t] \in Nat
        BY <2>7, EpochBounds DEF TreeKept
      <3>3. ann[w] <= Tree!epoch /\ ann[w] \in Nat
        BY <2>2, EpochBounds DEF TreeKept
      <3>4. AgoAt(index[t], b) \in Nat
        BY <1>0, Turn
      <3>5. AgoAt(Next1(index[t]), b) = IF b = Next1(index[t]) THEN 0 ELSE AgoAt(index[t], b) + 1
        BY <1>0, Turn
      <3>6. ann'[w] + 2 * AgoAt(Next1(index[t]), b) <= Tree!epoch + 2
        BY <2>3, <2>4, <2>7, <3>2, <3>3, <3>4, <3>5
      <3> QED BY <2>7, <3>1, <3>6
    <2> QED BY <2>5, <2>6, <2>7
  <1> QED BY <1>6, <1>7, <1>8 DEF TreeKept

-----------------------------------------------------------------------------
\* The other steps keep bags and ages.
LEMMA BagsStay ==
    ASSUME TreeKept, TreeInv', UNCHANGED <<ann, index, epochbags, graced>>,
           \A r \in Records : where[r] = "retired" => where'[r] = "retired",
           \A t \in Threads : t \in running' <=> pc'[t] = "op",
           running \subseteq running'
    PROVE  TreeKept'
  <1>1. Bagged'
    <2>1. \A t \in Threads, b \in Tree!Bags : epochbags[t][b] \subseteq Records
      BY DEF TreeKept, TreeInv, TreeType
    <2> QED BY <2>1 DEF TreeKept, Bagged
  <1>2. Ages'
    BY DEF TreeKept, Ages, AgoAt
  <1> QED BY <1>1, <1>2 DEF TreeKept

LEMMA ClimbStepKeeps ==
    ASSUME Tree!TreeAssumption, TreeKept, NEW t \in Threads,
           Tree!ReadSibling(t) \/ Tree!ReadParent(t) \/ Tree!Propagate(t)
    PROVE  TreeKept'
  <1>1. TreeInv'
    BY ClimbKeeps DEF TreeKept
  <1>2. UNCHANGED <<ann, index, epochbags, Tree!records>>
    BY DEF Tree!ReadSibling, Tree!ReadParent, Tree!Propagate
  <1>3. \A u \in Threads : pc'[u] = "op" <=> pc[u] = "op"
    BY
       DEF Tree!ReadSibling, Tree!ReadParent, Tree!Propagate, Tree!Stop, Tree!Goto, TreeKept, TreeInv, TreeType
  <1> QED BY <1>1, <1>2, <1>3, BagsStay DEF TreeKept, Bagged, Tree!records

LEMMA DrainStepKeeps ==
    ASSUME Tree!TreeAssumption, TreeKept, NEW t \in Threads, Tree!Drain(t) PROVE TreeKept'
  <1>1. TreeInv'
    BY DrainKeeps DEF TreeKept
  <1> QED BY <1>1, BagsStay DEF Tree!Drain, Tree!records, TreeKept, Bagged

LEMMA FenceKeeps == ASSUME TreeKept, NEW t \in Threads, Tree!Fence(t) PROVE TreeKept'
  <1> USE DEF Tree!Fence, Tree!Begin, Tree!Goto
  <1>1. Tree!RecordsType' /\ epochbags' \in [Threads -> [Tree!Bags -> SUBSET Records]]
    BY DEF TreeKept, TreeInv, TreeType, Tree!RecordsType
  <1>2. TreeInv'
    BY <1>1, OperationKeeps DEF TreeKept, Climbing
  <1>3. \A u \in Threads : u \in running' <=> pc'[u] = "op"
    BY DEF TreeKept, Bagged, TreeInv, TreeType
  <1> QED BY <1>2, <1>3, BagsStay

LEMMA UseRecordsKeeps == ASSUME TreeKept, NEW t \in Threads, Tree!UseRecords(t) PROVE TreeKept'
  <1> USE DEF Tree!UseRecords, Tree!control, Tree!Reach, Tree!Allocate
  <1>1. Tree!RecordsType' /\ epochbags' \in [Threads -> [Tree!Bags -> SUBSET Records]]
    <2>1. /\ where' \in [Records -> {"linked", "retired", "freed"}]
          /\ held' \in [Threads -> SUBSET Records]
      <3>1. /\ where \in [Records -> {"linked", "retired", "freed"}]
            /\ held \in [Threads -> SUBSET Records]
        BY DEF TreeKept, TreeInv, TreeType, Tree!RecordsType
      <3>2. CASE Tree!Reach(t)
        BY <3>1, <3>2
      <3>3. CASE Tree!Allocate(t)
        BY <3>1, <3>3
      <3> QED BY <3>2, <3>3
    <2> QED BY <2>1 DEF TreeKept, TreeInv, TreeType, Tree!RecordsType
  <1>2. TreeInv'
    BY <1>1, OperationKeeps DEF TreeKept
  <1>3. \A r \in Records : where[r] = "retired" => where'[r] = "retired"
    BY DEF TreeKept, TreeInv, TreeType, Tree!RecordsType
  <1> QED BY <1>2, <1>3, BagsStay DEF TreeKept, Bagged

LEMMA RetireKeeps ==
    ASSUME Tree!TreeAssumption, TreeKept, NEW t \in Threads, Tree!retire(t)
    PROVE  TreeKept'
  <1> DEFINE i == index[t]
  <1> PICK r \in Records : /\ Tree!Unlink(t, r)
                           /\ epochbags' = [epochbags EXCEPT ![t][i] = @ \cup {r}]
    BY DEF Tree!retire
  <1>0. i \in Tree!Bags
    BY DEF TreeKept, TreeInv, TreeType
  <1>1. /\ UNCHANGED <<nodes, ann, pending, index, pc, currIx, parentVal, running, held>>
        /\ where[r] = "linked" /\ where' = [where EXCEPT ![r] = "retired"]
        /\ graced' = [graced EXCEPT ![r] = running]
    BY DEF Tree!retire, Tree!Unlink
  <1>2. \A u \in Threads, b \in Tree!Bags :
           /\ r \notin epochbags[u][b]
           /\ epochbags'[u][b] = epochbags[u][b] \cup (IF u = t /\ b = i THEN {r} ELSE {})
    BY <1>0, <1>1 DEF TreeKept, Bagged, TreeInv, TreeType
  <1>3. Tree!RecordsType' /\ epochbags' \in [Threads -> [Tree!Bags -> SUBSET Records]]
    BY <1>0, <1>1 DEF TreeKept, TreeInv, TreeType, Tree!RecordsType
  <1>4. TreeInv'
    BY <1>1, <1>3, OperationKeeps DEF TreeKept
  <1>5. Bagged'
    <2>1. \A u \in Threads, b \in Tree!Bags : \A s \in epochbags'[u][b] : where'[s] = "retired"
      BY <1>1, <1>2 DEF TreeKept, Bagged, TreeInv, TreeType, Tree!RecordsType
    <2>2. \A u, w \in Threads, b, d \in Tree!Bags :
             epochbags'[u][b] \cap epochbags'[w][d] # {} => u = w /\ b = d
      <3> SUFFICES ASSUME NEW u \in Threads, NEW w \in Threads, NEW b \in Tree!Bags, NEW d \in Tree!Bags,
                          NEW s \in epochbags'[u][b], s \in epochbags'[w][d]
                   PROVE  u = w /\ b = d
        OBVIOUS
      <3>1. CASE s = r
        BY <1>2, <3>1
      <3>2. CASE s # r
        BY <1>2, <3>2 DEF TreeKept, Bagged
      <3> QED BY <3>1, <3>2
    <2>3. \A s \in Records : graced'[s] \subseteq running'
      BY <1>1 DEF TreeKept, Bagged, TreeInv, TreeType, Tree!RecordsType
    <2> QED BY <1>1, <2>1, <2>2, <2>3 DEF TreeKept, Bagged
  <1>6. Ages'
    <2> SUFFICES ASSUME NEW u \in Threads, NEW b \in Tree!Bags, NEW s \in epochbags'[u][b],
                        NEW w \in graced'[s]
                 PROVE  ann[w] + 2 * AgoAt(index[u], b) <= ann[u] + 2
      BY <1>1 DEF Ages, AgoAt
    <2>1. CASE s = r
      <3>1. u = t /\ b = i /\ w \in running
        BY <1>1, <1>2, <2>1 DEF TreeKept, TreeInv, TreeType, Tree!RecordsType
      <3>2. w \in Threads /\ AgoAt(i, i) = 0
        BY <1>0, <3>1, Turn DEF TreeKept, TreeInv, TreeType, Tree!RecordsType
      <3>3. ann[w] <= Tree!epoch /\ Tree!epoch <= ann[t] + 2 /\ ann[w] \in Nat /\ ann[t] \in Nat /\ Tree!epoch \in Nat
        BY <3>2, EpochBounds DEF TreeKept
      <3> QED BY <3>1, <3>2, <3>3
    <2>2. CASE s # r
      <3>1. s \in epochbags[u][b] /\ w \in graced[s]
        BY <1>1, <1>2, <2>2 DEF TreeKept, TreeInv, TreeType, Tree!RecordsType
      <3> QED BY <3>1 DEF TreeKept, Ages
    <2> QED BY <2>1, <2>2
  <1> QED BY <1>4, <1>5, <1>6 DEF TreeKept

LEMMA EndOpKeeps == ASSUME TreeKept, NEW t \in Threads, Tree!EndOp(t) PROVE TreeKept'
  <1> USE DEF Tree!EndOp, Tree!End, Tree!Goto
  <1>1. Tree!RecordsType' /\ epochbags' \in [Threads -> [Tree!Bags -> SUBSET Records]]
    BY DEF TreeKept, TreeInv, TreeType, Tree!RecordsType
  <1>2. TreeInv'
    BY <1>1, OperationKeeps DEF TreeKept, Bagged, Climbing
  <1>3. Bagged'
    BY DEF TreeKept, Bagged, TreeInv, TreeType, Tree!RecordsType
  <1>4. Ages'
    <2>1. \A u \in Threads, b \in Tree!Bags : \A r \in epochbags[u][b] : graced'[r] \subseteq graced[r]
      BY DEF TreeKept, TreeInv, TreeType
    <2> QED BY <2>1 DEF TreeKept, Ages, AgoAt
  <1> QED BY <1>2, <1>3, <1>4 DEF TreeKept

LEMMA TreeKeptInit == Tree!TreeAssumption /\ Tree!Init => TreeKept
  <1> SUFFICES ASSUME Tree!TreeAssumption, Tree!Init PROVE TreeKept
    OBVIOUS
  <1>1. Bagged /\ Ages
    BY DEF Tree!Init, Tree!RecordsInit, Bagged, Ages
  <1> QED BY <1>1, TreeInit DEF TreeKept

LEMMA TreeKeptNext == Tree!TreeAssumption /\ TreeKept /\ [Tree!Next]_Tree!vars => TreeKept'
  <1> SUFFICES ASSUME Tree!TreeAssumption, TreeKept, [Tree!Next]_Tree!vars PROVE TreeKept'
    OBVIOUS
  <1>1. ASSUME NEW t \in Threads, Tree!Step(t) PROVE TreeKept'
    BY <1>1, StartOpKeeps, ClimbStepKeeps, FenceKeeps, EndOpKeeps DEF Tree!Step
  <1>2. ASSUME NEW t \in Threads, Tree!Drain(t) \/ Tree!UseRecords(t) \/ Tree!retire(t)
        PROVE  TreeKept'
    BY <1>2, DrainStepKeeps, UseRecordsKeeps, RetireKeeps
  <1>3. CASE UNCHANGED Tree!vars
    <2>1. Tree!RecordsType' /\ epochbags' \in [Threads -> [Tree!Bags -> SUBSET Records]]
      BY <1>3
         DEF TreeKept, TreeInv, TreeType, Tree!RecordsType, Tree!vars, Tree!control, Tree!records
    <2>2. Threads # {}
      BY Room
    <2>3. TreeInv'
      BY <1>3, <2>1, <2>2, OperationKeeps DEF TreeKept, Tree!vars, Tree!control
    <2> QED BY <1>3, <2>3, BagsStay DEF TreeKept, Bagged, Tree!vars, Tree!control, Tree!records
  <1> QED BY <1>1, <1>2, <1>3 DEF Tree!Next

LEMMA TreeInvariance == ASSUME Tree!TreeAssumption PROVE Tree!Spec => []TreeKept
  <1>1. Tree!Init => TreeKept
    BY TreeKeptInit
  <1>2. TreeKept /\ [Tree!Next]_Tree!vars => TreeKept'
    BY TreeKeptNext
  <1> QED BY <1>1, <1>2, PTL DEF Tree!Spec

-----------------------------------------------------------------------------
\* An inner node is never ahead of a thread below it, the epoch by one step at most, for any
\* number of threads (reclaimer_ebr_tree.h:123-183).
THEOREM NodesStayBehind == ASSUME Tree!TreeAssumption PROVE Tree!Spec => []Tree!NodesBehind
  <1>1. TreeKept => Tree!NodesBehind
    BY DEF TreeKept, TreeInv, TreeType, Behind, Tree!NodesBehind
  <1>2. Tree!Spec => []TreeKept
    BY TreeInvariance
  <1> QED BY <1>1, <1>2, PTL

LEMMA TreeStepKeepsPromise ==
    ASSUME Tree!TreeAssumption, ThreeBags, TreeKept, [Tree!Next]_Tree!vars
    PROVE  [Tree!Contract!Next]_Tree!Contract!records
  <1> USE DEF Tree!Contract!Next, Tree!Contract!records
  <1>1. ASSUME NEW t \in Threads, NEW climbs \in BOOLEAN, Tree!StartOp(t, climbs)
        PROVE  [Tree!Contract!Next]_Tree!Contract!records
    <2>1. PICK freeable \in SUBSET epochbags[t][Oldest(index[t])] :
             /\ Tree!epoch = ann[t] => freeable = {}
             /\ where' = [r \in Records |-> IF r \in freeable THEN "freed" ELSE where[r]]
             /\ UNCHANGED <<running, held, graced>>
      BY <1>1, Rotates
    <2>2. CASE freeable = {}
      BY <2>1, <2>2 DEF TreeKept, TreeInv, TreeType, Tree!RecordsType
    <2>3. CASE freeable # {}
      <3>1. \A r \in freeable : r \in Records /\ where[r] = "retired" /\ graced[r] = {}
        BY <2>1, <2>3, OldestIsOver
      <3> QED BY <2>1, <2>3, <3>1 DEF Tree!Contract!Free, Tree!Contract!Release
    <2> QED BY <2>2, <2>3
  <1>2. ASSUME NEW t \in Threads, Tree!ReadSibling(t) \/ Tree!ReadParent(t) \/ Tree!Propagate(t) \/ Tree!Drain(t)
        PROVE  [Tree!Contract!Next]_Tree!Contract!records
    BY <1>2 DEF Tree!ReadSibling, Tree!ReadParent, Tree!Propagate, Tree!Drain, Tree!records
  <1>3. ASSUME NEW t \in Threads, Tree!Fence(t) PROVE [Tree!Contract!Next]_Tree!Contract!records
    BY <1>3 DEF Tree!Fence, Tree!Begin, Tree!Contract!Begin
  <1>4. ASSUME NEW t \in Threads, Tree!UseRecords(t)
        PROVE  [Tree!Contract!Next]_Tree!Contract!records
    BY <1>4
       DEF Tree!UseRecords, Tree!Reach, Tree!Allocate, Tree!Contract!Reach, Tree!Contract!Allocate
  <1>5. ASSUME NEW t \in Threads, Tree!retire(t) PROVE [Tree!Contract!Next]_Tree!Contract!records
    BY <1>5 DEF Tree!retire, Tree!Unlink, Tree!Contract!Unlink
  <1>6. ASSUME NEW t \in Threads, Tree!EndOp(t) PROVE [Tree!Contract!Next]_Tree!Contract!records
    BY <1>6 DEF Tree!EndOp, Tree!End, Tree!Contract!End
  <1>7. CASE UNCHANGED Tree!vars
    BY <1>7 DEF Tree!vars, Tree!records
  <1> QED BY <1>1, <1>2, <1>3, <1>4, <1>5, <1>6, <1>7 DEF Tree!Next, Tree!Step

\* With three bags between the one in use and the one that is freed, a record is freed only after
\* every operation that ran when it was retired has ended (reclaimer_ebr_tree.h:37-38, 300-316).
THEOREM TreeKeepsPromise ==
    ASSUME Tree!TreeAssumption, ThreeBags
    PROVE  Tree!Spec => Tree!KeepsPromise
  <1>1. Tree!Init => Tree!Contract!RecordsInit
    BY DEF Tree!Init, Tree!RecordsInit, Tree!Contract!RecordsInit
  <1>2. TreeKept /\ [Tree!Next]_Tree!vars => [Tree!Contract!Next]_Tree!Contract!records
    BY TreeStepKeepsPromise
  <1>3. Tree!Spec => []TreeKept
    BY TreeInvariance
  <1> QED BY <1>1, <1>2, <1>3, PTL DEF Tree!Spec, Tree!KeepsPromise, Tree!Contract!Spec

-----------------------------------------------------------------------------
(* All of them. *)

CompositeInv ==
    /\ reclaimer \in {"ring", "tree", "large tree"}
    /\ reclaimer = "ring" => RingInv
    /\ reclaimer = "tree" => TreeKept

LEMMA CompositeInit == Init => CompositeInv
  <1> SUFFICES ASSUME Init PROVE CompositeInv
    OBVIOUS
  <1>1. CASE reclaimer = "ring" /\ Ring!Init
    BY <1>1, RingInit DEF CompositeInv
  <1>2. CASE reclaimer = "tree" /\ Tree!Init
    BY <1>2, TreeKeptInit, ReclaimersAssumption DEF CompositeInv
  <1>3. CASE reclaimer = "large tree"
    BY <1>3 DEF CompositeInv
  <1> QED BY <1>1, <1>2, <1>3 DEF Init

\* A step of the composition is a step of the reclaimer that was chosen.
LEMMA OneReclaimer ==
    ASSUME CompositeInv, [Next]_vars
    PROVE  /\ reclaimer' = reclaimer
           /\ reclaimer = "ring" => [Ring!Next]_Ring!vars
           /\ reclaimer = "tree" => [Tree!Next]_Tree!vars
  <1>1. ASSUME NEW t \in Threads, RingStep(t) \/ RingHandOver(t) \/ RingUse(t)
        PROVE  reclaimer = "ring" /\ reclaimer' = reclaimer /\ Ring!Next
    BY <1>1 DEF RingStep, RingHandOver, RingUse, TreeStays, Ring!Next
  <1>2. CASE reclaimer = "tree" /\ Tree!Next /\ RingStays
    BY <1>2 DEF RingStays
  <1>3. ASSUME NEW t \in MoreThreads, LargeStep(t) \/ LargeDrain(t)
        PROVE  reclaimer = "large tree" /\ reclaimer' = reclaimer
    BY <1>3 DEF LargeStep, LargeDrain, RingStays
  <1>4. CASE UNCHANGED vars
    BY <1>4 DEF vars, ringVars, treeVars, records, Ring!vars, Ring!build, Ring!bags, Ring!records,
                Tree!vars, Tree!control, Tree!records
  <1> QED BY <1>1, <1>2, <1>3, <1>4 DEF Next

LEMMA CompositeNext == CompositeInv /\ [Next]_vars => CompositeInv'
  <1> SUFFICES ASSUME CompositeInv, [Next]_vars PROVE CompositeInv'
    OBVIOUS
  <1>1. CASE reclaimer = "ring"
    BY <1>1, OneReclaimer, RingNext DEF CompositeInv
  <1>2. CASE reclaimer = "tree"
    BY <1>2, OneReclaimer, TreeKeptNext, ReclaimersAssumption DEF CompositeInv
  <1>3. CASE reclaimer = "large tree"
    BY <1>3, OneReclaimer DEF CompositeInv
  <1> QED BY <1>1, <1>2, <1>3 DEF CompositeInv

LEMMA CompositeStepKeepsPromise ==
    ASSUME ThreeBags, CompositeInv, [Next]_vars
    PROVE  [Contract!Next]_Contract!records
  <1>1. CASE reclaimer = "ring"
    <2>1. reclaimer' = "ring" /\ [Ring!Contract!Next]_Ring!Contract!records
      BY <1>1, OneReclaimer, RingStepKeepsPromise DEF CompositeInv
    <2> QED BY <1>1, <2>1
            DEF Contract!Next, Contract!records, Contract!Begin, Contract!Reach, Contract!Unlink,
                Contract!Allocate, Contract!End, Contract!Free, Contract!Release,
                Ring!Contract!Next, Ring!Contract!records, Ring!Contract!Begin, Ring!Contract!Reach,
                Ring!Contract!Unlink, Ring!Contract!Allocate, Ring!Contract!End, Ring!Contract!Free,
                Ring!Contract!Release
  <1>2. CASE reclaimer = "tree"
    <2>1. reclaimer' = "tree" /\ [Tree!Contract!Next]_Tree!Contract!records
      BY <1>2, OneReclaimer, TreeStepKeepsPromise, ReclaimersAssumption DEF CompositeInv
    <2> QED BY <1>2, <2>1
            DEF Contract!Next, Contract!records, Contract!Begin, Contract!Reach, Contract!Unlink,
                Contract!Allocate, Contract!End, Contract!Free, Contract!Release,
                Tree!Contract!Next, Tree!Contract!records, Tree!Contract!Begin, Tree!Contract!Reach,
                Tree!Contract!Unlink, Tree!Contract!Allocate, Tree!Contract!End, Tree!Contract!Free,
                Tree!Contract!Release
  <1>3. CASE reclaimer = "large tree"
    BY <1>3, OneReclaimer DEF Contract!records
  <1> QED BY <1>1, <1>2, <1>3 DEF CompositeInv

\* So whichever reclaimer is chosen frees a record only after every operation that ran when it
\* was retired has ended (reclaimer_token1.h:323-328, reclaimer_ebr_token.h:176-182,
\* reclaimer_ebr_tree.h:37-38, 300-316).
THEOREM ReclaimersKeepPromise == ASSUME ThreeBags PROVE Spec => KeepsPromise
  <1>1. Init => Contract!RecordsInit
    BY DEF Init, Contract!RecordsInit, Ring!Init, Ring!RecordsInit, Tree!Init, Tree!RecordsInit
  <1>2. CompositeInv /\ [Next]_vars => [Contract!Next]_Contract!records
    BY CompositeStepKeepsPromise
  <1>3. Init => CompositeInv
    BY CompositeInit
  <1>4. CompositeInv /\ [Next]_vars => CompositeInv'
    BY CompositeNext
  <1> QED BY <1>1, <1>2, <1>3, <1>4, PTL DEF Spec, KeepsPromise, Contract!Spec

\* In the composition the nodes of the smaller tree, whose threads are any number, are never ahead of
\* the threads below them (reclaimer_ebr_tree.h:123-183); the larger is another instance of the same
\* module, that of NodesStayBehind with its own number of threads.
THEOREM NodesStayBehindThere == Spec => [](reclaimer # "large tree" => NodesBehind)
  <1>1. CompositeInv => (reclaimer # "large tree" => NodesBehind)
    <2>1. TreeKept => Tree!NodesBehind
      BY DEF TreeKept, TreeInv, TreeType, Behind, Tree!NodesBehind
    <2> QED BY <2>1 DEF CompositeInv, NodesBehind
  <1>2. Init => CompositeInv
    BY CompositeInit
  <1>3. CompositeInv /\ [Next]_vars => CompositeInv'
    BY CompositeNext
  <1> QED BY <1>1, <1>2, <1>3, PTL DEF Spec
=============================================================================
