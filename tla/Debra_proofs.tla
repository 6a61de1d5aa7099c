----------------------------- MODULE Debra_proofs -----------------------------
(***************************************************************************)
(* Proofs about Debra for any number of threads, records and bags.  TLC    *)
(* runs two threads, where no pointer is handed on to a third: that case   *)
(* is settled here.                                                        *)
(*                                                                         *)
(* The argument.  While an operation runs, its announcement stays behind   *)
(* as soon as the epoch has advanced once, so nobody can finish a scan and *)
(* advance it again (Waits).  A retired record lies in one bag of one      *)
(* thread, and each rotation of that thread's bags puts the epoch two      *)
(* further from those of the operations that can hold the record (Ages);   *)
(* every hand that a pointer went through takes one rotation back.         *)
(***************************************************************************)
EXTENDS Debra, Integers, TLAPS

Kept == NUMBER_OF_EPOCH_BAGS - NUMBER_OF_ALWAYS_EMPTY_EPOCH_BAGS

\* How many rotations ago bag b was thread t's current bag.
AgoAt(i, b) == IF b <= i THEN i - b ELSE i + NUMBER_OF_EPOCH_BAGS - b
Ago(t, b) == AgoAt(index[t], b)

\* An operation is shown to have its epoch, and a scan is not finished without reason.
Announcing(t) ==
    /\ local[t] = 1 \/ (local[t] % 2 = 0 /\ local[t] <= epoch)
    /\ pc[t] # "quiescent" => local[t] % 2 = 0 /\ local[t] < MaxEpoch
    /\ pending[t] => pc[t] \in {"scan", "advance", "fence"}
    /\ pc[t] \in {"scan", "advance", "fence", "op"} /\ ~pending[t] => announced[t] = local[t]

Scanning(t) ==
    /\ pc[t] \in {"announce", "scan"} => checked[t] < NUM_PROCESSES
    /\ pc[t] = "advance" => checked[t] = NUM_PROCESSES
    /\ checked[t] = NUM_PROCESSES /\ pc[t] # "advance" => local[t] # epoch

Scans == \A t \in Threads : Announcing(t) /\ Scanning(t)

\* A running operation holds the epoch back.
Waiting(t) ==
    /\ local[t] <= entered[t] /\ epoch <= entered[t] + 2
    /\ \A u \in Threads : local[u] = entered[t] + 2 => checked[u] <= t

Waits ==
    \A t \in Threads :
       /\ entered[t] <= epoch /\ entered[t] % 2 = 0
       /\ pc[t] = "op" => Waiting(t)

\* Retired records, and no others, are in bags, each in one.
InBag(r, t, b) == r \in epochbags[t][b]

Bagged ==
    /\ \A r \in Records, t \in Threads, b \in Bags : InBag(r, t, b) =>
          where[r] = "retired" /\ Ago(t, b) < Kept /\ local[t] # 1
    /\ \A r \in Records : where[r] = "retired" =>
          \E t \in Threads, b \in Bags : InBag(r, t, b)
    /\ \A r \in Records, t, u \in Threads, b, d \in Bags :
          InBag(r, t, b) /\ InBag(r, u, d) => t = u /\ b = d

\* Who can have a pointer to a record.
Holding ==
    /\ \A t \in Threads, r \in Records :
          hands[t][r] # NoPointer => pc[t] = "op" /\ where[r] # "freed"
    /\ \A r \in Records : graced[r] \subseteq Running
    /\ \A r \in Records : where[r] # "retired" => graced[r] = {}

\* An operation that began at epoch e is no younger than the records of bag b of t.
NotAfter(e, t, b) ==
    IF b = index[t] THEN e <= entered[t] + 2 ELSE e + 2 * Ago(t, b) <= local[t] + 4

Ages ==
    \A r \in Records, t, u \in Threads, b \in Bags : InBag(r, t, b) =>
       /\ u \in graced[r] => NotAfter(entered[u], t, b)
       /\ hands[u][r] # NoPointer => NotAfter(entered[u] - 2 * hands[u][r], t, b)

IInv == TypeOK /\ Scans /\ Waits /\ Bagged /\ Holding /\ Ages
-----------------------------------------------------------------------------
\* The ring of bags.

LEMMA Wrap ==
    ASSUME NEW B \in Nat \ {0}, NEW x \in 0..2 * B - 1
    PROVE  x % B = IF x < B THEN x ELSE x - B
  BY SMT

\* A rotation makes every bag one rotation older, and empties the one that gets Kept old.
LEMMA Rotation ==
    ASSUME NEW i \in Bags, NEW b \in Bags, NEW next, next = (i + 1) % NUMBER_OF_EPOCH_BAGS
    PROVE  /\ next \in Bags /\ Freeable(next) \in Bags
           /\ AgoAt(i, b) \in 0..NUMBER_OF_EPOCH_BAGS - 1
           /\ b = i <=> AgoAt(i, b) = 0
           /\ AgoAt(i, b) < Kept => AgoAt(next, b) = AgoAt(i, b) + 1 /\ b # next
           /\ AgoAt(next, b) = Kept <=> b = Freeable(next)
<1>1. next = IF i + 1 < NUMBER_OF_EPOCH_BAGS THEN i + 1 ELSE 0
  <2> DEFINE g == i + 1
  <2>1. g \in 0..2 * NUMBER_OF_EPOCH_BAGS - 1 /\ NUMBER_OF_EPOCH_BAGS \in Nat \ {0}
    BY DebraAssumption DEF Bags
  <2>2. next = g % NUMBER_OF_EPOCH_BAGS
    OBVIOUS
  <2>3. g <= NUMBER_OF_EPOCH_BAGS
    BY DebraAssumption DEF Bags
  <2> HIDE DEF g
  <2>4. next = IF g < NUMBER_OF_EPOCH_BAGS THEN g ELSE g - NUMBER_OF_EPOCH_BAGS
    BY <2>1, <2>2, Wrap
  <2> QED BY <2>1, <2>3, <2>4 DEF g
<1> DEFINE f == next + NUMBER_OF_ALWAYS_EMPTY_EPOCH_BAGS
<1>2. Freeable(next) = IF f < NUMBER_OF_EPOCH_BAGS THEN f ELSE f - NUMBER_OF_EPOCH_BAGS
  <2>1. f \in 0..2 * NUMBER_OF_EPOCH_BAGS - 1 /\ NUMBER_OF_EPOCH_BAGS \in Nat \ {0}
    BY <1>1, DebraAssumption DEF Bags
  <2> HIDE DEF f
  <2>2. f % NUMBER_OF_EPOCH_BAGS = IF f < NUMBER_OF_EPOCH_BAGS THEN f ELSE f - NUMBER_OF_EPOCH_BAGS
    BY <2>1, Wrap
  <2> QED BY <2>2 DEF Freeable, f
<1> QED BY <1>1, <1>2, DebraAssumption DEF Bags, AgoAt, Kept

\* Epochs are even.
LEMMA Even ==
    ASSUME NEW e \in Nat, e % 2 # 1
    PROVE  /\ e % 2 = 0 /\ (e + 2) % 2 # 1 /\ (e + 2) % 2 = 0
           /\ \A m \in Nat : m % 2 = 0 /\ e < m => e + 2 <= m
  BY SMT

-----------------------------------------------------------------------------
\* Types and scans.

LEMMA NoPointerType == NoPointer \in Nat /\ NoPointer \in 0..NoPointer /\ 0 \in 0..NoPointer
  BY DebraAssumption DEF NoPointer

LEMMA InitInvariant == Init => IInv
<1> SUFFICES ASSUME Init PROVE IInv
  OBVIOUS
<1>1. \A t \in Threads, b \in Bags : epochbags[t][b] = {}
  BY DEF Init
<1>2. TypeOK
  BY NoPointerType, DebraAssumption DEF Init, TypeOK, Announcements, GET_WITH_QUIESCENT, BITS_EPOCH, QUIESCENT, Threads, Bags
<1>3. Scans
  BY DebraAssumption DEF Init, Scans, Announcing, Scanning, GET_WITH_QUIESCENT, BITS_EPOCH, Threads
<1>4. Waits
  BY DEF Init, Waits
<1>5. Bagged
  BY <1>1 DEF Init, Bagged, InBag
<1>6. Holding
  BY DEF Init, Holding
<1>7. Ages
  BY <1>1 DEF Ages, InBag
<1> QED BY <1>2, <1>3, <1>4, <1>5, <1>6, <1>7 DEF IInv

LEMMA TypeStep == IInv /\ [Next]_vars => TypeOK'
<1> SUFFICES ASSUME IInv, [Next]_vars PROVE TypeOK'
  OBVIOUS
<1> USE DEF TypeOK
<1>0. TypeOK /\ Scans /\ \A e : e \in {x \in 0..MaxEpoch : ~QUIESCENT(x)} <=> e \in 0..MaxEpoch /\ e % 2 # 1
  BY DEF IInv, QUIESCENT
<1>1. ASSUME NEW t \in Threads, StartOp(t) PROVE TypeOK'
  <2> DEFINE next == (index[t] + 1) % NUMBER_OF_EPOCH_BAGS
  <2>1. next \in Bags /\ Freeable(next) \in Bags
    BY <1>0, Rotation
  <2>2. epoch \in Announcements /\ local' \in [Threads -> Announcements]
    BY <1>0, <1>1, DebraAssumption DEF StartOp, Announcements
  <2>3. epochbags' \in [Threads -> [Bags -> SUBSET Records]] /\ index' \in [Threads -> Bags]
    <3>1. CASE epoch = local[t]
      BY <1>0, <1>1, <3>1 DEF StartOp
    <3>2. CASE epoch # local[t]
      <4>1. /\ epochbags' = [epochbags EXCEPT ![t][Freeable(next)] = {}]
            /\ index' = [index EXCEPT ![t] = next]
        BY <1>1, <3>2 DEF StartOp, rotateEpochBags
      <4> HIDE DEF next
      <4> QED BY <1>0, <2>1, <4>1
    <3> QED BY <3>1, <3>2
  <2>4. where' \in [Records -> {"linked", "retired", "freed"}]
    BY <1>0, <1>1 DEF StartOp, rotateEpochBags
  <2>5. checked' \in [Threads -> 0..NUM_PROCESSES]
    <3>1. checked' \in {checked, [checked EXCEPT ![t] = 0]} /\ 0 \in 0..NUM_PROCESSES
      BY <1>1, DebraAssumption DEF StartOp
    <3> QED BY <1>0, <3>1
  <2> QED BY <1>0, <1>1, <2>2, <2>3, <2>4, <2>5 DEF StartOp, Goto
<1>2. ASSUME NEW t \in Threads, AnnounceEpoch(t) PROVE TypeOK'
  BY <1>0, <1>2 DEF AnnounceEpoch, Goto, data
<1>3. ASSUME NEW t \in Threads, ScanReadOnly(t) PROVE TypeOK'
  BY <1>0, <1>3 DEF ScanReadOnly, Goto, data
<1>4. ASSUME NEW t \in Threads, Scan(t) PROVE TypeOK'
  <2>1. checked[t] < NUM_PROCESSES
    BY <1>0, <1>4 DEF Scan, Scans, Scanning
  <2>2. checked' \in [Threads -> 0..NUM_PROCESSES]
    BY <1>0, <1>4, <2>1, DebraAssumption DEF Scan
  <2>3. opsSinceRead' \in [Threads -> 0..MIN_OPS_BEFORE_READ - 1]
    BY <1>0, <1>4, DebraAssumption DEF Scan
  <2> QED BY <1>0, <1>4, <2>2, <2>3 DEF Scan, Goto, data
<1>5. ASSUME NEW t \in Threads, Advance(t) PROVE TypeOK'
  <2>1. local[t] < MaxEpoch
    BY <1>0, <1>5 DEF Advance, Scans, Announcing
  <2>2. epoch' \in {e \in 0..MaxEpoch : ~QUIESCENT(e)}
    <3>1. epoch \in 0..MaxEpoch /\ epoch % 2 # 1
      BY <1>0
    <3>2. epoch = local[t] => epoch + 2 <= MaxEpoch
      BY <2>1, <3>1, Even, DebraAssumption
    <3>3. epoch' \in 0..MaxEpoch /\ epoch' % 2 # 1
      BY <1>5, <3>1, <3>2, Even, DebraAssumption DEF Advance, EPOCH_INCREMENT
    <3> QED BY <1>0, <3>3
  <2> QED BY <1>0, <1>5, <2>2 DEF Advance, Goto, data
<1>6. ASSUME NEW t \in Threads, Fence(t) PROVE TypeOK'
  BY <1>0, <1>6 DEF Fence, Goto
<1>7. ASSUME NEW t \in Threads, Drain(t) PROVE TypeOK'
  BY <1>0, <1>7 DEF Drain, Show, data
<1>8. ASSUME NEW t \in Threads, Reach(t) PROVE TypeOK'
  <2>1. PICK r \in Records : hands' = [hands EXCEPT ![t][r] = 0]
    BY <1>8 DEF Reach
  <2>2. hands' \in [Threads -> [Records -> 0..NoPointer]]
    BY <1>0, <2>1, NoPointerType
  <2> QED BY <1>0, <1>8, <2>2 DEF Reach, control
<1>9. ASSUME NEW t \in Threads, Borrow(t) PROVE TypeOK'
  <2>1. PICK u \in Threads, r \in Records :
            /\ hands[u][r] + 1 < hands[t][r]
            /\ hands' = [hands EXCEPT ![t][r] = hands[u][r] + 1]
    BY <1>9 DEF Borrow, Running
  <2>2. hands[u][r] + 1 \in 0..NoPointer
    BY <1>0, <2>1, DebraAssumption DEF NoPointer
  <2>3. hands' \in [Threads -> [Records -> 0..NoPointer]]
    BY <1>0, <2>1, <2>2
  <2> QED BY <1>0, <1>9, <2>3 DEF Borrow, control
<1>10. ASSUME NEW t \in Threads, Retire(t) PROVE TypeOK'
  <2>1. PICK r \in Records : /\ where' = [where EXCEPT ![r] = "retired"]
                             /\ epochbags' = [epochbags EXCEPT ![t][index[t]] = @ \cup {r}]
                             /\ graced' = [graced EXCEPT ![r] = Running]
    BY <1>10 DEF Retire
  <2>2. index[t] \in Bags
    BY <1>0
  <2>3. epochbags' \in [Threads -> [Bags -> SUBSET Records]]
    BY <1>0, <2>1, <2>2
  <2>4. graced' \in [Records -> SUBSET Threads]
    BY <1>0, <2>1 DEF Running
  <2> QED BY <1>0, <1>10, <2>1, <2>3, <2>4 DEF Retire
<1>11. ASSUME NEW t \in Threads, Allocate(t) PROVE TypeOK'
  BY <1>0, <1>11 DEF Allocate, control
<1>12. ASSUME NEW t \in Threads, EndOp(t) PROVE TypeOK'
  <2>1. GET_WITH_QUIESCENT(local[t]) \in Announcements
    <3>1. local[t] \in Nat /\ local[t] % 2 = 0 /\ local[t] < MaxEpoch
      BY <1>0, <1>12 DEF EndOp, Scans, Announcing, Announcements
    <3> QED BY <3>1, DebraAssumption DEF GET_WITH_QUIESCENT, BITS_EPOCH, Announcements
  <2> QED BY <1>0, <1>12, <2>1, NoPointerType DEF EndOp, Show, Goto
<1>13. CASE UNCHANGED vars
  BY <1>0, <1>13 DEF vars, control, data
<1> QED BY <1>1, <1>2, <1>3, <1>4, <1>5, <1>6, <1>7, <1>8, <1>9, <1>10, <1>11, <1>12, <1>13 DEF Next

\* What the types say about one thread.
LEMMA Types ==
    ASSUME IInv
    PROVE  /\ epoch \in Nat /\ epoch % 2 = 0 /\ epoch % 2 # 1 /\ epoch <= MaxEpoch
           /\ \A t \in Threads :
                 /\ t \in Nat /\ t < NUM_PROCESSES
                 /\ local[t] \in Nat /\ announced[t] \in Nat /\ entered[t] \in Nat
                 /\ checked[t] \in Nat /\ checked[t] <= NUM_PROCESSES
                 /\ index[t] \in Bags
           /\ NUM_PROCESSES \in Nat \ {0}
<1>1. TypeOK
  BY DEF IInv
<1>2. epoch \in Nat /\ epoch % 2 # 1 /\ epoch <= MaxEpoch
  BY <1>1, DebraAssumption DEF TypeOK, QUIESCENT
<1> QED BY <1>1, <1>2, Even, DebraAssumption DEF TypeOK, Announcements, Threads

LEMMA ScansStep == IInv /\ [Next]_vars => Scans'
<1> SUFFICES ASSUME IInv, [Next]_vars, NEW s \in Threads PROVE Announcing(s)' /\ Scanning(s)'
  BY DEF Scans
<1>0. TypeOK /\ Announcing(s) /\ Scanning(s)
  BY DEF IInv, Scans
<1> USE Types, <1>0 DEF TypeOK, Announcing, Scanning
<1>1. ASSUME NEW t \in Threads, StartOp(t) PROVE Announcing(s)' /\ Scanning(s)'
  <2>1. /\ pc[t] = "quiescent" /\ pc' = [pc EXCEPT ![t] = "announce"] /\ epoch < MaxEpoch
        /\ local' = [local EXCEPT ![t] = epoch]
        /\ checked' = IF epoch # local[t] THEN [checked EXCEPT ![t] = 0] ELSE checked
        /\ UNCHANGED <<epoch, announced, pending>>
    BY <1>1 DEF StartOp, Goto
  <2>2. CASE s # t
    BY <2>1, <2>2
  <2>3. CASE s = t
    <3>1. pc'[s] = "announce" /\ local'[s] = epoch /\ ~pending'[s]
      BY <2>1, <2>3
    <3>2. checked'[s] < NUM_PROCESSES
      <4>1. CASE epoch # local[t]
        BY <2>1, <2>3, <4>1
      <4>2. CASE epoch = local[t]
        <5>1. checked' = checked /\ pc[s] = "quiescent" /\ local[s] = epoch
          BY <2>1, <2>3, <4>2
        <5>2. checked[s] # NUM_PROCESSES
          BY ONLY <1>0, <5>1 DEF Scanning
        <5>3. checked[s] \in Nat /\ checked[s] <= NUM_PROCESSES /\ NUM_PROCESSES \in Nat
          BY ONLY Types, IInv, s \in Threads
        <5> QED BY ONLY <5>1, <5>2, <5>3
      <4> QED BY <4>1, <4>2
    <3>3. epoch' = epoch /\ epoch < MaxEpoch
      BY <2>1
    <3> QED BY <3>1, <3>2, <3>3
  <2> QED BY <2>2, <2>3
<1>2. ASSUME NEW t \in Threads, AnnounceEpoch(t) PROVE Announcing(s)' /\ Scanning(s)'
  BY <1>2 DEF AnnounceEpoch, Goto, data
<1>3. ASSUME NEW t \in Threads, ScanReadOnly(t) PROVE Announcing(s)' /\ Scanning(s)'
  BY <1>3 DEF ScanReadOnly, Goto, data
<1>4. ASSUME NEW t \in Threads, Scan(t) PROVE Announcing(s)' /\ Scanning(s)'
  BY <1>4 DEF Scan, Goto, data
<1>5. ASSUME NEW t \in Threads, Advance(t) PROVE Announcing(s)' /\ Scanning(s)'
  BY <1>5, Even DEF Advance, Goto, EPOCH_INCREMENT, data
<1>6. ASSUME NEW t \in Threads, Fence(t) PROVE Announcing(s)' /\ Scanning(s)'
  BY <1>6 DEF Fence, Goto
<1>7. ASSUME NEW t \in Threads, Drain(t) PROVE Announcing(s)' /\ Scanning(s)'
  BY <1>7 DEF Drain, Goto, Show, data
<1>8. ASSUME NEW t \in Threads, Reach(t) PROVE Announcing(s)' /\ Scanning(s)'
  BY <1>8 DEF Reach, Goto, control
<1>9. ASSUME NEW t \in Threads, Borrow(t) PROVE Announcing(s)' /\ Scanning(s)'
  BY <1>9 DEF Borrow, Goto, control
<1>10. ASSUME NEW t \in Threads, Retire(t) PROVE Announcing(s)' /\ Scanning(s)'
  BY <1>10 DEF Retire, Goto
<1>11. ASSUME NEW t \in Threads, Allocate(t) PROVE Announcing(s)' /\ Scanning(s)'
  BY <1>11 DEF Allocate, Goto, control
<1>12. ASSUME NEW t \in Threads, EndOp(t) PROVE Announcing(s)' /\ Scanning(s)'
  BY <1>12 DEF EndOp, Goto, Show
<1>13. CASE UNCHANGED vars
  BY <1>13 DEF vars, control, data
<1> QED BY <1>1, <1>2, <1>3, <1>4, <1>5, <1>6, <1>7, <1>8, <1>9, <1>10, <1>11, <1>12, <1>13 DEF Next

LEMMA WaitsStep == IInv /\ [Next]_vars => Waits'
<1> SUFFICES ASSUME IInv, [Next]_vars, NEW s \in Threads
             PROVE  /\ entered'[s] <= epoch' /\ entered'[s] % 2 = 0
                    /\ pc'[s] = "op" => Waiting(s)'
  BY DEF Waits
<1>0. /\ entered[s] <= epoch /\ entered[s] % 2 = 0
      /\ pc[s] = "op" => Waiting(s)
  BY DEF IInv, Waits
<1>t. /\ pc \in [Threads -> {"quiescent", "announce", "scan", "advance", "fence", "op"}]
      /\ local \in [Threads -> Announcements] /\ checked \in [Threads -> 0..NUM_PROCESSES]
      /\ entered \in [Threads -> 0..MaxEpoch]
  BY DEF IInv, TypeOK
<1>s. \A u \in Threads : local[u] = 1 \/ local[u] <= epoch
  BY DEF IInv, Scans, Announcing
<1>1. ASSUME UNCHANGED <<epoch, entered, local, checked>>, pc'[s] = "op" => pc[s] = "op"
      PROVE  /\ entered'[s] <= epoch' /\ entered'[s] % 2 = 0
             /\ pc'[s] = "op" => Waiting(s)'
  BY <1>0, <1>1 DEF Waiting
<1>2. ASSUME NEW t \in Threads, StartOp(t)
      PROVE  /\ entered'[s] <= epoch' /\ entered'[s] % 2 = 0
             /\ pc'[s] = "op" => Waiting(s)'
  <2>1. /\ pc[t] = "quiescent" /\ pc' = [pc EXCEPT ![t] = "announce"]
        /\ local' = [local EXCEPT ![t] = epoch]
        /\ checked' = IF epoch # local[t] THEN [checked EXCEPT ![t] = 0] ELSE checked
        /\ UNCHANGED <<epoch, entered>>
    BY <1>2 DEF StartOp, Goto
  <2>2. ASSUME pc'[s] = "op" PROVE Waiting(s)'
    <3>1. s # t /\ Waiting(s)
      BY <1>0, <1>t, <2>1, <2>2
    <3>2. ASSUME NEW u \in Threads, local'[u] = entered[s] + 2 PROVE checked'[u] <= s
      <4>1. CASE checked'[u] = checked[u] /\ local'[u] = local[u]
        BY <3>1, <3>2, <4>1 DEF Waiting
      <4>2. CASE checked'[u] = 0
        BY <4>2, Types
      <4> QED BY <1>t, <2>1, <4>1, <4>2
    <3> QED BY <1>t, <2>1, <3>1, <3>2 DEF Waiting
  <2> QED BY <1>0, <2>1, <2>2
<1>3. ASSUME NEW t \in Threads, Scan(t)
      PROVE  /\ entered'[s] <= epoch' /\ entered'[s] % 2 = 0
             /\ pc'[s] = "op" => Waiting(s)'
  <2> DEFINE ann == Seen(t, checked[t])
  <2>1. /\ pc[t] = "scan" /\ pc'[t] # "op" /\ \A u \in Threads \ {t} : pc'[u] = pc[u]
        /\ UNCHANGED <<epoch, entered, local>>
        /\ \A u \in Threads \ {t} : checked'[u] = checked[u]
        /\ checked'[t] \in {checked[t], checked[t] + 1}
        /\ checked'[t] # checked[t] => BITS_EPOCH(ann) = local[t] \/ QUIESCENT(ann)
    BY <1>3, <1>t DEF Scan, Goto, data
  <2>2. ASSUME pc'[s] = "op" PROVE Waiting(s)'
    <3>1. s # t /\ pc[s] = "op" /\ Waiting(s)
      BY <1>0, <2>1, <2>2
    <3>2. ASSUME local[t] = entered[s] + 2, checked[t] = s PROVE checked'[t] = checked[t]
      <4>1. ann = local[s] /\ local[s] % 2 = 0
        BY <3>1, <3>2 DEF IInv, Scans, Announcing, Seen
      <4>2. BITS_EPOCH(ann) = local[s] /\ ~QUIESCENT(ann)
        BY <4>1, Types DEF BITS_EPOCH, QUIESCENT
      <4>3. local[s] # local[t]
        BY <3>1, <3>2, Types DEF Waiting
      <4> QED BY <2>1, <4>2, <4>3
    <3>3. local[t] = entered[s] + 2 => checked'[t] <= s
      BY <2>1, <3>1, <3>2, Types DEF Waiting
    <3> QED BY <2>1, <3>1, <3>3 DEF Waiting
  <2> QED BY <1>0, <2>1, <2>2
<1>4. ASSUME NEW t \in Threads, Advance(t)
      PROVE  /\ entered'[s] <= epoch' /\ entered'[s] % 2 = 0
             /\ pc'[s] = "op" => Waiting(s)'
  <2>1. /\ pc[t] = "advance" /\ epoch' = IF epoch = local[t] THEN epoch + 2 ELSE epoch
        /\ pc'[s] = "op" => pc[s] = "op"
        /\ UNCHANGED <<entered, local, checked>>
    BY <1>4, <1>t DEF Advance, Goto, EPOCH_INCREMENT, data
  <2>2. CASE epoch # local[t]
    BY <1>1, <2>1, <2>2
  <2>3. CASE epoch = local[t]
    <3>1. checked[t] = NUM_PROCESSES
      BY <2>1 DEF IInv, Scans, Scanning
    <3>2. ASSUME pc[s] = "op" PROVE epoch = entered[s]
      <4>1. epoch # entered[s] + 2
        BY <1>0, <2>3, <3>1, <3>2, Types DEF Waiting
      <4> QED BY <1>0, <3>2, <4>1, Types DEF Waiting
    <3>3. ASSUME pc[s] = "op", NEW u \in Threads PROVE local[u] # entered[s] + 2
      BY <1>s, <3>2, <3>3, Types
    <3>4. epoch' = epoch + 2
      BY <2>1, <2>3
    <3> QED BY <1>0, <2>1, <3>2, <3>3, <3>4, Types DEF Waiting
  <2> QED BY <2>2, <2>3
<1>5. ASSUME NEW t \in Threads, Fence(t)
      PROVE  /\ entered'[s] <= epoch' /\ entered'[s] % 2 = 0
             /\ pc'[s] = "op" => Waiting(s)'
  <2>1. /\ pc[t] = "fence" /\ entered' = [entered EXCEPT ![t] = epoch]
        /\ pc' = [pc EXCEPT ![t] = "op"]
        /\ UNCHANGED <<epoch, local, checked>>
    BY <1>5 DEF Fence, Goto
  <2>2. CASE s # t
    BY <1>0, <1>t, <2>1, <2>2 DEF Waiting
  <2>3. CASE s = t
    <3>1. entered'[s] = epoch /\ local[s] <= epoch
      BY <1>t, <2>1, <2>3 DEF IInv, Scans, Announcing
    <3>2. \A u \in Threads : local[u] # epoch + 2
      BY <1>s, Types
    <3> QED BY <2>1, <3>1, <3>2, Types DEF Waiting
  <2> QED BY <2>2, <2>3
<1>6. ASSUME NEW t \in Threads,
             \/ AnnounceEpoch(t) \/ ScanReadOnly(t) \/ Drain(t) \/ Reach(t) \/ Borrow(t)
             \/ Retire(t) \/ Allocate(t) \/ EndOp(t)
      PROVE  /\ entered'[s] <= epoch' /\ entered'[s] % 2 = 0
             /\ pc'[s] = "op" => Waiting(s)'
  <2>1. UNCHANGED <<epoch, entered, local, checked>>
    BY <1>6 DEF AnnounceEpoch, ScanReadOnly, Drain, Reach, Borrow, Retire, Allocate, EndOp, control, data
  <2>2. pc' = pc \/ \E l \in {"scan", "fence", "quiescent"} : pc' = [pc EXCEPT ![t] = l]
    BY <1>6 DEF AnnounceEpoch, ScanReadOnly, Drain, Reach, Borrow, Retire, Allocate, EndOp, control, Goto
  <2>3. pc'[s] = "op" => pc[s] = "op"
    BY <1>t, <2>2
  <2> QED BY <1>1, <2>1, <2>3
<1>7. CASE UNCHANGED vars
  BY <1>1, <1>7 DEF vars, control, data
<1> QED BY <1>2, <1>3, <1>4, <1>5, <1>6, <1>7 DEF Next

-----------------------------------------------------------------------------
\* Bags.

\* What a rotation does to the bags.
LEMMA Rotates ==
    ASSUME IInv, NEW t \in Threads, rotateEpochBags(t)
    PROVE  \E f \in Bags :
              /\ \A r \in Records, u \in Threads, b \in Bags :
                    InBag(r, u, b)' <=> InBag(r, u, b) /\ ~(u = t /\ b = f)
              /\ \A r \in Records : where'[r] = IF InBag(r, t, f) THEN "freed" ELSE where[r]
              /\ \A u \in Threads : u # t => index'[u] = index[u]
              /\ \A r \in Records, b \in Bags :
                    InBag(r, t, b) => Ago(t, b)' = Ago(t, b) + 1 /\ b # index'[t]
              /\ \A r \in Records, b \in Bags :
                    InBag(r, t, b) /\ b # f => Ago(t, b) + 1 < Kept
              /\ \A r \in Records : InBag(r, t, f) => Ago(t, f) + 1 = Kept
<1> DEFINE next == (index[t] + 1) % NUMBER_OF_EPOCH_BAGS
           f == Freeable(next)
<1>1. index \in [Threads -> Bags] /\ epochbags \in [Threads -> [Bags -> SUBSET Records]]
  BY DEF IInv, TypeOK
<1>2. next \in Bags /\ f \in Bags
  BY <1>1, Rotation
<1>3. \A b \in Bags :
         /\ AgoAt(index[t], b) \in 0..NUMBER_OF_EPOCH_BAGS - 1
         /\ AgoAt(index[t], b) < Kept => AgoAt(next, b) = AgoAt(index[t], b) + 1 /\ b # next
         /\ AgoAt(next, b) = Kept => b = f
  BY <1>1, Rotation
<1>4. AgoAt(next, f) = Kept /\ Kept \in Nat
  BY <1>1, <1>2, Rotation, DebraAssumption DEF Kept
<1>5. /\ epochbags' = [epochbags EXCEPT ![t][f] = {}]
      /\ where' = [r \in Records |-> IF r \in epochbags[t][f] THEN "freed" ELSE where[r]]
      /\ index' = [index EXCEPT ![t] = next]
  BY DEF rotateEpochBags
<1> HIDE DEF next, f
<1>6. \A r \in Records, u \in Threads, b \in Bags :
         InBag(r, u, b)' <=> InBag(r, u, b) /\ ~(u = t /\ b = f)
  BY <1>1, <1>2, <1>5 DEF InBag
<1>7. \A r \in Records : where'[r] = IF InBag(r, t, f) THEN "freed" ELSE where[r]
  BY <1>5 DEF InBag
<1>8. index'[t] = next /\ \A u \in Threads : u # t => index'[u] = index[u]
  BY <1>1, <1>5
<1>9. ASSUME NEW r \in Records, NEW b \in Bags, InBag(r, t, b)
      PROVE  /\ Ago(t, b)' = Ago(t, b) + 1 /\ b # index'[t]
             /\ b # f => Ago(t, b) + 1 < Kept
             /\ b = f => Ago(t, b) + 1 = Kept
  <2>1. Ago(t, b) < Kept
    BY <1>9 DEF IInv, Bagged
  <2> QED BY <1>1, <1>3, <1>4, <1>8, <2>1, SMTT(60) DEF Ago
<1> QED BY <1>2, <1>6, <1>7, <1>8, <1>9

\* What retiring a record does to the bags.
LEMMA Retires ==
    ASSUME IInv, NEW t \in Threads, Retire(t)
    PROVE  \E r \in Records :
              /\ where[r] = "linked"
              /\ where' = [where EXCEPT ![r] = "retired"]
              /\ graced' = [graced EXCEPT ![r] = Running]
              /\ \A q \in Records, u \in Threads, b \in Bags :
                    InBag(q, u, b)' <=> InBag(q, u, b) \/ (q = r /\ u = t /\ b = index[t])
<1>1. /\ index \in [Threads -> Bags] /\ epochbags \in [Threads -> [Bags -> SUBSET Records]]
  BY DEF IInv, TypeOK
<1>2. PICK r \in Records : /\ where[r] = "linked"
                           /\ where' = [where EXCEPT ![r] = "retired"]
                           /\ epochbags' = [epochbags EXCEPT ![t][index[t]] = @ \cup {r}]
                           /\ graced' = [graced EXCEPT ![r] = Running]
  BY DEF Retire
<1>3. index[t] \in Bags
  BY <1>1
<1>4. \A q \in Records, u \in Threads, b \in Bags :
         InBag(q, u, b)' <=> InBag(q, u, b) \/ (q = r /\ u = t /\ b = index[t])
  BY <1>1, <1>2, <1>3 DEF InBag
<1> QED BY <1>2, <1>3, <1>4

\* The epoch has left a thread's announcement behind before the thread rotates its bags.
LEMMA Rotating ==
    ASSUME IInv, NEW t \in Threads, epoch # local[t], local[t] # 1
    PROVE  local[t] + 2 <= epoch
<1>1. local[t] % 2 = 0 /\ local[t] <= epoch
  BY DEF IInv, Scans, Announcing
<1>2. local[t] \in Nat /\ local[t] % 2 # 1 /\ epoch \in Nat /\ epoch % 2 = 0 /\ local[t] < epoch
  BY <1>1, Types
<1> QED BY ONLY <1>2, Even

\* Nobody has a pointer to a record that a rotation frees.
LEMMA NobodyHolds ==
    ASSUME IInv, NEW t \in Threads, NEW b \in Bags, NEW r \in Records, InBag(r, t, b),
           epoch # local[t], Ago(t, b) + 1 = Kept
    PROVE  graced[r] = {} /\ \A u \in Threads : hands[u][r] = NoPointer
<1>1. where[r] = "retired" /\ local[t] # 1
  BY DEF IInv, Bagged
<1>2. local[t] + 2 <= epoch
  BY <1>1, Rotating
<1>3. /\ Ago(t, b) = Kept - 1 /\ Kept \in Nat /\ Hands \in Nat /\ Kept >= 4 + Hands
      /\ b # index[t]
  BY Types, DebraAssumption, DebraMargin DEF Ago, AgoAt, Kept, Bags
<1>4. ASSUME NEW u \in Threads, pc[u] = "op", NEW h \in 0..Hands
      PROVE  ~NotAfter(entered[u] - 2 * h, t, b)
  <2>1. epoch <= entered[u] + 2
    BY <1>4 DEF IInv, Waits, Waiting
  <2>2. entered[u] \in Nat /\ local[t] \in Nat /\ epoch \in Nat
    BY Types
  <2> QED BY ONLY <1>2, <1>3, <1>4, <2>1, <2>2 DEF NotAfter
<1>5. ASSUME NEW u \in graced[r] PROVE FALSE
  <2>1. u \in Threads /\ pc[u] = "op"
    BY DEF IInv, Holding, Running
  <2>2. NotAfter(entered[u], t, b)
    BY <2>1 DEF IInv, Ages
  <2>3. 0 \in 0..Hands /\ entered[u] - 2 * 0 = entered[u]
    BY <1>3, <2>1, Types
  <2> QED BY <1>4, <2>1, <2>2, <2>3
<1>6. ASSUME NEW u \in Threads, hands[u][r] # NoPointer PROVE FALSE
  <2>1. pc[u] = "op" /\ hands[u][r] \in 0..Hands
    <3>1. hands[u][r] \in 0..Hands + 1 /\ Hands \in Nat
      BY DebraAssumption DEF IInv, TypeOK, NoPointer
    <3>2. hands[u][r] # Hands + 1
      BY <1>6 DEF NoPointer
    <3>3. pc[u] = "op"
      BY <1>6 DEF IInv, Holding
    <3> QED BY ONLY <3>1, <3>2, <3>3
  <2>2. NotAfter(entered[u] - 2 * hands[u][r], t, b)
    BY <1>6 DEF IInv, Ages
  <2> QED BY <1>4, <2>1, <2>2
<1> QED BY <1>5, <1>6

LEMMA BaggedStep == IInv /\ [Next]_vars => Bagged'
<1> SUFFICES ASSUME IInv, [Next]_vars PROVE Bagged'
  OBVIOUS
<1>0. Bagged /\ where \in [Records -> {"linked", "retired", "freed"}]
      /\ index \in [Threads -> Bags] /\ local \in [Threads -> Announcements]
  BY DEF IInv, TypeOK
<1>1. ASSUME UNCHANGED <<where, epochbags, index, local>> PROVE Bagged'
  BY <1>0, <1>1 DEF Bagged, InBag, Ago
<1>2. ASSUME NEW t \in Threads, StartOp(t) PROVE Bagged'
  <2>0. local' = [local EXCEPT ![t] = epoch] /\ epoch # 1
    BY <1>2, Types DEF StartOp
  <2>1. CASE epoch = local[t]
    <3>1. UNCHANGED <<where, epochbags, index>>
      BY <1>2, <2>1 DEF StartOp
    <3>2. local' = local
      BY <1>0, <2>0, <2>1
    <3> QED BY <1>1, <3>1, <3>2
  <2>2. CASE epoch # local[t]
    <3>1. rotateEpochBags(t)
      BY <1>2, <2>2 DEF StartOp
    <3>2. PICK f \in Bags :
              /\ \A r \in Records, u \in Threads, b \in Bags :
                    InBag(r, u, b)' <=> InBag(r, u, b) /\ ~(u = t /\ b = f)
              /\ \A r \in Records : where'[r] = IF InBag(r, t, f) THEN "freed" ELSE where[r]
              /\ \A u \in Threads : u # t => index'[u] = index[u]
              /\ \A r \in Records, b \in Bags : InBag(r, t, b) => Ago(t, b)' = Ago(t, b) + 1
              /\ \A r \in Records, b \in Bags :
                    InBag(r, t, b) /\ b # f => Ago(t, b) + 1 < Kept
      BY <3>1, Rotates
    <3>3. ASSUME NEW r \in Records, NEW u \in Threads, NEW b \in Bags, InBag(r, u, b)'
          PROVE  where'[r] = "retired" /\ Ago(u, b)' < Kept /\ local'[u] # 1
      <4>1. InBag(r, u, b) /\ ~(u = t /\ b = f)
        BY <3>2, <3>3
      <4>2. where'[r] = "retired"
        BY <1>0, <3>2, <4>1 DEF Bagged
      <4>3. Ago(u, b)' < Kept
        <5>1. CASE u = t
          BY <3>2, <4>1, <5>1
        <5>2. CASE u # t
          BY <1>0, <3>2, <4>1, <5>2 DEF Bagged, Ago
        <5> QED BY <5>1, <5>2
      <4> QED BY <1>0, <2>0, <4>1, <4>2, <4>3 DEF Bagged
    <3>4. ASSUME NEW r \in Records, where'[r] = "retired"
          PROVE  \E u \in Threads, b \in Bags : InBag(r, u, b)'
      BY <1>0, <3>2, <3>4 DEF Bagged
    <3>5. \A r \in Records, u, v \in Threads, b, d \in Bags :
             InBag(r, u, b)' /\ InBag(r, v, d)' => u = v /\ b = d
      BY <1>0, <3>2 DEF Bagged
    <3> QED BY <3>3, <3>4, <3>5 DEF Bagged
  <2> QED BY <2>1, <2>2
<1>3. ASSUME NEW t \in Threads, Retire(t) PROVE Bagged'
  <2>1. PICK r \in Records :
            /\ where[r] = "linked" /\ where' = [where EXCEPT ![r] = "retired"]
            /\ \A q \in Records, u \in Threads, b \in Bags :
                  InBag(q, u, b)' <=> InBag(q, u, b) \/ (q = r /\ u = t /\ b = index[t])
    BY <1>3, Retires
  <2>2. UNCHANGED <<index, local>>
    BY <1>3 DEF Retire
  <2>3. \A u \in Threads, b \in Bags : ~InBag(r, u, b)
    BY <1>0, <2>1 DEF Bagged
  <2>4. Ago(t, index[t]) < Kept
    BY <1>0, Types, DebraMargin, DebraAssumption DEF Ago, AgoAt, Kept, Bags
  <2>5. local[t] # 1
    BY <1>3, Types DEF Retire, IInv, Scans, Announcing
  <2>6. ASSUME NEW q \in Records, NEW u \in Threads, NEW b \in Bags, InBag(q, u, b)'
        PROVE  where'[q] = "retired" /\ Ago(u, b)' < Kept /\ local'[u] # 1
    BY <1>0, <2>1, <2>2, <2>4, <2>5, <2>6 DEF Bagged, Ago
  <2>7. ASSUME NEW q \in Records, where'[q] = "retired"
        PROVE  \E u \in Threads, b \in Bags : InBag(q, u, b)'
    BY <1>0, <2>1, <2>7 DEF Bagged
  <2>8. \A q \in Records, u, v \in Threads, b, d \in Bags :
           InBag(q, u, b)' /\ InBag(q, v, d)' => u = v /\ b = d
    BY <1>0, <2>1, <2>3 DEF Bagged
  <2> QED BY <2>6, <2>7, <2>8 DEF Bagged
<1>4. ASSUME NEW t \in Threads, Allocate(t) PROVE Bagged'
  <2>1. PICK r \in Records : where[r] = "freed" /\ where' = [where EXCEPT ![r] = "linked"]
    BY <1>4 DEF Allocate
  <2>2. UNCHANGED <<epochbags, index, local>>
    BY <1>4 DEF Allocate, control
  <2> QED BY <1>0, <2>1, <2>2 DEF Bagged, InBag, Ago
<1>5. ASSUME NEW t \in Threads,
             \/ AnnounceEpoch(t) \/ ScanReadOnly(t) \/ Scan(t) \/ Advance(t) \/ Fence(t)
             \/ Drain(t) \/ Reach(t) \/ Borrow(t) \/ EndOp(t)
      PROVE  Bagged'
  <2>1. UNCHANGED <<where, epochbags, index, local>>
    BY <1>5 DEF AnnounceEpoch, ScanReadOnly, Scan, Advance, Fence, Drain, Reach, Borrow, EndOp,
                control, data
  <2> QED BY <1>1, <2>1
<1>6. CASE UNCHANGED vars
  BY <1>1, <1>6 DEF vars, control, data
<1> QED BY <1>2, <1>3, <1>4, <1>5, <1>6 DEF Next

-----------------------------------------------------------------------------
\* Pointers.

LEMMA HoldingStep == IInv /\ [Next]_vars => Holding'
<1> SUFFICES ASSUME IInv, [Next]_vars PROVE Holding'
  OBVIOUS
<1>0. /\ Holding
      /\ where \in [Records -> {"linked", "retired", "freed"}]
      /\ hands \in [Threads -> [Records -> 0..NoPointer]]
      /\ graced \in [Records -> SUBSET Threads]
      /\ pc \in [Threads -> {"quiescent", "announce", "scan", "advance", "fence", "op"}]
  BY DEF IInv, TypeOK
<1> USE DEF Holding, Running
<1>1. ASSUME UNCHANGED <<where, hands, graced>>,
             \A u \in Threads : pc[u] = "op" => pc'[u] = "op"
      PROVE  Holding'
  BY <1>0, <1>1
<1>2. ASSUME NEW t \in Threads, StartOp(t) PROVE Holding'
  <2>1. /\ pc[t] = "quiescent" /\ pc' = [pc EXCEPT ![t] = "announce"]
        /\ UNCHANGED <<hands, graced>>
    BY <1>2 DEF StartOp, Goto
  <2>2. \A u \in Threads : pc'[u] = "op" <=> pc[u] = "op"
    BY <1>0, <2>1
  <2>3. CASE epoch = local[t]
    <3>1. UNCHANGED where
      BY <1>2, <2>3 DEF StartOp
    <3> QED BY <1>1, <2>1, <2>2, <3>1
  <2>4. CASE epoch # local[t]
    <3>1. rotateEpochBags(t)
      BY <1>2, <2>4 DEF StartOp
    <3>2. PICK f \in Bags :
              /\ \A r \in Records : where'[r] = IF InBag(r, t, f) THEN "freed" ELSE where[r]
              /\ \A r \in Records : InBag(r, t, f) => Ago(t, f) + 1 = Kept
      BY <3>1, Rotates
    <3>3. ASSUME NEW r \in Records, InBag(r, t, f)
          PROVE  graced[r] = {} /\ \A u \in Threads : hands[u][r] = NoPointer
      BY <2>4, <3>2, <3>3, NobodyHolds
    <3>4. \A r \in Records : InBag(r, t, f) => where'[r] = "freed"
      BY <3>2
    <3>5. \A r \in Records : ~InBag(r, t, f) => where'[r] = where[r]
      BY <3>2
    <3> QED BY <1>0, <2>1, <2>2, <3>3, <3>4, <3>5
  <2> QED BY <2>3, <2>4
<1>3. ASSUME NEW t \in Threads, Reach(t) PROVE Holding'
  <2>1. PICK r \in Records : where[r] = "linked" /\ hands' = [hands EXCEPT ![t][r] = 0]
    BY <1>3 DEF Reach
  <2>2. pc[t] = "op" /\ UNCHANGED <<pc, where, graced>>
    BY <1>3 DEF Reach, control
  <2> QED BY <1>0, <2>1, <2>2
<1>4. ASSUME NEW t \in Threads, Borrow(t) PROVE Holding'
  <2>1. PICK u \in Threads, r \in Records :
            /\ hands[u][r] + 1 < hands[t][r]
            /\ hands' = [hands EXCEPT ![t][r] = hands[u][r] + 1]
    BY <1>4 DEF Borrow
  <2>2. pc[t] = "op" /\ UNCHANGED <<pc, where, graced>>
    BY <1>4 DEF Borrow, control
  <2>3. hands[u][r] # NoPointer
    BY <1>0, <2>1, DebraAssumption DEF NoPointer
  <2> QED BY <1>0, <2>1, <2>2, <2>3
<1>5. ASSUME NEW t \in Threads, Retire(t) PROVE Holding'
  <2>1. PICK r \in Records :
            /\ where[r] = "linked" /\ where' = [where EXCEPT ![r] = "retired"]
            /\ graced' = [graced EXCEPT ![r] = Running]
    BY <1>5, Retires
  <2>2. UNCHANGED <<pc, hands>>
    BY <1>5 DEF Retire
  <2> QED BY <1>0, <2>1, <2>2
<1>6. ASSUME NEW t \in Threads, Allocate(t) PROVE Holding'
  <2>1. PICK r \in Records : where[r] = "freed" /\ where' = [where EXCEPT ![r] = "linked"]
    BY <1>6 DEF Allocate
  <2>2. UNCHANGED <<pc, hands, graced>>
    BY <1>6 DEF Allocate, control
  <2> QED BY <1>0, <2>1, <2>2
<1>7. ASSUME NEW t \in Threads, EndOp(t) PROVE Holding'
  <2>1. /\ hands' = [hands EXCEPT ![t] = [r \in Records |-> NoPointer]]
        /\ graced' = [r \in Records |-> graced[r] \ {t}]
        /\ pc' = [pc EXCEPT ![t] = "quiescent"] /\ where' = where
    BY <1>7 DEF EndOp, Goto
  <2> QED BY <1>0, <2>1
<1>8. ASSUME NEW t \in Threads,
             \/ AnnounceEpoch(t) \/ ScanReadOnly(t) \/ Scan(t) \/ Advance(t) \/ Fence(t) \/ Drain(t)
      PROVE  Holding'
  <2>1. UNCHANGED <<where, hands, graced>>
    BY <1>8 DEF AnnounceEpoch, ScanReadOnly, Scan, Advance, Fence, Drain, data
  <2>2. pc' = pc \/ (pc[t] # "op" /\ \E l : pc' = [pc EXCEPT ![t] = l])
    BY <1>8 DEF AnnounceEpoch, ScanReadOnly, Scan, Advance, Fence, Drain, Goto
  <2>3. \A u \in Threads : pc[u] = "op" => pc'[u] = "op"
    BY <1>0, <2>2
  <2> QED BY <1>1, <2>1, <2>3
<1>9. CASE UNCHANGED vars
  BY <1>1, <1>9 DEF vars, control, data
<1> QED BY <1>2, <1>3, <1>4, <1>5, <1>6, <1>7, <1>8, <1>9 DEF Next

LEMMA AgesStep == IInv /\ [Next]_vars => Ages'
<1> SUFFICES ASSUME IInv, [Next]_vars PROVE Ages'
  OBVIOUS
<1>0. /\ Ages
      /\ hands \in [Threads -> [Records -> 0..NoPointer]] /\ graced \in [Records -> SUBSET Threads]
      /\ local \in [Threads -> Announcements] /\ index \in [Threads -> Bags]
      /\ entered \in [Threads -> 0..MaxEpoch]
      /\ pc \in [Threads -> {"quiescent", "announce", "scan", "advance", "fence", "op"}]
  BY DEF IInv, TypeOK
<1>1. ASSUME UNCHANGED <<epochbags, index, entered, local, graced, hands>> PROVE Ages'
  BY <1>0, <1>1 DEF Ages, NotAfter, InBag, Ago
<1>2. ASSUME NEW t \in Threads, StartOp(t) PROVE Ages'
  <2>0. local' = [local EXCEPT ![t] = epoch] /\ UNCHANGED <<entered, graced, hands>>
    BY <1>2 DEF StartOp
  <2>1. CASE epoch = local[t]
    <3>1. UNCHANGED <<epochbags, index>>
      BY <1>2, <2>1 DEF StartOp
    <3>2. local' = local
      BY <1>0, <2>0, <2>1
    <3> QED BY <1>1, <2>0, <3>1, <3>2
  <2>2. CASE epoch # local[t]
    <3>1. rotateEpochBags(t)
      BY <1>2, <2>2 DEF StartOp
    <3>2. PICK f \in Bags :
              /\ \A r \in Records, v \in Threads, b \in Bags : InBag(r, v, b)' => InBag(r, v, b)
              /\ \A v \in Threads : v # t => index'[v] = index[v]
              /\ \A r \in Records, b \in Bags :
                    InBag(r, t, b) => Ago(t, b)' = Ago(t, b) + 1 /\ b # index'[t]
      BY <3>1, Rotates
    <3>3. ASSUME NEW r \in Records, NEW b \in Bags, InBag(r, t, b)', NEW e \in Int,
                 NotAfter(e, t, b)
          PROVE  NotAfter(e, t, b)'
      <4>1. InBag(r, t, b) /\ Ago(t, b)' = Ago(t, b) + 1 /\ b # index'[t]
        BY <3>2, <3>3
      <4>2. local[t] + 2 <= epoch
        BY <2>2, <4>1, Rotating DEF IInv, Bagged
      <4>3. entered[t] <= epoch
        BY DEF IInv, Waits
      <4>4. local'[t] = epoch
        BY <1>0, <2>0
      <4>5. Ago(t, b) \in Nat /\ (b = index[t] => Ago(t, b) = 0)
        BY Types, DebraAssumption DEF Ago, AgoAt, Bags
      <4>6. e + 2 * (Ago(t, b) + 1) <= epoch + 4
        <5>1. local[t] \in Nat /\ entered[t] \in Nat /\ epoch \in Nat
          BY Types
        <5>2. CASE b = index[t]
          BY ONLY <3>3, <4>3, <4>5, <5>1, <5>2 DEF NotAfter
        <5>3. CASE b # index[t]
          BY ONLY <3>3, <4>2, <4>5, <5>1, <5>3 DEF NotAfter
        <5> QED BY <5>2, <5>3
      <4> QED BY <4>1, <4>4, <4>6 DEF NotAfter
    <3>4. ASSUME NEW r \in Records, NEW v \in Threads, NEW b \in Bags, InBag(r, v, b)',
                 NEW e \in Int, NotAfter(e, v, b)
          PROVE  NotAfter(e, v, b)'
      <4>1. CASE v = t
        BY <3>3, <3>4, <4>1
      <4>2. CASE v # t
        BY <1>0, <2>0, <3>2, <3>4, <4>2 DEF NotAfter, Ago
      <4> QED BY <4>1, <4>2
    <3>5. \A u \in Threads, r \in Records :
             /\ entered'[u] = entered[u] /\ entered[u] \in Int
             /\ entered[u] - 2 * hands[u][r] \in Int
      BY <1>0, <2>0, Types, DebraAssumption DEF NoPointer
    <3> QED BY <1>0, <2>0, <3>2, <3>4, <3>5 DEF Ages
  <2> QED BY <2>1, <2>2
<1>3. ASSUME NEW t \in Threads, Fence(t) PROVE Ages'
  <2>1. /\ pc[t] = "fence" /\ entered' = [entered EXCEPT ![t] = epoch]
        /\ UNCHANGED <<epochbags, index, local, graced, hands>>
    BY <1>3 DEF Fence
  <2>2. \A r \in Records : hands[t][r] = NoPointer /\ t \notin graced[r]
    BY <2>1 DEF IInv, Holding, Running
  <2>3. entered[t] <= entered'[t]
    BY <1>0, <2>1 DEF IInv, Waits
  <2>4. \A v \in Threads, b \in Bags : \A e \in Int : NotAfter(e, v, b) => NotAfter(e, v, b)'
    BY <1>0, <2>1, <2>3, Types DEF NotAfter, Ago
  <2>5. \A u \in Threads, r \in Records : u # t =>
           /\ entered'[u] = entered[u] /\ entered[u] \in Int
           /\ entered[u] - 2 * hands[u][r] \in Int
    BY <1>0, <2>1, Types, DebraAssumption DEF NoPointer
  <2> QED BY <1>0, <2>1, <2>2, <2>4, <2>5 DEF Ages, InBag
<1>4. ASSUME NEW t \in Threads, Borrow(t) PROVE Ages'
  <2>1. PICK v \in Running, q \in Records :
            /\ hands[v][q] + 1 < hands[t][q]
            /\ hands' = [hands EXCEPT ![t][q] = hands[v][q] + 1]
    BY <1>4 DEF Borrow
  <2>2. UNCHANGED <<epochbags, index, local, entered, graced>>
    BY <1>4 DEF Borrow, control
  <2>3. v \in Threads /\ entered[t] <= entered[v] + 2
    BY <2>1, Types DEF Running, IInv, Waits, Waiting
  <2>4. hands[v][q] \in Nat /\ hands[v][q] # NoPointer /\ hands'[t][q] = hands[v][q] + 1
    BY <1>0, <2>1, <2>3, DebraAssumption DEF NoPointer
  <2>5. ASSUME NEW s \in Threads, NEW b \in Bags, InBag(q, s, b)
        PROVE  NotAfter(entered[t] - 2 * (hands[v][q] + 1), s, b)
    <3>1. NotAfter(entered[v] - 2 * hands[v][q], s, b)
      BY <1>0, <2>3, <2>4, <2>5 DEF Ages
    <3>2. Ago(s, b) \in Nat
      BY Types, DebraAssumption DEF Ago, AgoAt, Bags
    <3>3. entered[t] \in Nat /\ entered[v] \in Nat /\ entered[s] \in Nat /\ local[s] \in Nat
      BY <2>3, Types
    <3> QED BY ONLY <2>3, <2>4, <3>1, <3>2, <3>3 DEF NotAfter
  <2>6. \A e, s, b : NotAfter(e, s, b)' <=> NotAfter(e, s, b)
    BY <2>2 DEF NotAfter, Ago
  <2>7. \A r \in Records, u \in Threads : hands'[u][r] = hands[u][r] \/ (r = q /\ u = t)
    BY <1>0, <2>1
  <2>8. \A u \in Threads : entered'[u] = entered[u]
    BY <2>2
  <2>9. ASSUME NEW r \in Records, NEW s \in Threads, NEW u \in Threads, NEW b \in Bags, InBag(r, s, b)'
        PROVE  /\ u \in graced'[r] => NotAfter(entered[u], s, b)
               /\ hands'[u][r] # NoPointer => NotAfter(entered[u] - 2 * hands'[u][r], s, b)
    <3>1. InBag(r, s, b)
      BY <2>2, <2>9 DEF InBag
    <3>2. CASE hands'[u][r] = hands[u][r]
      BY <1>0, <2>2, <3>1, <3>2 DEF Ages
    <3>3. CASE r = q /\ u = t
      BY <1>0, <2>2, <2>4, <2>5, <3>1, <3>3 DEF Ages
    <3> QED BY <2>7, <3>2, <3>3
  <2> QED BY <2>6, <2>8, <2>9 DEF Ages
<1>5. ASSUME NEW t \in Threads, Retire(t) PROVE Ages'
  <2>1. PICK q \in Records :
            /\ where[q] = "linked" /\ graced' = [graced EXCEPT ![q] = Running]
            /\ \A r \in Records, u \in Threads, b \in Bags :
                  InBag(r, u, b)' <=> InBag(r, u, b) \/ (r = q /\ u = t /\ b = index[t])
    BY <1>5, Retires
  <2>2. pc[t] = "op" /\ UNCHANGED <<index, local, entered, hands>>
    BY <1>5 DEF Retire
  <2>3. \A u \in Threads, b \in Bags : ~InBag(q, u, b)
    BY <2>1 DEF IInv, Bagged
  <2>4. \A u \in Threads : entered[u] <= entered[t] + 2
    BY <2>2, Types DEF IInv, Waits, Waiting
  <2>5. \A e, s, b : NotAfter(e, s, b)' <=> NotAfter(e, s, b)
    BY <2>2 DEF NotAfter, Ago
  <2>6. \A u \in Threads : /\ NotAfter(entered[u], t, index[t])
                           /\ NotAfter(entered[u] - 2 * hands[u][q], t, index[t])
    BY <1>0, <2>4, Types, DebraAssumption DEF NotAfter, NoPointer
  <2>7. \A r \in Records : r # q => graced'[r] = graced[r]
    BY <1>0, <2>1
  <2> QED BY <1>0, <2>1, <2>2, <2>3, <2>5, <2>6, <2>7 DEF Ages
<1>6. ASSUME NEW t \in Threads, EndOp(t) PROVE Ages'
  <2>1. /\ hands' = [hands EXCEPT ![t] = [r \in Records |-> NoPointer]]
        /\ graced' = [r \in Records |-> graced[r] \ {t}]
        /\ UNCHANGED <<epochbags, index, local, entered>>
    BY <1>6 DEF EndOp
  <2>2. \A e, s, b : NotAfter(e, s, b)' <=> NotAfter(e, s, b)
    BY <2>1 DEF NotAfter, Ago
  <2>3. \A r \in Records : graced'[r] \subseteq graced[r]
    BY <2>1
  <2>4. \A u \in Threads, r \in Records : hands'[u][r] = NoPointer \/ hands'[u][r] = hands[u][r]
    BY <1>0, <2>1
  <2> QED BY <1>0, <2>1, <2>2, <2>3, <2>4 DEF Ages, InBag
<1>7. ASSUME NEW t \in Threads,
             \/ AnnounceEpoch(t) \/ ScanReadOnly(t) \/ Scan(t) \/ Advance(t) \/ Drain(t)
             \/ Allocate(t)
      PROVE  Ages'
  <2>1. UNCHANGED <<epochbags, index, entered, local, graced, hands>>
    BY <1>7 DEF AnnounceEpoch, ScanReadOnly, Scan, Advance, Drain, Allocate, control, data
  <2> QED BY <1>1, <2>1
<1>8. ASSUME NEW t \in Threads, Reach(t) PROVE Ages'
  <2>1. PICK q \in Records : where[q] = "linked" /\ hands' = [hands EXCEPT ![t][q] = 0]
    BY <1>8 DEF Reach
  <2>2. UNCHANGED <<epochbags, index, local, entered, graced>>
    BY <1>8 DEF Reach, control
  <2>3. \A s \in Threads, b \in Bags : ~InBag(q, s, b)
    BY <2>1 DEF IInv, Bagged
  <2>4. \A e, s, b : NotAfter(e, s, b)' <=> NotAfter(e, s, b)
    BY <2>2 DEF NotAfter, Ago
  <2>5. \A r \in Records, u \in Threads : hands'[u][r] = hands[u][r] \/ r = q
    BY <1>0, <2>1
  <2>6. \A r \in Records, s, u \in Threads, b \in Bags :
           InBag(r, s, b)' => InBag(r, s, b) /\ hands'[u][r] = hands[u][r]
    BY <2>2, <2>3, <2>5 DEF InBag
  <2> QED BY <1>0, <2>2, <2>4, <2>6 DEF Ages
<1>9. CASE UNCHANGED vars
  BY <1>1, <1>9 DEF vars, control, data
<1> QED BY <1>2, <1>3, <1>4, <1>5, <1>6, <1>7, <1>8, <1>9 DEF Next

-----------------------------------------------------------------------------
\* Theorems.

\* The strengthening that the theorems below follow from (reclaimer_debra.h:135-229).
THEOREM Invariance == Spec => []IInv
<1>1. IInv /\ [Next]_vars => IInv'
  BY TypeStep, ScansStep, WaitsStep, BaggedStep, HoldingStep, AgesStep DEF IInv
<1> QED BY InitInvariant, <1>1, PTL DEF Spec

\* Every variable keeps its type; in particular the scan never looks past the last
\* thread's announcement (reclaimer_debra.h:197-206).
THEOREM TypeCorrect == Spec => []TypeOK
<1>1. IInv => TypeOK
  BY DEF IInv
<1> QED BY Invariance, <1>1, PTL

\* A running operation lets the epoch advance at most once (reclaimer_debra.h:176-206).
THEOREM EpochIsHeldBack == Spec => []EpochWaits
<1>1. IInv => EpochWaits
  BY DEF IInv, Waits, Waiting, EpochWaits, Running, EPOCH_INCREMENT
<1> QED BY Invariance, <1>1, PTL

\* Whatever the number of threads, and although helpers get references from one another,
\* no operation ever has a pointer to freed memory (record_manager.h:296-307).
THEOREM MemoryIsSafe == Spec => []NoUseAfterFree
<1>1. IInv => NoUseAfterFree
  BY DEF IInv, Holding, NoUseAfterFree
<1> QED BY Invariance, <1>1, PTL

\* A retired record is in exactly one bag, so it is freed at most once
\* (reclaimer_debra.h:135-142, 223-229).
THEOREM FreedOnce == Spec => []RetiredOnce
<1>1. ASSUME IInv PROVE RetiredOnce
  <2>1. epochbags \in [Threads -> [Bags -> SUBSET Records]] /\ Bagged
    BY <1>1 DEF IInv, TypeOK
  <2> QED BY <2>1 DEF Bagged, InBag, RetiredOnce
<1> QED BY Invariance, <1>1, PTL

-----------------------------------------------------------------------------
\* The promise.

\* A step that frees nothing and leaves the operations alone.
LEMMA Rest ==
    ASSUME UNCHANGED <<where, graced>>, Running' = Running, Held' = Held
    PROVE  UNCHANGED Contract!records
  BY DEF Contract!records

LEMMA StartOpFrees == ASSUME IInv, NEW t \in Threads, StartOp(t) PROVE [Contract!Next]_Contract!records
<1>1. graced' = graced /\ Running' = Running /\ Held' = Held
  BY DEF StartOp, Goto, Running, Held, IInv, TypeOK
<1>2. CASE where' = where
  BY <1>1, <1>2, Rest
<1>3. CASE where' # where
  <2>1. rotateEpochBags(t) /\ epoch # local[t]
    BY <1>3 DEF StartOp
  <2>2. PICK f \in Bags :
           /\ \A r \in Records : where'[r] = IF InBag(r, t, f) THEN "freed" ELSE where[r]
           /\ \A r \in Records : InBag(r, t, f) => Ago(t, f) + 1 = Kept
    BY <2>1, Rotates
  <2> DEFINE freeable == {r \in Records : InBag(r, t, f)}
  <2>3. where' = [r \in Records |-> IF r \in freeable THEN "freed" ELSE where[r]]
    <3>1. where' = [r \in Records |-> where'[r]]
      BY <2>1 DEF rotateEpochBags
    <3> QED BY <2>2, <3>1
  <2>4. \A r \in freeable : where[r] = "retired" /\ graced[r] = {}
    BY <2>1, <2>2, NobodyHolds DEF IInv, Bagged
  <2>5. freeable # {}
    BY <1>3, <2>3 DEF IInv, TypeOK
  <2>6. freeable \in (SUBSET Records) \ {{}}
    BY <2>5
  <2> HIDE DEF freeable
  <2>7. Contract!Release(freeable)
    BY <1>1, <2>3 DEF Contract!Release
  <2>8. Contract!Free
    BY <2>4, <2>6, <2>7 DEF Contract!Free
  <2> QED BY <2>8 DEF Contract!Next
<1> QED BY <1>2, <1>3

LEMMA StepKeepsPromise == ASSUME IInv, [Next]_vars PROVE [Contract!Next]_Contract!records
<1>0. /\ hands \in [Threads -> [Records -> 0..NoPointer]]
      /\ pc \in [Threads -> {"quiescent", "announce", "scan", "advance", "fence", "op"}]
  BY DEF IInv, TypeOK
<1>1. CASE UNCHANGED vars
  BY <1>1, Rest DEF vars, control, data, Running, Held
<1>2. ASSUME NEW t \in Threads, StartOp(t) PROVE [Contract!Next]_Contract!records
  BY <1>2, StartOpFrees
<1>3. ASSUME NEW t \in Threads,
             AnnounceEpoch(t) \/ ScanReadOnly(t) \/ Scan(t) \/ Advance(t) \/ Drain(t)
      PROVE  [Contract!Next]_Contract!records
  <2>1. UNCHANGED data
    BY <1>3 DEF AnnounceEpoch, ScanReadOnly, Scan, Advance, Drain
  <2>2. \A u \in Threads : pc[u] = "op" <=> pc'[u] = "op"
    BY <1>0, <1>3 DEF AnnounceEpoch, ScanReadOnly, Scan, Advance, Drain, Goto
  <2> QED BY <2>1, <2>2, Rest DEF data, Running, Held
<1>4. ASSUME NEW t \in Threads, Fence(t) PROVE [Contract!Next]_Contract!records
  <2>1. Contract!Begin(t)
    BY <1>0, <1>4 DEF Fence, Goto, Contract!Begin, Running, Held
  <2> QED BY <2>1 DEF Contract!Next
<1>5. ASSUME NEW t \in Threads, Reach(t) PROVE [Contract!Next]_Contract!records
  <2>1. PICK r \in Records : where[r] = "linked" /\ hands' = [hands EXCEPT ![t][r] = 0]
    BY <1>5 DEF Reach
  <2>2. Held' = [Held EXCEPT ![t] = @ \cup {r}]
    BY <1>0, <2>1 DEF Held
  <2>3. Contract!Reach(t)
    BY <1>5, <2>1, <2>2 DEF Reach, Contract!Reach, Running, control
  <2> QED BY <2>3 DEF Contract!Next
<1>6. ASSUME NEW t \in Threads, Borrow(t) PROVE [Contract!Next]_Contract!records
  <2>1. PICK u \in Running, r \in Records :
           hands[u][r] + 1 < hands[t][r] /\ hands' = [hands EXCEPT ![t][r] = hands[u][r] + 1]
    BY <1>6 DEF Borrow
  <2>2. hands[u][r] \in Nat /\ hands[t][r] \in Nat
    BY <1>0, NoPointerType DEF Running
  <2>3. hands[u][r] + 1 # 0 /\ hands[t][r] # 0
    BY <2>1, <2>2
  <2>4. Held' = Held
    BY <1>0, <2>1, <2>3 DEF Held
  <2> QED BY <1>6, <2>4, Rest DEF Borrow, Running, control
<1>7. ASSUME NEW t \in Threads, Retire(t) PROVE [Contract!Next]_Contract!records
  <2>1. PICK r \in Records : Contract!Unlink(t, r)
    BY <1>7 DEF Retire, Contract!Unlink, Running, Held
  <2> QED BY <2>1 DEF Contract!Next
<1>8. ASSUME NEW t \in Threads, Allocate(t) PROVE [Contract!Next]_Contract!records
  <2>1. Contract!Allocate(t)
    BY <1>8 DEF Allocate, Contract!Allocate, Running, Held, control
  <2> QED BY <2>1 DEF Contract!Next
<1>9. ASSUME NEW t \in Threads, EndOp(t) PROVE [Contract!Next]_Contract!records
  <2>1. NoPointer # 0
    BY DebraAssumption DEF NoPointer
  <2>2. Contract!End(t)
    BY <1>0, <1>9, <2>1 DEF EndOp, Goto, Contract!End, Running, Held
  <2> QED BY <2>2 DEF Contract!Next
<1> QED BY <1>1, <1>2, <1>3, <1>4, <1>5, <1>6, <1>7, <1>8, <1>9 DEF Next

\* DEBRA frees a record only after every operation that ran when it was retired has ended
\* (reclaimer_debra.h:134-142, 223-229).
THEOREM DebraKeepsPromise == Spec => KeepsPromise
<1>1. Init => Contract!RecordsInit
  <2>1. NoPointer # 0
    BY DebraAssumption DEF NoPointer
  <2> QED BY <2>1 DEF Init, Contract!RecordsInit, Running, Held
<1>2. IInv /\ [Next]_vars => [Contract!Next]_Contract!records
  BY StepKeepsPromise
<1> QED BY <1>1, <1>2, Invariance, PTL DEF Spec, KeepsPromise, Contract!Spec
=============================================================================
