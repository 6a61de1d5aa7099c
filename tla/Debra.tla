-------------------------------- MODULE Debra --------------------------------
(***************************************************************************)
(* reclaimer_debra of a5/recordmgr (a6 has the same code) as the lists and *)
(* trees use it through simple_record_manager: a guard's constructor calls *)
(* startOp, its destructor endOp, and what is freed in between was retired *)
(* a number of epochs ago.  pool_none frees a whole bag at once.           *)
(*                                                                         *)
(* Announcements are relaxed stores.  That of startOp may wait in the      *)
(* thread's store buffer until the __sync_synchronize that follows; that   *)
(* of endOp is shown at once, since a late one is a late endOp.            *)
(* Epochs are even; an odd announcement is that of a quiescent thread.     *)
(*                                                                         *)
(* The data structure is external: in an operation a thread gets pointers  *)
(* to records that are linked and, by helping, to those in the descriptor  *)
(* of another KCAS.  That KCAS's operation is running, or one of its       *)
(* helpers is: a helper that woke up late may have put the tag back        *)
(* (kcas.h:243-254, 266-276).                                              *)
(***************************************************************************)
EXTENDS Naturals, Sequences

CONSTANTS NUM_PROCESSES, Records,
          MIN_OPS_BEFORE_READ,
          NUMBER_OF_EPOCH_BAGS, NUMBER_OF_ALWAYS_EMPTY_EPOCH_BAGS,
          Hands,      \* how many helpers can hand on a pointer: 2 in the code
          MaxEpoch    \* operations start below this epoch only: a model bound

ASSUME DebraAssumption ==
    /\ NUM_PROCESSES \in Nat \ {0} /\ MIN_OPS_BEFORE_READ \in Nat \ {0}
    /\ Hands \in Nat /\ MaxEpoch \in Nat /\ MaxEpoch % 2 = 0
    /\ NUMBER_OF_EPOCH_BAGS \in Nat
    /\ NUMBER_OF_ALWAYS_EMPTY_EPOCH_BAGS \in 1..NUMBER_OF_EPOCH_BAGS - 1

\* A retired record is kept for 9 - 3 rotations in the code: four for those who could
\* reach it themselves, and one more for every hand that a pointer goes through.
ASSUME DebraMargin == NUMBER_OF_EPOCH_BAGS - NUMBER_OF_ALWAYS_EMPTY_EPOCH_BAGS >= 4 + Hands

Threads == 0..NUM_PROCESSES - 1
Bags == 0..NUMBER_OF_EPOCH_BAGS - 1
EPOCH_INCREMENT == 2
BITS_EPOCH(ann) == ann - (ann % 2)
QUIESCENT(ann) == (ann % 2) = 1
GET_WITH_QUIESCENT(ann) == BITS_EPOCH(ann) + 1
NoPointer == Hands + 1

VARIABLES epoch,
          announced,  \* announcedEpoch of each thread, in memory
          pending,    \* whether local is still on its way there
          local,      \* localvar_announcedEpoch
          index, epochbags, checked, opsSinceRead,
          pc,
          where,      \* each record: "linked", "retired" or "freed"
          hands,      \* through how many hands each thread got its pointer to a record
          entered,    \* history: the epoch when each thread's operation began
          graced      \* history: for each record, the operations that ran when it was
                      \* retired and still run

control == <<epoch, announced, pending, local, index, epochbags, checked, opsSinceRead, pc>>
data == <<where, hands, entered, graced>>
vars == <<control, data>>

Init ==
    /\ epoch = 0
    /\ announced = [t \in Threads |-> GET_WITH_QUIESCENT(0)]
    /\ pending = [t \in Threads |-> FALSE]
    /\ local = [t \in Threads |-> GET_WITH_QUIESCENT(0)]
    /\ index = [t \in Threads |-> 0]
    /\ epochbags = [t \in Threads |-> [b \in Bags |-> {}]]
    /\ checked = [t \in Threads |-> 0]
    /\ opsSinceRead = [t \in Threads |-> 0]
    /\ pc = [t \in Threads |-> "quiescent"]
    /\ where = [r \in Records |-> "linked"]
    /\ hands = [t \in Threads |-> [r \in Records |-> NoPointer]]
    /\ entered = [t \in Threads |-> 0]
    /\ graced = [r \in Records |-> {}]

Goto(t, l) == pc' = [pc EXCEPT ![t] = l]
Show(t, ann) == announced' = [announced EXCEPT ![t] = ann]
\* A load forwards the thread's own store.
Seen(t, u) == IF t = u /\ pending[u] THEN local[u] ELSE announced[u]

-----------------------------------------------------------------------------
\* startOp, from the constructor of a guard.

\* A plausible slip: the neighbour on the wrong side, which was current a moment ago.
FreeableBehind(next) == (next + NUMBER_OF_EPOCH_BAGS - 1) % NUMBER_OF_EPOCH_BAGS

\* rotateEpochBags: the thread moves to its next bag and frees the one it comes to in
\* NUMBER_OF_ALWAYS_EMPTY_EPOCH_BAGS more rotations.
Freeable(next) == (next + NUMBER_OF_ALWAYS_EMPTY_EPOCH_BAGS) % NUMBER_OF_EPOCH_BAGS

\* A plausible slip: the freed bag is not emptied.
rotateKeepsBag(t) ==
    LET next == (index[t] + 1) % NUMBER_OF_EPOCH_BAGS
        freeable == epochbags[t][Freeable(next)]
    IN  /\ where' = [r \in Records |-> IF r \in freeable THEN "freed" ELSE where[r]]
        /\ index' = [index EXCEPT ![t] = next]
        /\ UNCHANGED epochbags

rotateEpochBags(t) ==
    LET next == (index[t] + 1) % NUMBER_OF_EPOCH_BAGS
        freeable == epochbags[t][Freeable(next)]
    IN  /\ epochbags' = [epochbags EXCEPT ![t][Freeable(next)] = {}]
        /\ where' = [r \in Records |-> IF r \in freeable THEN "freed" ELSE where[r]]
        /\ index' = [index EXCEPT ![t] = next]

\* The epoch is read; everything else up to the announcement is the thread's own.
StartOp(t) ==
    /\ pc[t] = "quiescent" /\ epoch < MaxEpoch
    /\ local' = [local EXCEPT ![t] = epoch]
    /\ IF epoch # local[t]
       THEN rotateEpochBags(t) /\ checked' = [checked EXCEPT ![t] = 0]
       ELSE UNCHANGED <<epochbags, where, index, checked>>
    /\ Goto(t, "announce")
    /\ UNCHANGED <<epoch, announced, pending, opsSinceRead, hands, entered, graced>>

AnnounceEpoch(t) ==
    /\ pc[t] = "announce"
    /\ pending' = [pending EXCEPT ![t] = TRUE]
    /\ Goto(t, "scan")
    /\ UNCHANGED <<epoch, announced, local, index, epochbags, checked, opsSinceRead, data>>

ScanReadOnly(t) ==
    /\ pc[t] = "scan"
    /\ Goto(t, "fence")
    /\ UNCHANGED <<epoch, announced, pending, local, index, epochbags, checked, opsSinceRead, data>>

\* A plausible slip: the announcement is not compared.
ScanPassesAll(t) ==
    LET due == opsSinceRead[t] + 1 = MIN_OPS_BEFORE_READ
    IN  /\ pc[t] = "scan"
        /\ opsSinceRead' = [opsSinceRead EXCEPT ![t] = IF due THEN 0 ELSE @ + 1]
        /\ checked' = [checked EXCEPT ![t] = IF due THEN @ + 1 ELSE @]
        /\ Goto(t, IF due /\ checked[t] + 1 >= NUM_PROCESSES THEN "advance" ELSE "fence")
        /\ UNCHANGED <<epoch, announced, pending, local, index, epochbags, data>>

\* Every MIN_OPS_BEFORE_READ operations one more announcement is checked.
Scan(t) ==
    LET ann == Seen(t, checked[t])
        due == opsSinceRead[t] + 1 = MIN_OPS_BEFORE_READ
        passed == due /\ (BITS_EPOCH(ann) = local[t] \/ QUIESCENT(ann))
    IN  /\ pc[t] = "scan"
        /\ opsSinceRead' = [opsSinceRead EXCEPT ![t] = IF due THEN 0 ELSE @ + 1]
        /\ checked' = [checked EXCEPT ![t] = IF passed THEN @ + 1 ELSE @]
        /\ Goto(t, IF passed /\ checked[t] + 1 >= NUM_PROCESSES THEN "advance" ELSE "fence")
        /\ UNCHANGED <<epoch, announced, pending, local, index, epochbags, data>>

\* A compare-and-swap, which empties the store buffer as well.
Advance(t) ==
    /\ pc[t] = "advance" /\ ~pending[t]
    /\ epoch' = IF epoch = local[t] THEN epoch + EPOCH_INCREMENT ELSE epoch
    /\ Goto(t, "fence")
    /\ UNCHANGED <<announced, pending, local, index, epochbags, checked, opsSinceRead, data>>

\* A plausible slip: no memory barrier before the operation.
FenceForgotten(t) ==
    /\ pc[t] = "fence"
    /\ entered' = [entered EXCEPT ![t] = epoch]
    /\ Goto(t, "op")
    /\ UNCHANGED <<epoch, announced, pending, local, index, epochbags, checked, opsSinceRead,
                   where, hands, graced>>

Fence(t) ==
    /\ pc[t] = "fence" /\ ~pending[t]
    /\ entered' = [entered EXCEPT ![t] = epoch]
    /\ Goto(t, "op")
    /\ UNCHANGED <<epoch, announced, pending, local, index, epochbags, checked, opsSinceRead,
                   where, hands, graced>>

\* The store buffer is written out.
Drain(t) ==
    /\ pending[t]
    /\ Show(t, local[t])
    /\ pending' = [pending EXCEPT ![t] = FALSE]
    /\ UNCHANGED <<epoch, local, index, epochbags, checked, opsSinceRead, pc, data>>

-----------------------------------------------------------------------------
\* The operation that the guard protects.

Running == {t \in Threads : pc[t] = "op"}

\* What is found later, through a record that has been unlinked, was linked when that was.
Reach(t) ==
    /\ pc[t] = "op"
    /\ \E r \in Records : where[r] = "linked" /\ hands' = [hands EXCEPT ![t][r] = 0]
    /\ UNCHANGED <<control, where, entered, graced>>

\* helpOther: the addresses in the descriptor of a KCAS that u executes or helps.
Borrow(t) ==
    /\ pc[t] = "op"
    /\ \E u \in Running, r \in Records :
          /\ hands[u][r] + 1 < hands[t][r]
          /\ hands' = [hands EXCEPT ![t][r] = hands[u][r] + 1]
    /\ UNCHANGED <<control, where, entered, graced>>

\* A record is unlinked by a KCAS and retired by the thread whose KCAS it was.
Retire(t) ==
    /\ pc[t] = "op"
    /\ \E r \in Records :
          /\ hands[t][r] = 0 /\ where[r] = "linked"
          /\ where' = [where EXCEPT ![r] = "retired"]
          /\ epochbags' = [epochbags EXCEPT ![t][index[t]] = @ \cup {r}]
          /\ graced' = [graced EXCEPT ![r] = Running]
    /\ UNCHANGED <<epoch, announced, pending, local, index, checked, opsSinceRead, pc,
                   hands, entered>>

\* Memory that was freed is allocated for a new record and linked.
Allocate(t) ==
    /\ pc[t] = "op"
    /\ \E r \in Records : where[r] = "freed" /\ where' = [where EXCEPT ![r] = "linked"]
    /\ UNCHANGED <<control, hands, entered, graced>>

\* endOp, from the destructor of the guard: the operation's pointers are gone.
EndOp(t) ==
    /\ pc[t] = "op"
    /\ Show(t, GET_WITH_QUIESCENT(local[t]))
    /\ hands' = [hands EXCEPT ![t] = [r \in Records |-> NoPointer]]
    /\ graced' = [r \in Records |-> graced[r] \ {t}]
    /\ Goto(t, "quiescent")
    /\ UNCHANGED <<epoch, pending, local, index, epochbags, checked, opsSinceRead,
                   where, entered>>

Next == \E t \in Threads :
    \/ StartOp(t) \/ AnnounceEpoch(t) \/ ScanReadOnly(t) \/ Scan(t) \/ Advance(t) \/ Fence(t)
    \/ Drain(t) \/ Reach(t) \/ Borrow(t) \/ Retire(t) \/ Allocate(t) \/ EndOp(t)

Spec == Init /\ [][Next]_vars

-----------------------------------------------------------------------------
Announcements == 0..MaxEpoch + 1

TypeOK ==
    /\ epoch \in {e \in 0..MaxEpoch : ~QUIESCENT(e)}
    /\ announced \in [Threads -> Announcements] /\ local \in [Threads -> Announcements]
    /\ pending \in [Threads -> BOOLEAN]
    /\ index \in [Threads -> Bags] /\ epochbags \in [Threads -> [Bags -> SUBSET Records]]
    /\ checked \in [Threads -> 0..NUM_PROCESSES]
    /\ opsSinceRead \in [Threads -> 0..MIN_OPS_BEFORE_READ - 1]
    /\ pc \in [Threads -> {"quiescent", "announce", "scan", "advance", "fence", "op"}]
    /\ where \in [Records -> {"linked", "retired", "freed"}]
    /\ hands \in [Threads -> [Records -> 0..NoPointer]]
    /\ entered \in [Threads -> 0..MaxEpoch] /\ graced \in [Records -> SUBSET Threads]

\* No operation has a pointer to freed memory, be it one it has read itself or one it got
\* by helping an older operation (record_manager.h:296-307, reclaimer_debra.h:135-142).
NoUseAfterFree ==
    \A t \in Threads, r \in Records : hands[t][r] # NoPointer => where[r] # "freed"

\* The pointers that an operation has not been handed by another.
Held == [t \in Threads |-> {r \in Records : hands[t][r] = 0}]

Contract == INSTANCE Reclamation WITH running <- Running, held <- Held

\* A record is freed only after every operation that ran when it was retired has ended
\* (reclaimer_debra.h:134, 166, 223-229).
KeepsPromise == Contract!Spec

\* A running operation lets the epoch advance once at most, although its announcement may
\* already be out of date when it is made (reclaimer_debra.h:176-206).
EpochWaits ==
    \A t \in Running : epoch <= entered[t] + EPOCH_INCREMENT

\* Every record that is retired is in exactly one bag, so that it is freed once
\* (reclaimer_debra.h:135-142, 223-229).
RetiredOnce ==
    \A r \in Records :
        where[r] = "retired" <=>
        \E t \in Threads, b \in Bags :
            /\ r \in epochbags[t][b]
            /\ \A u \in Threads, d \in Bags : r \in epochbags[u][d] => u = t /\ d = b
=============================================================================
