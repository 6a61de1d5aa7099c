------------------------------ MODULE EpochTree ------------------------------
(***************************************************************************)
(* reclaimer_ebr_tree of a7's recordmgr: the epoch is the root of a binary *)
(* tree with a leaf for each thread.  A thread announces the epoch at its  *)
(* leaf, and now and then carries it up as far as the sibling subtrees     *)
(* have come; who reaches the root advances the epoch.                     *)
(*                                                                         *)
(* Leaves beyond the last thread are quiescent (odd), and so is a node     *)
(* with no other leaves below it.  An announcement is a plain store and    *)
(* waits in the store buffer until a compare-and-swap or the memory        *)
(* barrier of the record manager.  Which part of a bag fills whole blocks, *)
(* and is freed, is left open.                                             *)
(***************************************************************************)
EXTENDS Records

CONSTANTS NUMBER_OF_EPOCH_BAGS, NUMBER_OF_ALWAYS_EMPTY_EPOCH_BAGS,
          MaxEpoch    \* operations start below this epoch only: a model bound

\* roundUpPow2; no arithmetic of powers is used beyond the assumption that it rounds up.
Pow2(n) == CHOOSE p \in {2^k : k \in 0..n} : p >= n /\ p < 2 * n

TreeAssumption ==
    /\ MaxEpoch \in Nat /\ MaxEpoch % 2 = 0
    /\ NUMBER_OF_EPOCH_BAGS \in Nat
    /\ NUMBER_OF_ALWAYS_EMPTY_EPOCH_BAGS \in 0..NUMBER_OF_EPOCH_BAGS - 1
    /\ Pow2(NUM_PROCESSES) \in Nat /\ Pow2(NUM_PROCESSES) >= NUM_PROCESSES

EPOCH_INCREMENT == 2
QUIESCENT(ann) == (ann % 2) = 1
Bags == 0..NUMBER_OF_EPOCH_BAGS - 1

EBRT_ROOT == 1
EBRT_LEAF(tid) == tid + Pow2(NUM_PROCESSES)
EBRT_PARENT(ix) == ix \div 2
Sibling(ix) == IF ix % 2 = 0 THEN ix + 1 ELSE ix - 1

Nodes == 1..2 * Pow2(NUM_PROCESSES) - 1

\* The leaf of tid is in the subtree of ix: the way up from that leaf leads through ix.
Below(ix, tid) ==
    \A way \in SUBSET Nodes :
        /\ EBRT_LEAF(tid) \in way
        /\ \A n \in way \ {EBRT_ROOT} : EBRT_PARENT(n) \in way
        => ix \in way
Empty(ix) == \A t \in Threads : ~Below(ix, t)

VARIABLES nodes,       \* the values in memory; nodes[EBRT_ROOT] is the epoch
          ann,         \* what each thread wrote to its leaf last
          pending,     \* whether that is still on its way there
          index, epochbags,
          pc,
          currIx,      \* how far up each thread has come
          parentVal    \* what it read there

control == <<nodes, ann, pending, index, epochbags, pc, currIx, parentVal>>
vars == <<control, records>>

epoch == nodes[EBRT_ROOT]

Init ==
    /\ RecordsInit
    /\ nodes = [ix \in Nodes |-> IF ix = EBRT_ROOT THEN EPOCH_INCREMENT
                                 ELSE IF Empty(ix) THEN 1 ELSE 0]
    /\ ann = [t \in Threads |-> nodes[EBRT_LEAF(t)]]
    /\ pending = [t \in Threads |-> FALSE]
    /\ index = [t \in Threads |-> 0]
    /\ epochbags = [t \in Threads |-> [b \in Bags |-> {}]]
    /\ pc = [t \in Threads |-> "idle"]
    /\ currIx = [t \in Threads |-> EBRT_LEAF(t)]
    /\ parentVal = [t \in Threads |-> 0]

Goto(t, l) == pc' = [pc EXCEPT ![t] = l]

rotateEpochBags(t) ==
    LET next == (index[t] + 1) % NUMBER_OF_EPOCH_BAGS
        oldest == (next + NUMBER_OF_ALWAYS_EMPTY_EPOCH_BAGS) % NUMBER_OF_EPOCH_BAGS
    IN  \E freeable \in SUBSET epochbags[t][oldest] :
           /\ Release(freeable)
           /\ epochbags' = [epochbags EXCEPT ![t][oldest] = @ \ freeable]
           /\ index' = [index EXCEPT ![t] = next]

\* startOp: the epoch is read, announced when it is new, and then the bags are rotated.
\* Every 50th operation that writes climbs the tree.
StartOp(t, climbs) ==
    /\ pc[t] = "idle" /\ epoch < MaxEpoch
    /\ IF epoch # ann[t]
       THEN /\ ann' = [ann EXCEPT ![t] = epoch]
            /\ pending' = [pending EXCEPT ![t] = TRUE]
            /\ rotateEpochBags(t)
       ELSE UNCHANGED <<ann, pending, index, epochbags, records>>
    /\ Goto(t, IF climbs THEN "sibling" ELSE "fence")
    /\ UNCHANGED <<nodes, currIx, parentVal>>

\* tryAdvance is over; its variables are local.
Stop(t) ==
    /\ Goto(t, "fence")
    /\ currIx' = [currIx EXCEPT ![t] = EBRT_LEAF(t)]
    /\ parentVal' = [parentVal EXCEPT ![t] = 0]

\* A plausible slip: the sibling is not looked at.
ReadNoSibling(t) ==
    /\ pc[t] = "sibling"
    /\ IF currIx[t] > EBRT_ROOT THEN Goto(t, "parent") /\ UNCHANGED <<currIx, parentVal>> ELSE Stop(t)
    /\ UNCHANGED <<nodes, ann, pending, index, epochbags, records>>

\* tryAdvance: a thread goes on when the sibling has the same value or none.
ReadSibling(t) ==
    LET siblingVal == nodes[Sibling(currIx[t])]
        agrees == currIx[t] > EBRT_ROOT /\ (siblingVal = ann[t] \/ QUIESCENT(siblingVal))
    IN  /\ pc[t] = "sibling"
        /\ IF agrees THEN Goto(t, "parent") /\ UNCHANGED <<currIx, parentVal>> ELSE Stop(t)
        /\ UNCHANGED <<nodes, ann, pending, index, epochbags, records>>

\* At the root its value must be that of the epoch, elsewhere it must be news.
ReadParent(t) ==
    LET parentIx == EBRT_PARENT(currIx[t])
        behind == IF parentIx = EBRT_ROOT THEN nodes[parentIx] = ann[t]
                                          ELSE nodes[parentIx] < ann[t]
    IN  /\ pc[t] = "parent"
        /\ IF behind
           THEN /\ parentVal' = [parentVal EXCEPT ![t] = nodes[parentIx]]
                /\ Goto(t, "propagate")
                /\ UNCHANGED currIx
           ELSE Stop(t)
        /\ UNCHANGED <<nodes, ann, pending, index, epochbags, records>>

Carry(t, parentIx) ==
    nodes' = [nodes EXCEPT ![parentIx] =
                 IF parentIx = EBRT_ROOT THEN @ + EPOCH_INCREMENT ELSE ann[t]]

\* A plausible slip: a thread that has propagated its value stops there.
PropagateOnce(t) ==
    LET parentIx == EBRT_PARENT(currIx[t])
    IN  /\ pc[t] = "propagate" /\ ~pending[t]
        /\ IF nodes[parentIx] = parentVal[t] THEN Carry(t, parentIx) ELSE UNCHANGED nodes
        /\ Stop(t)
        /\ UNCHANGED <<ann, pending, index, epochbags, records>>

\* A compare-and-swap; who fails leaves the rest to the thread that was faster.
Propagate(t) ==
    LET parentIx == EBRT_PARENT(currIx[t])
        done == nodes[parentIx] = parentVal[t]
    IN  /\ pc[t] = "propagate" /\ ~pending[t]
        /\ IF done THEN Carry(t, parentIx) ELSE UNCHANGED nodes
        /\ IF done /\ parentIx # EBRT_ROOT
           THEN /\ currIx' = [currIx EXCEPT ![t] = parentIx]
                /\ Goto(t, "sibling")
                /\ UNCHANGED parentVal
           ELSE Stop(t)
        /\ UNCHANGED <<ann, pending, index, epochbags, records>>

\* The store buffer is written out.
Drain(t) ==
    /\ pending[t]
    /\ nodes' = [nodes EXCEPT ![EBRT_LEAF(t)] = ann[t]]
    /\ pending' = [pending EXCEPT ![t] = FALSE]
    /\ UNCHANGED <<ann, index, epochbags, pc, currIx, parentVal, records>>

\* The memory barrier of the record manager, then the operation.
Fence(t) ==
    /\ pc[t] = "fence" /\ ~pending[t]
    /\ Begin(t)
    /\ Goto(t, "op")
    /\ UNCHANGED <<nodes, ann, pending, index, epochbags, currIx, parentVal>>

UseRecords(t) ==
    /\ Reach(t) \/ Allocate(t)
    /\ UNCHANGED control

retire(t) ==
    /\ \E r \in Records :
          /\ Unlink(t, r)
          /\ epochbags' = [epochbags EXCEPT ![t][index[t]] = @ \cup {r}]
    /\ UNCHANGED <<nodes, ann, pending, index, pc, currIx, parentVal>>

\* endOp does nothing: a thread is never quiescent.
EndOp(t) ==
    /\ End(t)
    /\ Goto(t, "idle")
    /\ UNCHANGED <<nodes, ann, pending, index, epochbags, currIx, parentVal>>

\* What a thread does when it is given a processor.
Step(t) == \/ \E climbs \in BOOLEAN : StartOp(t, climbs)
           \/ ReadSibling(t) \/ ReadParent(t) \/ Propagate(t) \/ Fence(t) \/ EndOp(t)

Next == \E t \in Threads : Step(t) \/ Drain(t) \/ UseRecords(t) \/ retire(t)

\* Store buffers drain, every thread goes on with its operations and climbs again and again.
Fairness == \A t \in Threads :
               WF_vars(Step(t)) /\ WF_vars(Drain(t)) /\ SF_vars(StartOp(t, TRUE))

Spec == Init /\ [][Next]_vars

FairSpec == Spec /\ Fairness

-----------------------------------------------------------------------------
\* An inner node is never ahead of a thread below it, the epoch by one step at most, no
\* matter how late the threads that carry values up are (reclaimer_ebr_tree.h:123-183).
NodesBehind ==
    \A ix \in DOMAIN nodes, t \in Threads :
        Below(ix, t) => nodes[ix] <= ann[t] + IF ix = EBRT_ROOT THEN EPOCH_INCREMENT ELSE 0

Contract == INSTANCE Reclamation

\* A record is freed only after every operation that ran when it was retired has ended:
\* three bags are enough (reclaimer_ebr_tree.h:37-38, 300-316).
KeepsPromise == Contract!Spec
=============================================================================
