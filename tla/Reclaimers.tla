------------------------------ MODULE Reclaimers ------------------------------
(***************************************************************************)
(* The reclaimers of a7's recordmgr that are not DEBRA, which a data       *)
(* structure chooses by a template parameter: one of the token rings, or   *)
(* the epoch tree; and an epoch tree of more threads, with an inner node   *)
(* between its leaves and its root and no records.                         *)
(***************************************************************************)
EXTENDS Processes

CONSTANTS Records,
          BLOCK_SIZE,
          NUMBER_OF_EPOCH_BAGS, NUMBER_OF_ALWAYS_EMPTY_EPOCH_BAGS,
          MaxEpoch,                 \* of the epoch tree: a model bound
          Climbers, MaxClimbEpoch   \* threads and bound of the larger tree

VARIABLES reclaimer, pc,
          where, running, held, graced,
          variant, pool, token, passing, curr, last, deamortizedFreeables,
          nodes, ann, pending, index, epochbags, currIx, parentVal

ringVars == <<variant, pool, token, passing, curr, last, deamortizedFreeables>>
treeVars == <<nodes, ann, pending, index, epochbags, currIx, parentVal>>
records == <<where, running, held, graced>>
vars == <<reclaimer, records, pc, ringVars, treeVars>>

MoreThreads == 0..Climbers - 1

Ring == INSTANCE TokenRing
Tree == INSTANCE EpochTree
Large == INSTANCE EpochTree
         WITH NUM_PROCESSES <- Climbers, Threads <- MoreThreads, Records <- {},
              MaxEpoch <- MaxClimbEpoch

ASSUME ReclaimersAssumption ==
    /\ BLOCK_SIZE \in Nat \ {0}
    /\ Climbers \in Nat \ {0} /\ Tree!TreeAssumption /\ Large!TreeAssumption

NoTree == nodes = 0 /\ ann = 0 /\ pending = 0 /\ index = 0 /\ epochbags = 0 /\ currIx = 0 /\ parentVal = 0
NoRing == variant = 0 /\ pool = 0 /\ token = 0 /\ passing = 0 /\ curr = 0 /\ last = 0 /\ deamortizedFreeables = 0

Init ==
    \/ reclaimer = "ring" /\ Ring!Init /\ NoTree
    \/ reclaimer = "tree" /\ Tree!Init /\ NoRing
    \/ reclaimer = "large tree" /\ Large!Init /\ NoRing

RingStays == UNCHANGED <<reclaimer, ringVars>>
TreeStays == UNCHANGED <<reclaimer, treeVars>>

RingStep(t) == reclaimer = "ring" /\ Ring!Step(t) /\ TreeStays
RingHandOver(t) == reclaimer = "ring" /\ Ring!HandOver(t) /\ TreeStays
RingUse(t) == reclaimer = "ring" /\ (Ring!UseRecords(t) \/ Ring!retire(t)) /\ TreeStays

LargeStep(t) == reclaimer = "large tree" /\ Large!Step(t) /\ RingStays
LargeClimb(t) == reclaimer = "large tree" /\ Large!StartOp(t, TRUE) /\ RingStays
LargeDrain(t) == reclaimer = "large tree" /\ Large!Drain(t) /\ RingStays

Next ==
    \/ \E t \in Threads : RingStep(t) \/ RingHandOver(t) \/ RingUse(t)
    \/ reclaimer = "tree" /\ Tree!Next /\ RingStays
    \/ \E t \in MoreThreads : LargeStep(t) \/ LargeDrain(t)

Spec == Init /\ [][Next]_vars

\* As in TokenRing and EpochTree; of the small tree nothing is said.
Fairness ==
    /\ \A t \in Threads : WF_vars(RingStep(t)) /\ WF_vars(RingHandOver(t))
    /\ \A t \in MoreThreads :
          WF_vars(LargeStep(t)) /\ WF_vars(LargeDrain(t)) /\ SF_vars(LargeClimb(t))

FairSpec == Spec /\ Fairness

-----------------------------------------------------------------------------
\* The larger tree keeps nothing and frees nothing.
Contract == INSTANCE Reclamation WITH
    where <- IF reclaimer = "large tree" THEN [r \in Records |-> "linked"] ELSE where,
    running <- IF reclaimer = "large tree" THEN {} ELSE running,
    held <- IF reclaimer = "large tree" THEN [t \in Threads |-> {}] ELSE held,
    graced <- IF reclaimer = "large tree" THEN [r \in Records |-> {}] ELSE graced

\* All of them free a record only after every operation that ran when it was retired has
\* ended (reclaimer_token1.h:323-328, reclaimer_ebr_token.h:176-182, reclaimer_ebr_tree.h:37-38,
\* 300-316).
KeepsPromise == Contract!Spec

\* What a thread retires is freed in the end, as long as every thread goes on, by those token
\* rings that free whole bags (reclaimer_token1.h:225-263).
EventuallyFreed ==
    LET awaits(r) == reclaimer = "ring" /\ Ring!Awaits(r)
    IN  \A r \in Records : awaits(r) ~> ~awaits(r)

\* An inner node of a tree is never ahead of a thread below it, and the epoch by one step at
\* most (reclaimer_ebr_tree.h:123-183).
NodesBehind ==
    CASE reclaimer = "tree" -> Tree!NodesBehind
      [] reclaimer = "large tree" -> Large!NodesBehind
      [] OTHER -> TRUE

\* The epoch of the larger tree goes on, although nobody tries twice
\* (reclaimer_ebr_tree.h:164-173).
EpochAdvances == <>(reclaimer = "large tree" => Large!epoch = MaxClimbEpoch)
=============================================================================
