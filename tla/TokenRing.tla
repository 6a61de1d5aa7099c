------------------------------ MODULE TokenRing ------------------------------
(***************************************************************************)
(* The reclaimers that pass a token round the threads: reclaimer_token1 of *)
(* a7's recordmgr, compiled as token1, token2, token3 or token4, and       *)
(* reclaimer_ebr_token.  A thread with the token frees the bag of what it  *)
(* retired before it had it last time, and passes it at the start of an    *)
(* operation.                                                              *)
(*                                                                         *)
(* Bags are sets: which records are in its full blocks is left open.  The  *)
(* volatile token words are plain stores, so the token may wait in the     *)
(* store buffer of the thread that passes it; its own word is read by      *)
(* that thread alone.  pool_none frees a bag record by record, the other   *)
(* pools take its full blocks.                                             *)
(***************************************************************************)
EXTENDS Records, FiniteSets

\* Records in a block of a bag: 40 in the code.  The loop in which token3 looks for the token
\* every 100 records frees what was in no full block, so that it never comes to look: the
\* model leaves that out.
CONSTANT BLOCK_SIZE

VARIABLES variant, pool,  \* what is compiled
          token,
          passing,        \* whether the store of the next thread's token is on its way
          curr, last, deamortizedFreeables,
          pc

build == <<variant, pool>>
bags == <<curr, last, deamortizedFreeables>>
vars == <<build, token, passing, bags, pc, records>>

Variants == {"token1", "token2", "token3", "token4", "ebr_token"}

Init ==
    /\ RecordsInit
    /\ variant \in Variants /\ pool \in {"none", "blocks"}
    /\ token = [t \in Threads |-> t = 0]
    /\ passing = [t \in Threads |-> FALSE]
    /\ curr = [t \in Threads |-> {}]
    /\ last = [t \in Threads |-> {}]
    /\ deamortizedFreeables = [t \in Threads |-> {}]
    /\ pc = [t \in Threads |-> "idle"]

Goto(t, l) == pc' = [pc EXCEPT ![t] = l]

\* A plausible slip: the token is passed on and kept.
PassAndKeep(t) ==
    /\ passing' = [passing EXCEPT ![t] = TRUE]
    /\ UNCHANGED token

Pass(t) ==
    /\ token' = [token EXCEPT ![t] = FALSE]
    /\ passing' = [passing EXCEPT ![t] = TRUE]

\* startOp: only a thread with the token has anything to do; token1 frees before it passes.
StartOp(t) ==
    /\ pc[t] = "idle"
    /\ Goto(t, IF token[t] THEN "free" ELSE "trickle")
    /\ IF token[t] /\ variant # "token1" THEN Pass(t) ELSE UNCHANGED <<token, passing>>
    /\ UNCHANGED <<build, bags, records>>

\* A plausible slip: the index does not wrap round.
HandOverUnwrapped(t) ==
    /\ passing[t]
    /\ passing' = [passing EXCEPT ![t] = FALSE]
    /\ token' = [u \in Threads |-> token[u] \/ u = t + 1]
    /\ UNCHANGED <<build, bags, pc, records>>

\* The next thread's token is written out.
HandOver(t) ==
    /\ passing[t]
    /\ passing' = [passing EXCEPT ![t] = FALSE]
    /\ token' = [token EXCEPT ![(t + 1) % NUM_PROCESSES] = TRUE]
    /\ UNCHANGED <<build, bags, pc, records>>

\* rotateEpochBags: ebr_token has a fence between passing the token and this.
Rotating(t) == pc[t] = "free" /\ (variant = "ebr_token" => ~passing[t])

InFullBlocks(bag) ==
    {full \in SUBSET bag : Cardinality(full) = Cardinality(bag) - (Cardinality(bag) % BLOCK_SIZE)}

\* addMoveFullBlocks of a pool that keeps blocks.
FreeBlocks(t) ==
    /\ Rotating(t) /\ pool = "blocks" /\ variant # "token4"
    /\ \E full \in InFullBlocks(last[t]) :
          /\ Release(full)
          /\ last' = [last EXCEPT ![t] = @ \ full]
    /\ Goto(t, "swap")
    /\ UNCHANGED <<build, token, passing, curr, deamortizedFreeables>>

\* addMoveFullBlocks of pool_none, and the loop by which token3 frees the rest.
FreeOne(t) ==
    /\ \/ Rotating(t) /\ pool = "none" /\ variant # "token4"
       \/ pc[t] = "swap" /\ variant = "token3"
    /\ \E r \in last[t] : Release({r}) /\ last' = [last EXCEPT ![t] = @ \ {r}]
    /\ UNCHANGED <<build, token, passing, curr, deamortizedFreeables, pc>>

\* Whether a whole bag is freed, and not but for the rest that fills no block.
FreesAll == variant = "token3" \/ (pool = "none" /\ variant # "token4")

\* token4: appendMoveFullBlocks to the freelist.
MoveBlocks(t) ==
    /\ Rotating(t) /\ variant = "token4"
    /\ \E full \in InFullBlocks(last[t]) :
          /\ deamortizedFreeables' = [deamortizedFreeables EXCEPT ![t] = @ \cup full]
          /\ last' = [last EXCEPT ![t] = @ \ full]
    /\ Goto(t, "swap")
    /\ UNCHANGED <<build, token, passing, curr, records>>

BagIsDone(t) ==
    \/ Rotating(t) /\ pool = "none" /\ variant # "token4" /\ last[t] = {}
    \/ pc[t] = "swap" /\ (variant = "token3" => last[t] = {})

\* curr and last are swapped; token1 passes the token now.
SwapBags(t) ==
    /\ BagIsDone(t)
    /\ last' = [last EXCEPT ![t] = curr[t]]
    /\ curr' = [curr EXCEPT ![t] = last[t]]
    /\ IF variant = "token1" THEN Pass(t) ELSE UNCHANGED <<token, passing>>
    /\ Goto(t, "trickle")
    /\ UNCHANGED <<build, deamortizedFreeables, records>>

\* token4 frees one record of its freelist in every startOp.
Trickle(t) ==
    /\ pc[t] = "trickle"
    /\ IF deamortizedFreeables[t] = {}
       THEN UNCHANGED <<deamortizedFreeables, records>>
       ELSE \E r \in deamortizedFreeables[t] :
               /\ Release({r})
               /\ deamortizedFreeables' = [deamortizedFreeables EXCEPT ![t] = @ \ {r}]
    /\ Goto(t, "fence")
    /\ UNCHANGED <<build, token, passing, curr, last>>

\* The memory barrier of the record manager, then the operation.
Fence(t) ==
    /\ pc[t] = "fence" /\ ~passing[t]
    /\ Begin(t)
    /\ Goto(t, "op")
    /\ UNCHANGED <<build, token, passing, bags>>

UseRecords(t) ==
    /\ Reach(t) \/ Allocate(t)
    /\ UNCHANGED <<build, token, passing, bags, pc>>

retire(t) ==
    /\ \E r \in Records : Unlink(t, r) /\ curr' = [curr EXCEPT ![t] = @ \cup {r}]
    /\ UNCHANGED <<build, token, passing, last, deamortizedFreeables, pc>>

\* endOp does nothing: the operation is over.
EndOp(t) ==
    /\ End(t)
    /\ Goto(t, "idle")
    /\ UNCHANGED <<build, token, passing, bags>>

\* What a thread does when it is given a processor.
Step(t) == \/ StartOp(t) \/ FreeBlocks(t) \/ FreeOne(t) \/ MoveBlocks(t) \/ SwapBags(t)
           \/ Trickle(t) \/ Fence(t) \/ EndOp(t)

Next == \E t \in Threads : Step(t) \/ HandOver(t) \/ UseRecords(t) \/ retire(t)

\* Store buffers drain, and in a trial every thread goes on with its operations.
Fairness == \A t \in Threads : WF_vars(Step(t)) /\ WF_vars(HandOver(t))

Spec == Init /\ [][Next]_vars

FairSpec == Spec /\ Fairness

-----------------------------------------------------------------------------
TypeOK ==
    /\ RecordsType
    /\ variant \in Variants /\ pool \in {"none", "blocks"}
    /\ token \in [Threads -> BOOLEAN] /\ passing \in [Threads -> BOOLEAN]
    /\ curr \in [Threads -> SUBSET Records] /\ last \in [Threads -> SUBSET Records]
    /\ deamortizedFreeables \in [Threads -> SUBSET Records]
    /\ pc \in [Threads -> {"idle", "free", "swap", "trickle", "fence", "op"}]

Contract == INSTANCE Reclamation

\* The five reclaimers free a record only after every operation that ran when it was
\* retired has ended (reclaimer_token1.h:323-328, reclaimer_ebr_token.h:176-182).
KeepsPromise == Contract!Spec

Awaits(r) == FreesAll /\ where[r] = "retired"
=============================================================================
