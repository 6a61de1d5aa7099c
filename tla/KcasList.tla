------------------------------- MODULE KcasList -------------------------------
(***************************************************************************)
(* The ordered doubly linked lists of a5: doubly_linked_list_kcas.h, which *)
(* never frees an erased node, and doubly_linked_list_kcas_reclaim.h,      *)
(* which retires it.  readPtr and execute are the atomic ones of           *)
(* AtomicKcas, which Kcas implements: each is one step.                    *)
(*                                                                         *)
(* Reclamation is what Debra promises: a retired node is freed at some     *)
(* time after the guards that were alive when it was retired.              *)
(***************************************************************************)
EXTENDS Integers, FiniteSets

CONSTANTS
    Threads,
    Keys,       \* minKey .. maxKey
    Nodes,      \* addresses for nodes; a model bound, see Room
    Head, Tail, \* the sentinels
    Null

ASSUME ListAssumption ==
    /\ Keys \subseteq Nat
    /\ Head \notin Nodes /\ Tail \notin Nodes \cup {Head}
    /\ Null \notin Nodes \cup {Head, Tail}
    /\ IsFiniteSet(Nodes) /\ IsFiniteSet(Threads)

VARIABLES
    reclaims,                       \* which of the two lists it is
    key, nextPtr, prevPtr, marked,  \* the fields of the nodes
    where,      \* each node: "free", "private", "linked", "erased" or "retired"
    graced,     \* the guards that are older than a retired node's retirement
    holders,    \* history: the guards that are older than an erased node's erasure
    pc, op, arg,
    pred, succ, \* what the search has found
    extra,      \* insert's new node n, or erase's after
    res,        \* what the call is going to return
    seen        \* history of SetObject: what the call has witnessed of its key

fields == <<key, nextPtr, prevPtr, marked>>
memory == <<fields, where, graced, holders>>
vars == <<reclaims, memory, pc, op, arg, pred, succ, extra, res, seen>>

Places == Nodes \cup {Head, Tail}
Linked == {n \in Nodes : where[n] = "linked"}
Contents == {key[n] : n \in Linked}

At(t, label) == pc[t] = label
Goto(t, label) == pc' = [pc EXCEPT ![t] = label]

\* The constructors of the list; a free node's fields are whatever the memory holds.
Init ==
    /\ reclaims \in BOOLEAN
    /\ key = [n \in Places |-> -1]
    /\ nextPtr = [n \in Places |-> IF n = Head THEN Tail ELSE Null]
    /\ prevPtr = [n \in Places |-> IF n = Tail THEN Head ELSE Null]
    /\ marked = [n \in Places |-> FALSE]
    /\ where = [n \in Nodes |-> "free"]
    /\ graced = [n \in Nodes |-> {}]
    /\ holders = [n \in Nodes |-> {}]
    /\ pc = [t \in Threads |-> "idle"]
    /\ op = [t \in Threads |-> "none"]
    /\ arg = [t \in Threads |-> 0]
    /\ pred = [t \in Threads |-> Null]
    /\ succ = [t \in Threads |-> Null]
    /\ extra = [t \in Threads |-> Null]
    /\ res = [t \in Threads |-> "pending"]
    /\ seen = [t \in Threads |-> {}]

-----------------------------------------------------------------------------
\* A node for every insert that is under way: there are more of them than in the model.
Room ==
    Cardinality({t \in Threads : op[t] = "insert" /\ extra[t] = Null /\ res[t] = "pending"})
        < Cardinality({n \in Nodes : where[n] = "free"})

Call(t) ==
    /\ At(t, "idle")
    /\ \E o \in {"insert", "erase", "contains"}, k \in Keys :
          /\ o = "insert" => Room
          /\ op' = [op EXCEPT ![t] = o]
          /\ arg' = [arg EXCEPT ![t] = k]
    /\ Goto(t, "first")
    /\ UNCHANGED <<memory, pred, succ, extra, res>>

\* internalSearch starts at the head.
ReadFirst(t) ==
    /\ At(t, "first")
    /\ pred' = [pred EXCEPT ![t] = Head]
    /\ succ' = [succ EXCEPT ![t] = nextPtr[Head]]
    /\ Goto(t, "search")
    /\ UNCHANGED <<memory, op, arg, extra, res>>

\* The search ends at the tail or at the first key that is not smaller.
Found(t) == succ[t] = Tail \/ arg[t] <= key[succ[t]]

Advance(t) ==
    /\ At(t, "search") /\ ~Found(t)
    /\ pred' = [pred EXCEPT ![t] = succ[t]]
    /\ succ' = [succ EXCEPT ![t] = nextPtr[succ[t]]]
    /\ UNCHANGED <<memory, pc, op, arg, extra, res>>

\* The node found has the key; it may be erased by now.
Present(t) == succ[t] # Tail /\ key[succ[t]] = arg[t]

Searched(t, o) == At(t, "search") /\ Found(t) /\ op[t] = o

Answer(t, r) ==
    /\ res' = [res EXCEPT ![t] = r]
    /\ Goto(t, "return")
    /\ UNCHANGED <<memory, op, arg, pred, succ, extra>>

Contains(t) == Searched(t, "contains") /\ Answer(t, IF Present(t) THEN "true" ELSE "false")
InsertFindsKey(t) == Searched(t, "insert") /\ Present(t) /\ Answer(t, "false")
EraseFindsNone(t) == Searched(t, "erase") /\ ~Present(t) /\ Answer(t, "false")

InGuard == {t \in Threads : pc[t] # "idle"}

EndGuard(t) ==
    /\ graced' = [n \in Nodes |-> graced[n] \ {t}]
    /\ holders' = [n \in Nodes |-> holders[n] \ {t}]

\* The attempt has failed: its guard ends and the next one starts from the head.
Retry(t) ==
    /\ EndGuard(t)
    /\ Goto(t, "first")
    /\ pred' = [pred EXCEPT ![t] = Null]
    /\ succ' = [succ EXCEPT ![t] = Null]
    /\ extra' = [extra EXCEPT ![t] = Null]
    /\ UNCHANGED res

Succeed(t, label) ==
    /\ Goto(t, label)
    /\ res' = [res EXCEPT ![t] = "true"]
    /\ UNCHANGED <<pred, succ, extra, graced>>

-----------------------------------------------------------------------------
NewNode(t) ==
    /\ Searched(t, "insert") /\ ~Present(t)
    /\ \E n \in Nodes :
          /\ where[n] = "free"
          /\ where' = [where EXCEPT ![n] = "private"]
          /\ extra' = [extra EXCEPT ![t] = n]
          /\ key' = [key EXCEPT ![n] = arg[t]]
          /\ prevPtr' = [prevPtr EXCEPT ![n] = pred[t]]
          /\ nextPtr' = [nextPtr EXCEPT ![n] = succ[t]]
          /\ marked' = [marked EXCEPT ![n] = FALSE]
    /\ Goto(t, "insert")
    /\ UNCHANGED <<graced, holders, op, arg, pred, succ, res>>

\* The entries of the KCAS of insertIfAbsent.
InsertMatches(p, s) ==
    nextPtr[p] = s /\ ~marked[p] /\ prevPtr[s] = p /\ ~marked[s]

InsertWith(t, matches) ==
    LET p == pred[t]
        s == succ[t]
        n == extra[t]
    IN  /\ At(t, "insert")
        /\ IF matches
           THEN /\ nextPtr' = [nextPtr EXCEPT ![p] = n]
                /\ prevPtr' = [prevPtr EXCEPT ![s] = n]
                /\ where' = [where EXCEPT ![n] = "linked"]
                /\ Succeed(t, "return")
                /\ UNCHANGED holders
           ELSE /\ where' = [where EXCEPT ![n] = "free"]
                /\ Retry(t)
                /\ UNCHANGED <<nextPtr, prevPtr>>
        /\ UNCHANGED <<key, marked, op, arg>>

\* A plausible slip: a compare-and-swap of pred's next pointer only.
InsertByNext(t) == InsertWith(t, nextPtr[pred[t]] = succ[t])

\* A plausible slip: a KCAS that fails is repeated as it is, without a new search.
InsertTriesAgain(t) ==
    /\ At(t, "insert") /\ InsertMatches(pred[t], succ[t])
    /\ InsertWith(t, TRUE)

\* A node that could not be inserted has been seen by nobody and is deallocated.
Insert(t) == InsertWith(t, InsertMatches(pred[t], succ[t]))

-----------------------------------------------------------------------------
ReadAfter(t) ==
    /\ Searched(t, "erase") /\ Present(t)
    /\ extra' = [extra EXCEPT ![t] = nextPtr[succ[t]]]
    /\ Goto(t, "erase")
    /\ UNCHANGED <<memory, op, arg, pred, succ, res>>

\* The entries of the KCAS of erase: succ's next pointer is not among them.
EraseMatches(p, s, a) ==
    nextPtr[p] = s /\ ~marked[p] /\ ~marked[s] /\ ~marked[a] /\ prevPtr[a] = s

EraseWith(t, matches) ==
    LET p == pred[t]
        s == succ[t]
        a == extra[t]
    IN  /\ At(t, "erase")
        /\ IF matches
           THEN /\ nextPtr' = [nextPtr EXCEPT ![p] = a]
                /\ prevPtr' = [prevPtr EXCEPT ![a] = p]
                /\ marked' = [marked EXCEPT ![s] = TRUE]
                /\ where' = [where EXCEPT ![s] = "erased"]
                /\ holders' = [holders EXCEPT ![s] = InGuard]
                /\ Succeed(t, IF reclaims THEN "retire" ELSE "return")
           ELSE Retry(t) /\ UNCHANGED <<nextPtr, prevPtr, marked, where>>
        /\ UNCHANGED <<key, op, arg>>

\* A plausible slip: after is not looked at.
EraseByNext(t) ==
    EraseWith(t, nextPtr[pred[t]] = succ[t] /\ ~marked[pred[t]] /\ ~marked[succ[t]])

\* A plausible slip: after may have been erased.
EraseTrustsAfter(t) ==
    EraseWith(t, /\ nextPtr[pred[t]] = succ[t] /\ ~marked[pred[t]] /\ ~marked[succ[t]]
                 /\ prevPtr[extra[t]] = succ[t])

Erase(t) == EraseWith(t, EraseMatches(pred[t], succ[t], extra[t]))

\* A plausible slip: deallocate instead of retire.
RetireAtOnce(t) ==
    /\ At(t, "retire")
    /\ where' = [where EXCEPT ![succ[t]] = "free"]
    /\ Goto(t, "return")
    /\ UNCHANGED <<fields, graced, holders, op, arg, pred, succ, extra, res>>

Retire(t) ==
    /\ At(t, "retire")
    /\ where' = [where EXCEPT ![succ[t]] = "retired"]
    /\ graced' = [graced EXCEPT ![succ[t]] = InGuard]
    /\ Goto(t, "return")
    /\ UNCHANGED <<fields, holders, op, arg, pred, succ, extra, res>>

\* The call returns, and its guard ends.
Return(t) ==
    /\ At(t, "return")
    /\ Goto(t, "idle")
    /\ op' = [op EXCEPT ![t] = "none"]
    /\ arg' = [arg EXCEPT ![t] = 0]
    /\ pred' = [pred EXCEPT ![t] = Null]
    /\ succ' = [succ EXCEPT ![t] = Null]
    /\ extra' = [extra EXCEPT ![t] = Null]
    /\ res' = [res EXCEPT ![t] = "pending"]
    /\ EndGuard(t)
    /\ UNCHANGED <<fields, where>>

\* The reclaimer frees a node.
Free(n) ==
    /\ where[n] = "retired" /\ graced[n] = {}
    /\ where' = [where EXCEPT ![n] = "free"]
    /\ UNCHANGED <<fields, graced, holders, pc, op, arg, pred, succ, extra, res>>

-----------------------------------------------------------------------------
Work(t) ==
    \/ ReadFirst(t) \/ Advance(t) \/ Contains(t) \/ InsertFindsKey(t) \/ EraseFindsNone(t)
    \/ NewNode(t) \/ Insert(t) \/ ReadAfter(t) \/ Erase(t) \/ Retire(t) \/ Return(t)

Status == [t \in Threads |-> IF pc[t] = "idle" THEN "idle" ELSE res[t]]

Set == INSTANCE SetObject WITH
    contents <- Contents, refused <- {}, key <- arg, status <- Status

Record == UNCHANGED reclaims /\ seen' = [t \in Threads |-> Set!Observe(t)]

CallStep(t) == Call(t) /\ Record
WorkStep(t) == Work(t) /\ Record
FreeStep(n) == Free(n) /\ Record

Next == \/ \E t \in Threads : CallStep(t) \/ WorkStep(t)
        \/ \E n \in Nodes : FreeStep(n)

Spec == Init /\ [][Next]_vars

\* A thread inside a call is scheduled again and again; nothing makes it call.
FairSpec == Spec /\ \A t \in Threads : WF_vars(WorkStep(t))

-----------------------------------------------------------------------------
Pointers == Places \cup {Null}

TypeOK ==
    /\ reclaims \in BOOLEAN
    /\ key \in [Places -> Keys \cup {-1}] /\ marked \in [Places -> BOOLEAN]
    /\ nextPtr \in [Places -> Pointers] /\ prevPtr \in [Places -> Pointers]
    /\ where \in [Nodes -> {"free", "private", "linked", "erased", "retired"}]
    /\ graced \in [Nodes -> SUBSET Threads] /\ holders \in [Nodes -> SUBSET Threads]
    /\ pc \in [Threads -> {"idle", "first", "search", "insert", "erase", "retire", "return"}]
    /\ op \in [Threads -> {"none", "insert", "erase", "contains"}]
    /\ arg \in [Threads -> Keys \cup {0}]
    /\ pred \in [Threads -> Nodes \cup {Head, Null}]
    /\ succ \in [Threads -> Nodes \cup {Tail, Null}]
    /\ \A t \in Threads : At(t, "search") => succ[t] # Null
    /\ extra \in [Threads -> Nodes \cup {Tail, Null}]
    /\ res \in [Threads -> {"pending", "true", "false"}]
    /\ seen \in [Threads -> SUBSET BOOLEAN]

\* From head to tail the list is one chain in the order of the keys, the same read backwards,
\* and no node of it is marked (doubly_linked_list_kcas.h:122-126, 162-169).
WellLinked ==
    /\ \A n \in Linked \cup {Head} :
          /\ nextPtr[n] \in Linked \cup {Tail}
          /\ prevPtr[nextPtr[n]] = n
          /\ nextPtr[n] # Tail => key[n] < key[nextPtr[n]]
          /\ ~marked[n]
    /\ \A n \in Linked \cup {Tail} :
          prevPtr[n] \in Linked \cup {Head} /\ nextPtr[prevPtr[n]] = n

\* A thread that is on a node when it is erased still finds its way: an erased node's next
\* pointer never changes until the node is freed, and its mark is never taken back
\* (doubly_linked_list_kcas.h:123, 163-168, 227).
ErasedIsFrozen ==
    [][\A n \in Nodes :
          where[n] \in {"erased", "retired"} =>
              nextPtr'[n] = nextPtr[n] /\ marked'[n]]_vars

\* No call follows a pointer to a node that has been freed, and no new node takes the place
\* of one that a call is looking at (doubly_linked_list_kcas_reclaim.h:106, 147, 177).
NoDanglingPointer ==
    \A t \in Threads :
        /\ {pred[t], succ[t]} \cap {n \in Nodes : where[n] \in {"free", "private"}} = {}
        /\ op[t] = "erase" => extra[t] \notin {n \in Nodes : where[n] \in {"free", "private"}}

\* contains, insertIfAbsent and erase are linearizable: a call that answers from an erased
\* node tells what was true while it searched (doubly_linked_list_kcas.h:82-180,
\* doubly_linked_list_kcas_reclaim.h:91-183).
Linearizable == Set!Spec

\* The lists are lock-free: as long as somebody is in a call, calls return; and contains
\* always does (doubly_linked_list_kcas.h:95, 146, 221).
CallsReturn ==
    /\ (\E t \in Threads : pc[t] # "idle") ~> (\E t \in Threads : At(t, "return"))
    /\ \A t \in Threads : op[t] = "contains" ~> op[t] # "contains"
=============================================================================
