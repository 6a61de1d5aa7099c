------------------------------- MODULE KcasTree -------------------------------
(***************************************************************************)
(* The external binary search trees of a6: external_tree_kcas_reclaim.h,   *)
(* which retires an erased node, and external_tree_kcas.h, which is the    *)
(* same tree without the guards, and in which Free never happens.  The     *)
(* keys of the set are in the leaves; an internal node has two children,   *)
(* and keys up to its own are on the left.  Reading a child and execute    *)
(* are the atomic ones of AtomicKcas: one step each.                       *)
(*                                                                         *)
(* Reclamation is what Debra promises: a retired node is freed at some     *)
(* time after the guards that were alive when it was retired.              *)
(***************************************************************************)
EXTENDS Integers, FiniteSets

CONSTANTS
    Threads,
    MinKey, MaxKey,
    Calls,              \* the calls that are made: <<operation, key>>
    Leaves, Internals,  \* addresses for the nodes of either type; a model bound, see Room
    Root, Low, High,    \* the internal node and the leaves of the constructor
    Null,
    Allocator(_)        \* which of these free nodes allocate may return

ASSUME TreeAssumption ==
    /\ MinKey \in Nat \ {0} /\ MaxKey \in Nat /\ MinKey <= MaxKey
    /\ Calls \subseteq {"insert", "erase", "contains"} \X (MinKey .. MaxKey)
    /\ Cardinality({Root, Low, High, Null}) = 4
    /\ {Root, Low, High, Null} \cap (Leaves \cup Internals) = {}
    /\ Leaves \cap Internals = {}
    /\ IsFiniteSet(Leaves) /\ IsFiniteSet(Internals) /\ IsFiniteSet(Threads)
    /\ \A S \in (SUBSET Leaves) \cup (SUBSET Internals) :
          Allocator(S) \subseteq S /\ (S # {} => Allocator(S) # {})

VARIABLES
    key, child, marked, \* the fields of the nodes
    where,      \* each node: "free", "linked", "erased" or "retired"
    graced,     \* the guards that are older than a retired node's retirement
    pc, op, arg,
    gp, p, n,   \* what the search has found: grandparent, parent, node
    sibling,    \* erase's pOther
    res,        \* what the call is going to return
    seen        \* history of SetObject: what the call has witnessed of its key

fields == <<key, child, marked>>
memory == <<fields, where, graced>>
path == <<gp, p, n>>
locals == <<path, sibling, res>>
vars == <<memory, pc, op, arg, locals, seen>>

Keys == MinKey .. MaxKey
Nodes == Leaves \cup Internals
Places == Nodes \cup {Root, Low, High}
Linked == {m \in Nodes : where[m] = "linked"}
Gone == {m \in Nodes : where[m] = "free"}

NoChildren == [d \in {0, 1} |-> Null]
isLeaf(m) == m \in Leaves \cup {Low, High}
Contents == {key[m] : m \in Linked \cap Leaves}

\* The child of a node with key x on the side of key k.
Direction(k, x) == IF k > x THEN 1 ELSE 0

At(t, label) == pc[t] = label
Goto(t, label) == pc' = [pc EXCEPT ![t] = label]

Init ==
    /\ key = [m \in Places |-> IF m \in {Root, Low} THEN MinKey - 1
                               ELSE IF m = High THEN MaxKey + 1 ELSE -1]
    /\ child = [m \in Places |->
                  IF m = Root THEN [d \in {0, 1} |-> IF d = 0 THEN Low ELSE High] ELSE NoChildren]
    /\ marked = [m \in Places |-> FALSE]
    /\ where = [m \in Nodes |-> "free"]
    /\ graced = [m \in Nodes |-> {}]
    /\ pc = [t \in Threads |-> "idle"]
    /\ op = [t \in Threads |-> "none"]
    /\ arg = [t \in Threads |-> 0]
    /\ gp = [t \in Threads |-> Null]
    /\ p = [t \in Threads |-> Null]
    /\ n = [t \in Threads |-> Null]
    /\ sibling = [t \in Threads |-> Null]
    /\ res = [t \in Threads |-> "pending"]
    /\ seen = [t \in Threads |-> {}]

-----------------------------------------------------------------------------
Unused(pool) == {m \in pool : where[m] = "free"}

\* Two nodes for every insert that is under way: there are more of them than in the model.
Room ==
    LET needed == {t \in Threads : op[t] = "insert" /\ res[t] = "pending"}
    IN  \A pool \in {Leaves, Internals} : Cardinality(needed) < Cardinality(Unused(pool))

Forget(t) ==
    /\ gp' = [gp EXCEPT ![t] = Null]
    /\ p' = [p EXCEPT ![t] = Null]
    /\ sibling' = [sibling EXCEPT ![t] = Null]

\* search starts at the root, which never changes.
StartSearch(t) ==
    /\ Goto(t, "search")
    /\ Forget(t)
    /\ n' = [n EXCEPT ![t] = Root]
    /\ UNCHANGED res

Call(t) ==
    /\ At(t, "idle")
    /\ \E c \in Calls :
          /\ c[1] = "insert" => Room
          /\ op' = [op EXCEPT ![t] = c[1]]
          /\ arg' = [arg EXCEPT ![t] = c[2]]
    /\ StartSearch(t)
    /\ UNCHANGED memory

Descend(t) ==
    /\ At(t, "search") /\ ~isLeaf(n[t])
    /\ gp' = [gp EXCEPT ![t] = p[t]]
    /\ p' = [p EXCEPT ![t] = n[t]]
    /\ n' = [n EXCEPT ![t] = child[n[t]][Direction(arg[t], key[n[t]])]]
    /\ UNCHANGED <<memory, pc, op, arg, sibling, res>>

Searched(t, o) == At(t, "search") /\ isLeaf(n[t]) /\ op[t] = o

\* The leaf found has the key; it may be erased by now.
Present(t) == key[n[t]] = arg[t]

\* The call is about to return: it looks at no node any more.
Leave(t) ==
    /\ Goto(t, "return")
    /\ Forget(t)
    /\ n' = [n EXCEPT ![t] = Null]

Answer(t, r) ==
    /\ res' = [res EXCEPT ![t] = r]
    /\ Leave(t)
    /\ UNCHANGED <<memory, op, arg>>

Contains(t) == Searched(t, "contains") /\ Answer(t, IF Present(t) THEN "true" ELSE "false")
InsertFindsKey(t) == Searched(t, "insert") /\ Present(t) /\ Answer(t, "false")
EraseFindsNone(t) == Searched(t, "erase") /\ ~Present(t) /\ Answer(t, "false")

-----------------------------------------------------------------------------
\* The entries of the KCAS of insertIfAbsent.
InsertMatches(t) ==
    /\ ~marked[p[t]] /\ ~marked[n[t]]
    /\ child[p[t]][Direction(arg[t], key[p[t]])] = n[t]

\* The new leaf l and the new internal node i, which has the smaller of the two keys and the
\* leaves in their order.  Nobody sees them before the KCAS, so that allocating them,
\* constructing them and, if the KCAS fails, deallocating them is part of its step.
Link(t, l, i) ==
    LET k == arg[t]
        x == key[n[t]]
    IN  /\ key' = [key EXCEPT ![l] = k, ![i] = IF k < x THEN k ELSE x]
        /\ child' = [child EXCEPT
                        ![i] = [d \in {0, 1} |-> IF (d = 0) = (k < x) THEN l ELSE n[t]],
                        ![p[t]][Direction(k, key[p[t]])] = i]
        /\ where' = [where EXCEPT ![l] = "linked", ![i] = "linked"]

InsertWith(t, matches) ==
    /\ Searched(t, "insert") /\ ~Present(t)
    /\ IF matches
       THEN /\ \E l \in Allocator(Unused(Leaves)), i \in Allocator(Unused(Internals)) : Link(t, l, i)
            /\ res' = [res EXCEPT ![t] = "true"]
            /\ Leave(t)
       ELSE StartSearch(t) /\ UNCHANGED <<key, child, where>>
    /\ UNCHANGED <<marked, graced, op, arg>>

\* A plausible slip: a compare-and-swap of p's child only, which may be erased.
InsertByChild(t) == InsertWith(t, child[p[t]][Direction(arg[t], key[p[t]])] = n[t])

\* A plausible slip: the KCAS that fails is repeated as it is.
InsertTriesAgain(t) == Searched(t, "insert") /\ InsertMatches(t) /\ InsertWith(t, TRUE)

Insert(t) == InsertWith(t, InsertMatches(t))

-----------------------------------------------------------------------------
\* Where the KCAS of erase looks and swings: n below p, and p below gp.
nDir(t) == Direction(key[n[t]], key[p[t]])
pDir(t) == Direction(key[p[t]], key[gp[t]])

ReadSibling(t) ==
    /\ Searched(t, "erase") /\ Present(t)
    /\ sibling' = [sibling EXCEPT ![t] = child[p[t]][1 - nDir(t)]]
    /\ Goto(t, "erase")
    /\ UNCHANGED <<memory, op, arg, path, res>>

\* The entries of the KCAS of erase that are about gp, p and n.
EraseMatchesPath(t) ==
    /\ child[gp[t]][pDir(t)] = p[t] /\ child[p[t]][nDir(t)] = n[t]
    /\ ~marked[gp[t]] /\ ~marked[p[t]] /\ ~marked[n[t]]

EraseWith(t, matches) ==
    /\ At(t, "erase")
    /\ IF matches
       THEN /\ child' = [child EXCEPT ![gp[t]][pDir(t)] = sibling[t]]
            /\ marked' = [marked EXCEPT ![n[t]] = TRUE, ![p[t]] = TRUE]
            /\ where' = [where EXCEPT ![n[t]] = "erased", ![p[t]] = "erased"]
            /\ res' = [res EXCEPT ![t] = "true"]
            /\ Goto(t, "retire")
            /\ UNCHANGED <<path, sibling>>
       ELSE StartSearch(t) /\ UNCHANGED <<child, marked, where>>
    /\ UNCHANGED <<key, graced, op, arg>>

\* A plausible slip: without the entry marked "extra" in the source.
EraseTrustsSibling(t) == EraseWith(t, EraseMatchesPath(t))

\* A plausible slip: gp's mark is not looked at.
EraseTrustsGrandparent(t) ==
    EraseWith(t, /\ child[gp[t]][pDir(t)] = p[t] /\ child[p[t]][nDir(t)] = n[t]
                 /\ ~marked[p[t]] /\ ~marked[n[t]]
                 /\ child[p[t]][1 - nDir(t)] = sibling[t])

Erase(t) ==
    EraseWith(t, EraseMatchesPath(t) /\ child[p[t]][1 - nDir(t)] = sibling[t])

InGuard == {t \in Threads : pc[t] # "idle"}

\* What the fields of a free node hold is nobody's business.
MakeFree(ms) ==
    /\ where' = [m \in Nodes |-> IF m \in ms THEN "free" ELSE where[m]]
    /\ key' = [m \in Places |-> IF m \in ms THEN -1 ELSE key[m]]
    /\ child' = [m \in Places |-> IF m \in ms THEN NoChildren ELSE child[m]]
    /\ marked' = [m \in Places |-> IF m \in ms THEN FALSE ELSE marked[m]]

\* A plausible slip: deallocate instead of retire.
RetireAtOnce(t) ==
    /\ At(t, "retire")
    /\ MakeFree({n[t], p[t]})
    /\ Leave(t)
    /\ UNCHANGED <<graced, op, arg, res>>

\* Both nodes go to the bag of the epoch, and wait for the guards there are.
Retire(t) ==
    /\ At(t, "retire")
    /\ where' = [where EXCEPT ![n[t]] = "retired", ![p[t]] = "retired"]
    /\ graced' = [graced EXCEPT ![n[t]] = InGuard, ![p[t]] = InGuard]
    /\ Leave(t)
    /\ UNCHANGED <<fields, op, arg, res>>

\* The call returns; the guard it has had from the beginning ends.
Return(t) ==
    /\ At(t, "return")
    /\ Goto(t, "idle")
    /\ op' = [op EXCEPT ![t] = "none"]
    /\ arg' = [arg EXCEPT ![t] = 0]
    /\ res' = [res EXCEPT ![t] = "pending"]
    /\ graced' = [m \in Nodes |-> graced[m] \ {t}]
    /\ UNCHANGED <<fields, where, path, sibling>>

\* The reclaimer frees a node.
Free(m) ==
    /\ where[m] = "retired" /\ graced[m] = {}
    /\ MakeFree({m})
    /\ UNCHANGED <<graced, pc, op, arg, locals>>

-----------------------------------------------------------------------------
Work(t) ==
    \/ Descend(t) \/ Contains(t) \/ InsertFindsKey(t) \/ EraseFindsNone(t)
    \/ Insert(t) \/ ReadSibling(t) \/ Erase(t)
    \/ Retire(t) \/ Return(t)

Status == [t \in Threads |-> IF pc[t] = "idle" THEN "idle" ELSE res[t]]

Set == INSTANCE SetObject WITH
    contents <- Contents, refused <- {}, key <- arg, status <- Status

Record == seen' = [t \in Threads |-> Set!Observe(t)]

CallStep(t) == Call(t) /\ Record
WorkStep(t) == Work(t) /\ Record
FreeStep(m) == Free(m) /\ Record

Next == \/ \E t \in Threads : CallStep(t) \/ WorkStep(t)
        \/ \E m \in Nodes : FreeStep(m)

Spec == Init /\ [][Next]_vars

\* A thread inside a call is scheduled again and again; nothing makes it call.
FairSpec == Spec /\ \A t \in Threads : WF_vars(WorkStep(t))

-----------------------------------------------------------------------------
Pointers == Places \cup {Null}

TypeOK ==
    /\ key \in [Places -> -1 .. MaxKey + 1] /\ marked \in [Places -> BOOLEAN]
    /\ child \in [Places -> [{0, 1} -> Pointers]]
    /\ where \in [Nodes -> {"free", "linked", "erased", "retired"}]
    /\ graced \in [Nodes -> SUBSET Threads]
    /\ pc \in [Threads -> {"idle", "search", "erase", "retire", "return"}]
    /\ op \in [Threads -> {"none", "insert", "erase", "contains"}]
    /\ arg \in [Threads -> Keys \cup {0}]
    /\ gp \in [Threads -> Pointers] /\ p \in [Threads -> Pointers]
    /\ n \in [Threads -> Pointers] /\ sibling \in [Threads -> Pointers]
    /\ \A t \in Threads : At(t, "search") => n[t] # Null
    /\ res \in [Threads -> {"pending", "true", "false"}]
    /\ seen \in [Threads -> SUBSET BOOLEAN]

\* The walk of a search for key k, one node after the other.
Walk(k) ==
    LET step[i \in 0 .. Cardinality(Nodes) + 1] ==
            IF i = 0 THEN Root
            ELSE LET m == step[i - 1]
                 IN  IF isLeaf(m) THEN m ELSE child[m][Direction(k, key[m])]
    IN  step

\* Where a search for k that nobody interferes with ends.
Leaf(k) == Walk(k)[Cardinality(Nodes) + 1]

\* The tree is a search tree: a search for a key meets nodes of the tree only, none of them
\* marked, and ends at a leaf, with the key if the set has it; and that leaf has a
\* grandparent, which erase dereferences (external_tree_kcas.h:126-130, 165, 174-185, 203-222).
SearchTree ==
    \A k \in Keys :
        /\ \A i \in DOMAIN Walk(k) :
              Walk(k)[i] \in Linked \cup {Root, Low, High} /\ ~marked[Walk(k)[i]]
        /\ isLeaf(Leaf(k))
        /\ k \in Contents <=> key[Leaf(k)] = k
        /\ k \in Contents => ~isLeaf(Walk(k)[1])

\* A node that leaves the tree is frozen: its children stay what they were, so that a search
\* that is on it finds its way, until the reclaimer frees it
\* (external_tree_kcas.h:126, 180-185, external_tree_kcas_reclaim.h:158, 216-221).
ErasedIsFrozen ==
    [][\A m \in Nodes :
          where[m] \in {"erased", "retired"} /\ where'[m] # "free" =>
              child'[m] = child[m] /\ marked'[m]]_vars

\* No call holds a node that has been freed, and no new node takes the place of one that a
\* call is looking at (external_tree_kcas_reclaim.h:116, 131, 179, 226-227).
NoDanglingPointer ==
    \A t \in Threads : {gp[t], p[t], n[t], sibling[t]} \cap Gone = {}

\* contains, insertIfAbsent and erase are linearizable: a call that answers from an erased
\* leaf tells what was true while it searched (external_tree_kcas.h:85-201,
\* external_tree_kcas_reclaim.h:114-238).
Linearizable == Set!Spec

\* The trees are lock-free: as long as somebody is in a call, calls return
\* (external_tree_kcas.h:87, 101, 145, 212).
CallsReturn == (\E t \in Threads : ~At(t, "idle")) ~> (\E t \in Threads : At(t, "return"))
=============================================================================
