------------------------------ MODULE ElidedTree ------------------------------
(***************************************************************************)
(* The external search trees of a7 with an elided lock: tree.h, and        *)
(* tree_prealloc_internal.h, whose inserts allocate their two nodes before *)
(* they search, and lose them when they find their key.  A call tries a    *)
(* transaction.  When it aborts, for whatever reason, the thread waits     *)
(* until it sees the lock free and tries again, MAX_RETRIES times; then it *)
(* acquires the lock and works on the nodes in place.                      *)
(*                                                                         *)
(* The transactions are those of the hardware (external): one that commits *)
(* has read and written everything at one instant.  In particular the lock *)
(* it found free is free then.  What the holder of the lock does is one    *)
(* step for each access to memory that others read.                        *)
(***************************************************************************)
EXTENDS BenchmarkCalls

CONSTANTS
    MAX_RETRIES,
    Addresses,      \* of nodes, numbers; a model bound, see the allocator
    Root, Low, High

ASSUME ElidedTreeAssumption ==
    /\ MAX_RETRIES \in Nat \ {0}
    /\ Addresses \subseteq Nat /\ IsFiniteSet(Addresses)
    /\ Cardinality({Root, Low, High, NULL}) = 4
    /\ {Root, Low, High, NULL} \cap Addresses = {}

VARIABLES
    prealloc,           \* which of the two trees it is
    key, left, right,   \* the fields of the nodes
    used,               \* the addresses of the nodes that have been linked and not deleted
    linked,             \* and of those that have not been unlinked either
    newLeaf,            \* the nodes that an insert of the prealloc tree has allocated (leaf and
    newInternal,        \*   internal) and has not linked; NULL when there are none
    lost,               \* the addresses of the nodes that nobody has a pointer to, for ever in use
    lock,               \* who holds bstLock
    retries,            \* retriesRemaining
    gp, p, n            \* what the search of the lock's holder has found

nodeVars == <<key, left, right, used, linked>>
newVars == <<newLeaf, newInternal, lost>>
pathVars == <<gp, p, n>>
treeVars == <<prealloc, nodeVars, newVars, lock, retries, pathVars>>

Places == Addresses \cup {Root, Low, High}
isLeaf(m) == left[m] = NULL
Child(m, k) == IF k < key[m] THEN left[m] ELSE right[m]

TreeInit ==
    /\ key = [m \in Places |-> IF m \in {Root, Low} THEN MinKey - 1
                               ELSE IF m = High THEN MaxKey + 1 ELSE 0]
    /\ left = [m \in Places |-> IF m = Root THEN Low ELSE NULL]
    /\ right = [m \in Places |-> IF m = Root THEN High ELSE NULL]
    /\ used = {} /\ linked = {} /\ lost = {}
    /\ newLeaf = [t \in Threads |-> NULL]
    /\ newInternal = [t \in Threads |-> NULL]
    /\ lock = NoThread
    /\ retries = [t \in Threads |-> MAX_RETRIES]
    /\ gp = [t \in Threads |-> NULL]
    /\ p = [t \in Threads |-> NULL]
    /\ n = [t \in Threads |-> NULL]

\* The longest path there can be.
Depth == Cardinality(Addresses) + 1

AndChildren(ms) == (ms \cup {left[m] : m \in ms} \cup {right[m] : m \in ms}) \ {NULL}

\* The nodes that can be reached from the root.
Reachable ==
    LET within[i \in 0 .. Depth] == IF i = 0 THEN {Root} ELSE AndChildren(within[i - 1])
    IN  within[Depth]

TreeKeys == {key[m] : m \in {l \in linked : isLeaf(l)}}

\* SearchRecord: the last three nodes of a search.
SearchRecords == (Places \cup {NULL}) \X (Places \cup {NULL}) \X Places

\* What search returns, if nobody interferes.
Search(k) ==
    LET deeper[rec \in SearchRecords] ==
            IF isLeaf(rec[3]) THEN rec ELSE <<rec[2], rec[3], Child(rec[3], k)>>
        walk[i \in 0 .. Depth] == IF i = 0 THEN <<NULL, NULL, Root>> ELSE deeper[walk[i - 1]]
    IN  walk[Depth]

-----------------------------------------------------------------------------
Brought(t) == {newLeaf[t], newInternal[t]} \ {NULL}
Unused == Addresses \ (used \cup lost \cup UNION {Brought(t) : t \in Threads})

\* The allocator returns an address that is not in use; which one does not matter.
Fresh == CHOOSE two \in Unused \X Unused :
            /\ \A m \in Unused : two[1] <= m
            /\ two[1] # two[2] /\ \A m \in Unused : m # two[1] => two[2] <= m

\* A call begins.  An insert of the prealloc tree allocates its nodes, whether it will need them or
\* not; nobody sees their fields before they are linked, and written again.
TreeCall(t) ==
    LET brings == prealloc /\ op'[t] = "insert"
    IN  /\ brings => Cardinality(Unused) >= 2
        /\ newLeaf' = IF brings THEN [newLeaf EXCEPT ![t] = Fresh[1]] ELSE newLeaf
        /\ newInternal' = IF brings THEN [newInternal EXCEPT ![t] = Fresh[2]] ELSE newInternal
        /\ UNCHANGED <<prealloc, nodeVars, lost, lock, retries, pathVars>>

\* The key of a new internal node over the leaves with keys x and k.
InternalKey(k, x) == IF k < x THEN x ELSE IF prealloc THEN x ELSE k

\* sequentialInsertIfAbsent where the search has led to m below q: the new leaf and the new
\* internal node take m's place.
Link(t, k, q, m) ==
    LET l == IF prealloc THEN newLeaf[t] ELSE Fresh[1]
        i == IF prealloc THEN newInternal[t] ELSE Fresh[2]
    IN  /\ ~prealloc => Cardinality(Unused) >= 2
        /\ newLeaf' = [newLeaf EXCEPT ![t] = NULL]
        /\ newInternal' = [newInternal EXCEPT ![t] = NULL]
        /\ used' = used \cup {l, i} /\ linked' = linked \cup {l, i}
        /\ key' = [key EXCEPT ![l] = k, ![i] = InternalKey(k, key[m])]
        /\ left' = [left EXCEPT ![l] = NULL, ![i] = IF k < key[m] THEN l ELSE m,
                                ![q] = IF left[q] = m THEN i ELSE @]
        /\ right' = [right EXCEPT ![l] = NULL, ![i] = IF k < key[m] THEN m ELSE l,
                                  ![q] = IF left[q] = m THEN @ ELSE i]

\* sequentialErase, up to the deletes: m's sibling takes the place of m's parent q below g.
Unlink(g, q, m) ==
    LET sibling == IF left[q] = m THEN right[q] ELSE left[q]
    IN  /\ linked' = linked \ {q, m}
        /\ IF left[g] = q
           THEN left' = [left EXCEPT ![g] = sibling] /\ UNCHANGED right
           ELSE right' = [right EXCEPT ![g] = sibling] /\ UNCHANGED left

-----------------------------------------------------------------------------
\* A plausible slip: the transaction does not look at the lock.
TransactionIgnoresLock(t) == At(t, "begin")

\* A transaction that commits has found the lock free.
Transaction(t) == At(t, "begin") /\ lock = NoThread

Finds(t) == key[Search(arg[t])[3]] = arg[t]

TreeLooks(t) ==
    /\ Transaction(t)
    /\ \/ op[t] = "contains" /\ Answer(t, IF Finds(t) THEN "true" ELSE "false", "return")
       \/ op[t] = "insert" /\ Finds(t) /\ Answer(t, "false", "return")
       \/ op[t] = "erase" /\ ~Finds(t) /\ Answer(t, "false", "return")
    /\ UNCHANGED treeVars

TreeInserts(t) ==
    LET rec == Search(arg[t])
    IN  /\ Transaction(t) /\ op[t] = "insert" /\ ~Finds(t)
        /\ Link(t, arg[t], rec[2], rec[3])
        /\ Answer(t, "true", "return")
        /\ UNCHANGED <<prealloc, lost, lock, retries, pathVars>>

TreeErases(t) ==
    LET rec == Search(arg[t])
    IN  /\ Transaction(t) /\ op[t] = "erase" /\ Finds(t)
        /\ Unlink(rec[1], rec[2], rec[3])
        /\ used' = used \ {rec[2], rec[3]}
        /\ Answer(t, "true", "return")
        /\ UNCHANGED <<prealloc, key, newVars, lock, retries, pathVars>>

\* A transaction may abort at any time; it does when the lock is taken.
Abort(t) ==
    /\ At(t, "begin")
    /\ Goto(t, "wait")
    /\ UNCHANGED <<op, arg, res, treeVars>>

\* A plausible slip: the retries are not counted.
RetryForever(t) ==
    /\ At(t, "wait") /\ lock = NoThread
    /\ Goto(t, "begin")
    /\ UNCHANGED <<op, arg, res, treeVars>>

Retry(t) ==
    /\ At(t, "wait") /\ lock = NoThread
    /\ retries' = [retries EXCEPT ![t] = @ - 1]
    /\ Goto(t, IF retries[t] - 1 > 0 THEN "begin" ELSE "acquire")
    /\ UNCHANGED <<op, arg, res, prealloc, nodeVars, newVars, lock, pathVars>>

\* tryAcquire succeeds: the lock was free when it was read, and when it was swapped.
Acquire(t) ==
    /\ At(t, "acquire") /\ lock = NoThread
    /\ lock' = t
    /\ gp' = [gp EXCEPT ![t] = NULL]
    /\ p' = [p EXCEPT ![t] = NULL]
    /\ n' = [n EXCEPT ![t] = Root]
    /\ Goto(t, "search")
    /\ UNCHANGED <<op, arg, res, prealloc, nodeVars, newVars, retries>>

Descend(t) ==
    /\ At(t, "search") /\ ~isLeaf(n[t])
    /\ gp' = [gp EXCEPT ![t] = p[t]]
    /\ p' = [p EXCEPT ![t] = n[t]]
    /\ n' = [n EXCEPT ![t] = Child(n[t], arg[t])]
    /\ UNCHANGED <<callVars, prealloc, nodeVars, newVars, lock, retries>>

Searched(t, o) == At(t, "search") /\ isLeaf(n[t]) /\ op[t] = o
Present(t) == key[n[t]] = arg[t]

LockedLooks(t) ==
    /\ \/ /\ Searched(t, "contains")
          /\ Answer(t, IF Present(t) THEN "true" ELSE "false", "release")
       \/ Searched(t, "insert") /\ Present(t) /\ Answer(t, "false", "release")
       \/ Searched(t, "erase") /\ ~Present(t) /\ Answer(t, "false", "release")
    /\ UNCHANGED treeVars

\* The new nodes are written before the pointer that leads to them.
LockedInsert(t) ==
    /\ Searched(t, "insert") /\ ~Present(t)
    /\ Link(t, arg[t], p[t], n[t])
    /\ Answer(t, "true", "release")
    /\ UNCHANGED <<prealloc, lost, lock, retries, pathVars>>

LockedErase(t) ==
    /\ Searched(t, "erase") /\ Present(t)
    /\ Unlink(gp[t], p[t], n[t])
    /\ Answer(t, "true", "delete p")
    /\ UNCHANGED <<prealloc, key, used, newVars, lock, retries, pathVars>>

Delete(t, here, m, next) ==
    /\ At(t, here)
    /\ used' = used \ {m}
    /\ Goto(t, next)
    /\ UNCHANGED <<op, arg, res, prealloc, key, left, right, linked, newVars, lock, retries, pathVars>>

DeleteParent(t) == Delete(t, "delete p", p[t], "delete n")
DeleteLeaf(t) == Delete(t, "delete n", n[t], "release")

Release(t) ==
    /\ At(t, "release")
    /\ lock' = NoThread
    /\ gp' = [gp EXCEPT ![t] = NULL]
    /\ p' = [p EXCEPT ![t] = NULL]
    /\ n' = [n EXCEPT ![t] = NULL]
    /\ Goto(t, "return")
    /\ UNCHANGED <<op, arg, res, prealloc, nodeVars, newVars, retries>>

\* With the call's variables goes the only pointer to the nodes that an insert has not linked.
TreeReturn(t) ==
    /\ Return(t)
    /\ lost' = lost \cup Brought(t)
    /\ newLeaf' = [newLeaf EXCEPT ![t] = NULL]
    /\ newInternal' = [newInternal EXCEPT ![t] = NULL]
    /\ retries' = [retries EXCEPT ![t] = MAX_RETRIES]
    /\ UNCHANGED <<prealloc, nodeVars, lock, pathVars>>

TreeWork(t) ==
    \/ TreeLooks(t) \/ TreeInserts(t) \/ TreeErases(t)
    \/ Abort(t) \/ Retry(t) \/ Acquire(t) \/ Descend(t)
    \/ LockedLooks(t) \/ LockedInsert(t) \/ LockedErase(t)
    \/ DeleteParent(t) \/ DeleteLeaf(t) \/ Release(t)

-----------------------------------------------------------------------------
TreeTypeOK ==
    /\ prealloc \in BOOLEAN
    /\ key \in [Places -> MinKey - 1 .. MaxKey + 1]
    /\ left \in [Places -> Places \cup {NULL}] /\ right \in [Places -> Places \cup {NULL}]
    /\ used \subseteq Addresses /\ linked \subseteq Addresses /\ lost \subseteq Addresses
    /\ newLeaf \in [Threads -> Addresses \cup {NULL}]
    /\ newInternal \in [Threads -> Addresses \cup {NULL}]
    /\ lock \in Threads \cup {NoThread}
    /\ retries \in [Threads -> 0 .. MAX_RETRIES]
    /\ gp \in [Threads -> Places \cup {NULL}] /\ p \in [Threads -> Places \cup {NULL}]
    /\ n \in [Threads -> Places \cup {NULL}]

\* Nobody ever meets a deleted node: the nodes that can be reached from the root are in use, and
\* so are those in the hands of the lock's holder; and what has been linked is not lost: when nobody
\* holds the lock, all of it can be reached (tree.h:87, 149-153, 193-201).
LinkedIsSound ==
    /\ Reachable \ {Root, Low, High} = linked /\ linked \subseteq used
    /\ \A t \in Threads : At(t, "search") =>
          {gp[t], p[t], n[t]} \ {Root, Low, High, NULL} \subseteq used
    /\ lock = NoThread => used = linked

\* The nodes that a thread has allocated and not linked are its own, they are those of an insert that
\* has not said yes, and tree.h has none of them to lose: it allocates when it links (tree.h:170-181,
\* tree_prealloc_internal.h:106-107, 165-193).
NewIsSound ==
    /\ \A t \in Threads :
          /\ Brought(t) \cap (used \cup lost) = {}
          /\ \A u \in Threads \ {t} : Brought(t) \cap Brought(u) = {}
          /\ Brought(t) # {} => op[t] = "insert" /\ res[t] # "true"
    /\ lost \cap used = {}
    /\ ~prealloc => lost = {}

TreeIsSound == LinkedIsSound /\ NewIsSound
=============================================================================
