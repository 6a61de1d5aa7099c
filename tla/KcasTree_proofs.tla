--------------------------- MODULE KcasTree_proofs ---------------------------
(***************************************************************************)
(* For every number of threads, keys and nodes: the trees are search       *)
(* trees, an erased node is frozen, no call holds a freed node, and the    *)
(* trees implement the set.                                                *)
(*                                                                         *)
(* The argument: a node stays on the way to a key from when it gets there  *)
(* until it is erased; only a leaf that an insert puts below a new node    *)
(* may lose keys.  A call is on a node that is on the way to its key       *)
(* now, or was when it was erased during the call; and when a node is      *)
(* erased, the call has the rest of its way before it (Trail).  A leaf on  *)
(* the way to a key tells whether the set has it.                          *)
(*                                                                         *)
(* The way to a key is defined without recursion: a node is on it if it    *)
(* is in every set of nodes that has the root and is closed under the      *)
(* steps of a search.                                                      *)
(***************************************************************************)
EXTENDS KcasTree, FiniteSetTheorems, TLAPS

Inner == {m \in Internals : where[m] = "linked"} \cup {Root}
Outer == {m \in Leaves : where[m] = "linked"} \cup {Low, High}
Tree == Inner \cup Outer

\* Where a search for key k goes from node m.
Toward(m, k) == child[m][Direction(k, key[m])]

Closed(S, k) == \A m \in S \cap Inner : Toward(m, k) \in S

\* A search for k that is at m gets to l, if nobody interferes.
Leads(m, l, k) == \A S \in SUBSET Places : m \in S /\ Closed(S, k) => l \in S
On(l, k) == Leads(Root, l, k)

\* A tree of unmarked nodes, whose leaves other than High have a grandparent.
Shape ==
    /\ \A m \in Inner, d \in {0, 1} : child[m][d] \in Tree \ {Root}
    /\ \A m, o \in Inner, d, e \in {0, 1} : child[m][d] = child[o][e] => m = o /\ d = e
    /\ \A m \in Tree : ~marked[m]
    /\ child[Root][0] = Low /\ child[Root][1] \notin Leaves

KeysInOrder ==
    /\ \A m \in Tree \ {Root, Low, High} : key[m] \in Keys
    /\ key[Root] = MinKey - 1 /\ key[Low] = MinKey - 1 /\ key[High] = MaxKey + 1

\* Without cycles.
Grounded ==
    \A S \in SUBSET Inner : S # {} => \E m \in S : \A d \in {0, 1} : child[m][d] \notin S

\* A search for the key of a leaf gets there.
Routed == \A l \in Outer : On(l, key[l])

Marks ==
    \A m \in Nodes :
        /\ where[m] \in {"erased", "retired"} => marked[m]
        /\ where[m] = "free" => ~marked[m]

\* Node m is in the tree, or t's guard keeps it.
Safe(t, m) ==
    \/ m \in Tree
    \/ m \in Nodes /\ (where[m] = "erased" \/ (where[m] = "retired" /\ t \in graced[m]))

Held == \A t \in Threads : \A m \in {gp[t], p[t], n[t], sibling[t]} : m # Null => Safe(t, m)

\* What a call has found, by its place.
Searching(t) ==
    /\ pc[t] \in {"idle", "return"} => {gp[t], p[t], n[t], sibling[t]} = {Null}
    /\ pc[t] # "idle" => arg[t] \in Keys /\ op[t] # "none"
    /\ pc[t] \in {"search", "erase"} =>
          /\ n[t] # Null
          /\ p[t] = Null => n[t] = Root
          /\ p[t] = Root => n[t] \notin Leaves
          /\ p[t] \notin {Null, Root} => gp[t] # Null
          /\ {gp[t], p[t]} \subseteq Internals \cup {Root, Null}
    /\ pc[t] = "erase" =>
          /\ op[t] = "erase" /\ n[t] \in Leaves /\ key[n[t]] = arg[t] /\ sibling[t] # Null
    /\ pc[t] = "retire" =>
          /\ n[t] \in Leaves /\ where[n[t]] = "erased"
          /\ p[t] \in Internals /\ where[p[t]] = "erased"
          /\ \A u \in Threads \ {t} : pc[u] = "retire" => n[u] # n[t] /\ p[u] # p[t]
    /\ pc[t] \in {"retire", "return"} => res[t] # "pending"
    /\ pc[t] \in {"idle", "search", "erase"} => res[t] = "pending"

Searches == \A t \in Threads : Searching(t)

\* The nodes that t's search has been on and those that it must still get to from them.
Way(t, W) ==
    /\ {gp[t], p[t], n[t]} \subseteq W \cup {Null}
    /\ \A m \in W :
          /\ Safe(t, m)
          /\ m \in Inner => On(m, arg[t])
          /\ isLeaf(m) => (key[m] = arg[t]) \in seen[t]
          /\ m \in Internals \ Inner => Toward(m, arg[t]) \in W /\ \A d \in {0, 1} : Safe(t, child[m][d])

Trails == \A t \in Threads : pc[t] \in {"search", "erase"} => \E W \in SUBSET Places : Way(t, W)

Knows == \A t \in Threads : pc[t] # "idle" => (arg[t] \in Contents) \in seen[t]

IInv ==
    /\ TypeOK /\ Shape /\ KeysInOrder /\ Grounded /\ Routed /\ Marks /\ Held /\ Searches
    /\ Trails /\ Knows

-----------------------------------------------------------------------------
LEMMA AtMostThree == \A a, b, c : Cardinality({a, b, c}) # 4
<1> SUFFICES ASSUME NEW a, NEW b, NEW c PROVE Cardinality({a, b, c}) # 4
  OBVIOUS
<1>1. IsFiniteSet({a}) /\ Cardinality({a}) = 1
  BY FS_Singleton
<1>2. IsFiniteSet({a} \cup {b}) /\ Cardinality({a} \cup {b}) \in {1, 2}
  BY <1>1, FS_AddElement
<1>3. Cardinality(({a} \cup {b}) \cup {c}) \in {1, 2, 3}
  BY <1>2, FS_AddElement
<1>4. {a, b, c} = ({a} \cup {b}) \cup {c}
  OBVIOUS
<1> QED BY <1>3, <1>4

LEMMA Distinct ==
    /\ Root # Low /\ Root # High /\ Root # Null /\ Low # High /\ Low # Null /\ High # Null
    /\ Places = Leaves \cup Internals \cup {Root, Low, High} /\ Leaves \cap Internals = {}
    /\ {Root, Low, High, Null} \cap Nodes = {} /\ Nodes = Leaves \cup Internals
<1> DEFINE four == {Root, Low, High, Null}
<1>1. Cardinality(four) = 4
  BY TreeAssumption
<1>2. /\ Root = Low => four = {Root, High, Null}
      /\ Root = High => four = {Root, Low, Null}
      /\ Root = Null => four = {Root, Low, High}
      /\ Low = High => four = {Root, Low, Null}
      /\ Low = Null => four = {Root, Low, High}
      /\ High = Null => four = {Root, Low, High}
  OBVIOUS
<1>3. Root # Low /\ Root # High /\ Root # Null /\ Low # High /\ Low # Null /\ High # Null
  BY <1>1, <1>2, AtMostThree
<1> QED BY <1>3, TreeAssumption DEF Places, Nodes

LEMMA Parts ==
    /\ Inner \subseteq Internals \cup {Root} /\ Outer \subseteq Leaves \cup {Low, High}
    /\ Inner \cap Outer = {} /\ Tree = Inner \cup Outer /\ Tree \subseteq Places
    /\ Root \in Inner /\ Low \in Outer /\ High \in Outer /\ Null \notin Places
    /\ Linked = Tree \ {Root, Low, High} /\ Linked \cap Leaves = Outer \ {Low, High}
    /\ \A m \in Inner : ~isLeaf(m)
    /\ \A m \in Outer : isLeaf(m)
    /\ \A m \in Places : isLeaf(m) \/ m \in Internals \cup {Root}
  BY Distinct DEF Inner, Outer, Tree, Places, Nodes, isLeaf, Linked

LEMMA KeyType ==
    ASSUME TypeOK
    PROVE  /\ \A m \in Places : key[m] \in Int
           /\ \A k \in Keys : k \in Int /\ k # MinKey - 1 /\ k # MaxKey + 1
           /\ MinKey - 1 \in Int /\ MaxKey + 1 \in Int /\ MinKey - 1 # MaxKey + 1
<1>1. MinKey \in Nat /\ MaxKey \in Nat /\ MinKey <= MaxKey
  BY TreeAssumption
<1>2. -1 .. MaxKey + 1 \subseteq Int
  BY <1>1
<1> QED BY <1>1, <1>2 DEF TypeOK, Keys

\* The way to a key.

LEMMA WayStarts == \A k : On(Root, k)
  BY DEF On, Leads

LEMMA WayGoesOn ==
    ASSUME NEW k, NEW m \in Inner, On(m, k)
    PROVE  On(Toward(m, k), k)
  BY DEF On, Leads, Closed

\* A leaf that a search gets to is the only one.
LEMMA OneLeaf ==
    ASSUME Shape, NEW k, NEW l \in Outer, NEW m \in Outer, On(l, k), On(m, k)
    PROVE  l = m
<1> DEFINE S == {x \in Places : Leads(x, l, k)}
<1>1. ASSUME NEW x \in S, x \in Inner PROVE Toward(x, k) \in S
  <2>1. Toward(x, k) \in Places
    BY <1>1, Parts DEF Shape, Toward, Direction
  <2>2. ASSUME NEW T \in SUBSET Places, Toward(x, k) \in T, Closed(T, k) PROVE l \in T
    <3>1. T \cup {x} \in SUBSET Places /\ Closed(T \cup {x}, k)
      BY <2>2, <1>1 DEF Closed
    <3>2. l \in T \cup {x}
      BY <1>1, <3>1 DEF Leads
    <3> QED BY <1>1, <3>2, Parts
  <2> QED BY <2>1, <2>2 DEF Leads
<1>2. S \in SUBSET Places /\ Closed(S, k) /\ Root \in S
  BY <1>1, Parts DEF Closed, On
<1>3. Leads(m, l, k)
  BY <1>2 DEF On, Leads
<1>4. {m} \in SUBSET Places /\ Closed({m}, k)
  BY Parts DEF Closed
<1> QED BY <1>3, <1>4 DEF Leads

\* It tells whether the key is in the set.
LEMMA LeafTells ==
    ASSUME Shape, KeysInOrder, Routed, TypeOK, NEW k \in Keys, NEW m \in Outer, On(m, k)
    PROVE  key[m] = k <=> k \in Contents
<1>1. ASSUME key[m] = k PROVE k \in Contents
  BY <1>1, KeyType, Parts DEF KeysInOrder, Contents
<1>2. ASSUME NEW l \in Linked \cap Leaves, key[l] = k PROVE m = l
  BY <1>2, OneLeaf, Parts DEF Routed
<1> QED BY <1>1, <1>2 DEF Contents

\* Steps that leave the inner nodes alone leave all ways alone.
LEMMA SameWays ==
    ASSUME Inner' = Inner, \A m \in Inner : child'[m] = child[m] /\ key'[m] = key[m]
    PROVE  \A l, k : On(l, k)' <=> On(l, k)
<1>1. \A S, k : Closed(S, k)' <=> Closed(S, k)
  BY DEF Closed, Toward
<1> QED BY <1>1 DEF On, Leads

-----------------------------------------------------------------------------
\* What the steps do to the memory.

LEMMA MemoryStep ==
    ASSUME [Next]_vars
    PROVE  \/ UNCHANGED memory
           \/ \E t \in Threads : Insert(t) \/ Erase(t) \/ Retire(t) \/ Return(t)
           \/ \E m \in Nodes : Free(m)
<1>1. CASE Next
  <2>1. ASSUME NEW t \in Threads, CallStep(t) \/ WorkStep(t)
        PROVE  UNCHANGED memory \/ Insert(t) \/ Erase(t) \/ Retire(t) \/ Return(t)
    BY <2>1 DEF CallStep, WorkStep, Work, Call, Descend, Contains, InsertFindsKey,
         EraseFindsNone, ReadSibling, Answer
  <2> QED BY <1>1, <2>1 DEF Next, FreeStep
<1> QED BY <1>1 DEF vars

\* A step of one thread leaves the variables of the others alone.
LEMMA OtherCalls ==
    ASSUME TypeOK, NEW t \in Threads, Call(t) \/ Work(t), NEW u \in Threads, u # t
    PROVE  /\ pc'[u] = pc[u] /\ op'[u] = op[u] /\ arg'[u] = arg[u] /\ res'[u] = res[u]
           /\ gp'[u] = gp[u] /\ p'[u] = p[u] /\ n'[u] = n[u] /\ sibling'[u] = sibling[u]
<1> USE DEF TypeOK, Goto, StartSearch, Forget, Leave, path
<1>1. CASE Call(t) \/ Descend(t)
  BY <1>1 DEF Call, Descend
<1>2. CASE Contains(t) \/ InsertFindsKey(t) \/ EraseFindsNone(t) \/ ReadSibling(t)
  BY <1>2 DEF Contains, InsertFindsKey, EraseFindsNone, ReadSibling, Answer
<1>3. CASE Insert(t)
  BY <1>3 DEF Insert, InsertWith
<1>4. CASE Erase(t)
  BY <1>4 DEF Erase, EraseWith
<1>5. CASE Retire(t) \/ Return(t)
  BY <1>5 DEF Retire, Return
<1> QED BY <1>1, <1>2, <1>3, <1>4, <1>5 DEF Work

\* A node that a call holds and finds unmarked is in the tree.
LEMMA Unmarked ==
    ASSUME Marks, NEW t \in Threads, NEW m, Safe(t, m), ~marked[m]
    PROVE  m \in Tree
  BY DEF Marks, Safe

\* What a search has come by.
LEMMA Found ==
    ASSUME IInv, NEW t \in Threads, pc[t] \in {"search", "erase"}
    PROVE  /\ arg[t] \in Keys /\ n[t] # Null
           /\ \A m \in {gp[t], p[t], n[t]} : m # Null =>
                 /\ m \in Places /\ Safe(t, m) /\ (m \in Inner => On(m, arg[t]))
           /\ isLeaf(n[t]) => (key[n[t]] = arg[t]) \in seen[t] /\ p[t] \in Internals \cup {Root}
           /\ n[t] \in Leaves => p[t] \in Internals /\ gp[t] \in Internals \cup {Root}
<1>1. Searching(t) /\ TypeOK
  BY DEF IInv, Searches
<1>2. PICK W \in SUBSET Places : Way(t, W)
  BY DEF IInv, Trails
<1>3. \A m \in {gp[t], p[t], n[t]} : m # Null => m \in W
  BY <1>2 DEF Way
<1>4. n[t] # Root => p[t] \in Internals \cup {Root}
  BY <1>1 DEF Searching
<1>5. n[t] \in Leaves => p[t] \in Internals /\ gp[t] \in Internals \cup {Root}
  BY <1>1, <1>4, Distinct DEF Searching
<1> QED BY <1>1, <1>2, <1>3, <1>4, <1>5, Distinct DEF Way, Searching, isLeaf

\* The new leaf l and the new internal node i take the place of n[t].
Grows(t, l, i) ==
    /\ p[t] \in Inner /\ n[t] \in Outer /\ Toward(p[t], arg[t]) = n[t] /\ On(p[t], arg[t])
    /\ arg[t] \in Keys /\ key[n[t]] # arg[t]
    /\ l \in Leaves /\ i \in Internals /\ where[l] = "free" /\ where[i] = "free"
    /\ where' = [where EXCEPT ![l] = "linked", ![i] = "linked"]
    /\ Inner' = Inner \cup {i} /\ Outer' = Outer \cup {l}
    /\ \A m \in Places \ {l, i} : key'[m] = key[m]
    /\ key'[l] = arg[t]
    /\ \A m \in Places \ {p[t], i} : child'[m] = child[m]
    /\ \A d \in {0, 1} : child'[p[t]][d] =
          IF d = Direction(arg[t], key[p[t]]) THEN i ELSE child[p[t]][d]
    /\ \/ arg[t] < key[n[t]] /\ key'[i] = arg[t] /\ child'[i][0] = l /\ child'[i][1] = n[t]
       \/ key[n[t]] < arg[t] /\ key'[i] = key[n[t]] /\ child'[i][0] = n[t] /\ child'[i][1] = l
    /\ UNCHANGED <<marked, graced>>

LEMMA InsertGrows ==
    ASSUME IInv, NEW t \in Threads, Insert(t), InsertMatches(t)
    PROVE  \E l \in Leaves, i \in Internals : Grows(t, l, i)
<1>1. /\ TypeOK /\ Marks /\ pc[t] = "search" /\ isLeaf(n[t]) /\ key[n[t]] # arg[t]
      /\ ~marked[p[t]] /\ ~marked[n[t]] /\ Toward(p[t], arg[t]) = n[t]
  BY DEF IInv, Insert, InsertWith, InsertMatches, Searched, At, Present, Toward
<1>2. PICK l \in Allocator(Unused(Leaves)), i \in Allocator(Unused(Internals)) : Link(t, l, i)
  BY DEF Insert, InsertWith
<1>3. l \in Leaves /\ i \in Internals /\ where[l] = "free" /\ where[i] = "free"
  <2>1. Unused(Leaves) \in SUBSET Leaves /\ Unused(Internals) \in SUBSET Internals
    BY DEF Unused
  <2>2. l \in Unused(Leaves) /\ i \in Unused(Internals)
    BY <1>2, <2>1, TreeAssumption
  <2> QED BY <2>2 DEF Unused
<1>4. /\ arg[t] \in Keys /\ p[t] \in Internals \cup {Root}
      /\ Safe(t, p[t]) /\ Safe(t, n[t]) /\ (p[t] \in Inner => On(p[t], arg[t]))
  BY <1>1, Found, Distinct
<1>5. p[t] \in Inner /\ n[t] \in Outer
  BY <1>1, <1>4, Unmarked, Parts, Distinct
<1>6. /\ i \in Places /\ l \in Places /\ i # l /\ p[t] \in Places /\ n[t] \in Places
      /\ i \notin Tree /\ l \notin Tree
      /\ arg[t] \in Int /\ key[n[t]] \in Int /\ Direction(arg[t], key[p[t]]) \in {0, 1}
  BY <1>1, <1>3, <1>4, <1>5, Distinct, Parts, KeyType DEF Tree, Inner, Outer, Direction
<1> DEFINE k == arg[t]
           x == key[n[t]]
<1>7. /\ key' = [key EXCEPT ![l] = k, ![i] = IF k < x THEN k ELSE x]
      /\ child' = [child EXCEPT
                      ![i] = [d \in {0, 1} |-> IF (d = 0) = (k < x) THEN l ELSE n[t]],
                      ![p[t]][Direction(k, key[p[t]])] = i]
      /\ where' = [where EXCEPT ![l] = "linked", ![i] = "linked"]
      /\ UNCHANGED <<marked, graced>>
  BY <1>2 DEF Link, Insert, InsertWith
<1>8. Inner' = Inner \cup {i} /\ Outer' = Outer \cup {l}
  BY <1>1, <1>3, <1>7, Distinct DEF Inner, Outer, TypeOK
<1>9. /\ \A m \in Places \ {l, i} : key'[m] = key[m]
      /\ key'[l] = k /\ key'[i] = IF k < x THEN k ELSE x
  BY <1>1, <1>6, <1>7 DEF TypeOK
<1>10. \A m \in Places \ {p[t], i} : child'[m] = child[m]
  BY <1>1, <1>6, <1>7 DEF TypeOK
<1>11. child'[i] = [d \in {0, 1} |-> IF (d = 0) = (k < x) THEN l ELSE n[t]]
  <2>1. p[t] # i
    BY <1>5, <1>6 DEF Tree
  <2> QED BY <1>1, <1>6, <1>7, <2>1 DEF TypeOK
<1>12. \A d \in {0, 1} : child'[p[t]][d] = IF d = Direction(k, key[p[t]]) THEN i ELSE child[p[t]][d]
  <2>1. p[t] # i
    BY <1>5, <1>6 DEF Tree
  <2>2. child'[p[t]] = [child[p[t]] EXCEPT ![Direction(k, key[p[t]])] = i]
    BY <1>1, <1>6, <1>7, <2>1 DEF TypeOK
  <2>3. child[p[t]] \in [{0, 1} -> Pointers]
    BY <1>1, <1>6 DEF TypeOK
  <2> QED BY <2>2, <2>3
<1>13. \/ k < x /\ key'[i] = k /\ child'[i][0] = l /\ child'[i][1] = n[t]
       \/ x < k /\ key'[i] = x /\ child'[i][0] = n[t] /\ child'[i][1] = l
  <2>1. k < x \/ x < k
    BY <1>1, <1>6
  <2>2. ASSUME k < x PROVE key'[i] = k /\ child'[i][0] = l /\ child'[i][1] = n[t]
    <3>1. (k < x) = TRUE
      BY <2>2
    <3> QED BY <1>9, <1>11, <2>2, <3>1
  <2>3. ASSUME x < k PROVE key'[i] = x /\ child'[i][0] = n[t] /\ child'[i][1] = l
    <3>1. ~(k < x) /\ (k < x) = FALSE
      BY <2>3, <1>6
    <3> QED BY <1>9, <1>11, <3>1
  <2> QED BY <2>1, <2>2, <2>3
<1> QED BY <1>1, <1>3, <1>4, <1>5, <1>7, <1>8, <1>9, <1>10, <1>12, <1>13 DEF Grows

LEMMA InsertFails ==
    ASSUME NEW t \in Threads, Insert(t), ~InsertMatches(t)
    PROVE  UNCHANGED memory /\ pc' = [pc EXCEPT ![t] = "search"]
  BY DEF Insert, InsertWith, StartSearch, Goto, memory, fields

\* The sibling takes the place of p[t] below gp[t].
Cuts(t) ==
    /\ gp[t] \in Inner /\ p[t] \in Inner \ {Root} /\ n[t] \in Outer \cap Leaves
    /\ sibling[t] \in Tree \ {Root, p[t], n[t], gp[t]} /\ gp[t] # p[t]
    /\ nDir(t) \in {0, 1} /\ pDir(t) \in {0, 1}
    /\ child[gp[t]][pDir(t)] = p[t]
    /\ child[p[t]][nDir(t)] = n[t] /\ child[p[t]][1 - nDir(t)] = sibling[t]
    /\ key[n[t]] = arg[t] /\ arg[t] \in Keys
    /\ where' = [where EXCEPT ![n[t]] = "erased", ![p[t]] = "erased"]
    /\ Inner' = Inner \ {p[t]} /\ Outer' = Outer \ {n[t]}
    /\ \A m \in Places \ {gp[t]} : child'[m] = child[m]
    /\ \A d \in {0, 1} : child'[gp[t]][d] = IF d = pDir(t) THEN sibling[t] ELSE child[gp[t]][d]
    /\ marked' = [marked EXCEPT ![n[t]] = TRUE, ![p[t]] = TRUE]
    /\ UNCHANGED <<key, graced>>

EraseMatches(t) == EraseMatchesPath(t) /\ child[p[t]][1 - nDir(t)] = sibling[t]

LEMMA EraseCuts ==
    ASSUME IInv, NEW t \in Threads, Erase(t), EraseMatches(t)
    PROVE  Cuts(t)
<1>1. /\ TypeOK /\ Marks /\ Shape /\ Grounded /\ Searching(t) /\ Held /\ pc[t] = "erase"
      /\ child[gp[t]][pDir(t)] = p[t] /\ child[p[t]][nDir(t)] = n[t]
      /\ child[p[t]][1 - nDir(t)] = sibling[t]
      /\ ~marked[gp[t]] /\ ~marked[p[t]] /\ ~marked[n[t]]
  BY DEF IInv, Searches, Erase, EraseWith, EraseMatches, EraseMatchesPath, At
<1>2. n[t] \in Leaves /\ key[n[t]] = arg[t] /\ arg[t] \in Keys /\ sibling[t] # Null
  BY <1>1 DEF Searching
<1>3. /\ p[t] \in Internals /\ gp[t] \in Internals \cup {Root}
      /\ Safe(t, gp[t]) /\ Safe(t, p[t]) /\ Safe(t, n[t])
  BY <1>1, <1>2, Found, Distinct
<1>4. gp[t] \in Inner /\ p[t] \in Inner \ {Root} /\ n[t] \in Outer \cap Leaves
  BY <1>1, <1>2, <1>3, Unmarked, Parts, Distinct
<1>5. nDir(t) \in {0, 1} /\ pDir(t) \in {0, 1} /\ 1 - nDir(t) \in {0, 1} /\ nDir(t) # 1 - nDir(t)
  BY DEF nDir, pDir, Direction
<1>6. sibling[t] \in Tree \ {Root, n[t]}
  BY <1>1, <1>4, <1>5 DEF Shape
<1>7. gp[t] # p[t] /\ sibling[t] # p[t]
  <2>1. PICK m \in {p[t]} : \A d \in {0, 1} : child[m][d] \notin {p[t]}
    BY <1>1, <1>4 DEF Grounded
  <2> QED BY <1>1, <1>5, <2>1
<1>8. sibling[t] # gp[t]
  <2>1. PICK m \in {p[t], gp[t]} : \A d \in {0, 1} : child[m][d] \notin {p[t], gp[t]}
    <3>1. {p[t], gp[t]} \in SUBSET Inner /\ {p[t], gp[t]} # {}
      BY <1>4
    <3> QED BY <1>1, <3>1 DEF Grounded
  <2> QED BY <1>1, <1>5, <2>1
<1>9. /\ child' = [child EXCEPT ![gp[t]][pDir(t)] = sibling[t]]
      /\ marked' = [marked EXCEPT ![n[t]] = TRUE, ![p[t]] = TRUE]
      /\ where' = [where EXCEPT ![n[t]] = "erased", ![p[t]] = "erased"]
      /\ UNCHANGED <<key, graced>>
  BY DEF Erase, EraseWith, EraseMatches
<1>10. Inner' = Inner \ {p[t]} /\ Outer' = Outer \ {n[t]}
  BY <1>1, <1>2, <1>4, <1>9, Distinct DEF Inner, Outer, TypeOK
<1>11. \A m \in Places \ {gp[t]} : child'[m] = child[m]
  BY <1>1, <1>9 DEF TypeOK
<1>12. \A d \in {0, 1} : child'[gp[t]][d] = IF d = pDir(t) THEN sibling[t] ELSE child[gp[t]][d]
  <2>1. gp[t] \in Places
    BY <1>4, Parts
  <2>2. child'[gp[t]] = [child[gp[t]] EXCEPT ![pDir(t)] = sibling[t]]
    BY <1>1, <1>9, <2>1 DEF TypeOK
  <2>3. child[gp[t]] \in [{0, 1} -> Pointers]
    BY <1>1, <2>1 DEF TypeOK
  <2> QED BY <2>2, <2>3
<1> QED BY <1>1, <1>2, <1>4, <1>5, <1>6, <1>7, <1>8, <1>9, <1>10, <1>11, <1>12 DEF Cuts

LEMMA EraseFails ==
    ASSUME NEW t \in Threads, Erase(t), ~EraseMatches(t)
    PROVE  UNCHANGED memory /\ pc' = [pc EXCEPT ![t] = "search"]
  BY DEF Erase, EraseWith, EraseMatches, StartSearch, Goto, memory, fields

LEMMA RetireSteps ==
    ASSUME IInv, NEW t \in Threads, Retire(t)
    PROVE  /\ n[t] \in Leaves /\ p[t] \in Internals
           /\ where[n[t]] = "erased" /\ where[p[t]] = "erased"
           /\ where' = [where EXCEPT ![n[t]] = "retired", ![p[t]] = "retired"]
           /\ graced' = [graced EXCEPT ![n[t]] = InGuard, ![p[t]] = InGuard]
           /\ Inner' = Inner /\ Outer' = Outer /\ UNCHANGED fields
<1>1. /\ TypeOK /\ n[t] \in Leaves /\ p[t] \in Internals
      /\ where[n[t]] = "erased" /\ where[p[t]] = "erased"
  BY DEF IInv, Searches, Searching, Retire, At
<1>2. /\ where' = [where EXCEPT ![n[t]] = "retired", ![p[t]] = "retired"]
      /\ graced' = [graced EXCEPT ![n[t]] = InGuard, ![p[t]] = InGuard] /\ UNCHANGED fields
  BY DEF Retire
<1>3. Inner' = Inner /\ Outer' = Outer
  BY <1>1, <1>2, Distinct DEF Inner, Outer, TypeOK
<1> QED BY <1>1, <1>2, <1>3

LEMMA ReturnSteps ==
    ASSUME NEW t \in Threads, Return(t)
    PROVE  /\ graced' = [m \in Nodes |-> graced[m] \ {t}]
           /\ Inner' = Inner /\ Outer' = Outer /\ UNCHANGED <<fields, where>>
  BY DEF Return, Inner, Outer

LEMMA FreeSteps ==
    ASSUME TypeOK, NEW m \in Nodes, Free(m)
    PROVE  /\ where[m] = "retired" /\ graced[m] = {} /\ graced' = graced
           /\ where' = [where EXCEPT ![m] = "free"]
           /\ Inner' = Inner /\ Outer' = Outer
           /\ \A o \in Places \ {m} :
                 key'[o] = key[o] /\ child'[o] = child[o] /\ marked'[o] = marked[o]
           /\ key'[m] = -1 /\ child'[m] = NoChildren /\ marked'[m] = FALSE
<1>1. /\ where[m] = "retired" /\ graced[m] = {} /\ graced' = graced
      /\ where' = [o \in Nodes |-> IF o \in {m} THEN "free" ELSE where[o]]
      /\ key' = [o \in Places |-> IF o \in {m} THEN -1 ELSE key[o]]
      /\ child' = [o \in Places |-> IF o \in {m} THEN NoChildren ELSE child[o]]
      /\ marked' = [o \in Places |-> IF o \in {m} THEN FALSE ELSE marked[o]]
  BY DEF Free, MakeFree
<1>2. where' = [where EXCEPT ![m] = "free"]
  BY <1>1 DEF TypeOK
<1>3. Inner' = Inner /\ Outer' = Outer
  BY <1>1, <1>2, Distinct DEF Inner, Outer, TypeOK
<1> QED BY <1>1, <1>2, <1>3, Distinct

Keeps ==
    /\ Inner' = Inner /\ Outer' = Outer
    /\ \A m \in Tree : key'[m] = key[m] /\ child'[m] = child[m] /\ marked'[m] = marked[m]

\* A step leaves the tree alone, or it is a successful insert or erase.
LEMMA TreeStep ==
    ASSUME IInv, [Next]_vars
    PROVE  \/ Keeps
           \/ \E t \in Threads : /\ Insert(t) /\ InsertMatches(t)
                                 /\ \E l \in Leaves, i \in Internals : Grows(t, l, i)
           \/ \E t \in Threads : Erase(t) /\ EraseMatches(t) /\ Cuts(t)
<1>1. ASSUME UNCHANGED memory PROVE Keeps
  BY <1>1 DEF memory, fields, Keeps, Inner, Outer
<1>2. ASSUME NEW t \in Threads, Retire(t) \/ Return(t) PROVE Keeps
  BY <1>2, RetireSteps, ReturnSteps DEF Keeps, fields
<1>3. ASSUME NEW m \in Nodes, Free(m) PROVE Keeps
  <2>1. TypeOK
    BY DEF IInv
  <2>2. m \notin Tree
    BY <1>3, <2>1, FreeSteps, Distinct DEF Tree, Inner, Outer
  <2> QED BY <1>3, <2>1, <2>2, FreeSteps, Parts DEF Keeps
<1>4. ASSUME NEW t \in Threads, Insert(t)
      PROVE  Keeps \/ (InsertMatches(t) /\ \E l \in Leaves, i \in Internals : Grows(t, l, i))
  BY <1>1, <1>4, InsertGrows, InsertFails
<1>5. ASSUME NEW t \in Threads, Erase(t) PROVE Keeps \/ (EraseMatches(t) /\ Cuts(t))
  BY <1>1, <1>5, EraseCuts, EraseFails
<1> QED BY <1>1, <1>2, <1>3, <1>4, <1>5, MemoryStep

LEMMA GrowsAside ==
    ASSUME NEW t \in Threads, NEW l \in Leaves, NEW i \in Internals, Grows(t, l, i)
    PROVE  /\ i \notin Tree /\ l \notin Tree /\ i # l /\ i \in Places /\ l \in Places
           /\ Tree' = Tree \cup {i, l}
           /\ \A m \in Tree : key'[m] = key[m] /\ (m # p[t] => child'[m] = child[m])
           /\ \A d \in {0, 1} : child'[i][d] \in {l, n[t]}
           /\ child'[i][0] # child'[i][1]
<1>1. i \notin Tree /\ l \notin Tree /\ i # l /\ i \in Places /\ l \in Places
  BY Distinct DEF Grows, Tree, Inner, Outer
<1>2. Tree' = Tree \cup {i, l}
  BY DEF Grows, Tree
<1>3. \A m \in Tree : key'[m] = key[m] /\ (m # p[t] => child'[m] = child[m])
  BY <1>1, Parts DEF Grows
<1>4. n[t] \in Tree
  BY DEF Grows, Tree
<1> QED BY <1>1, <1>2, <1>3, <1>4 DEF Grows

LEMMA CutsAside ==
    ASSUME NEW t \in Threads, Cuts(t)
    PROVE  /\ Tree' = Tree \ {n[t], p[t]}
           /\ \A m \in Places : key'[m] = key[m] /\ (m # gp[t] => child'[m] = child[m])
           /\ 1 - nDir(t) \in {0, 1} /\ nDir(t) # 1 - nDir(t)
           /\ {child[p[t]][0], child[p[t]][1]} = {n[t], sibling[t]}
<1>1. Tree' = Tree \ {n[t], p[t]}
  BY Parts DEF Cuts, Tree
<1>2. \A m \in Places : key'[m] = key[m] /\ (m # gp[t] => child'[m] = child[m])
  BY DEF Cuts
<1>3. /\ 1 - nDir(t) \in {0, 1} /\ nDir(t) # 1 - nDir(t)
      /\ nDir(t) = 0 => 1 - nDir(t) = 1
      /\ nDir(t) = 1 => 1 - nDir(t) = 0
  BY DEF nDir, Direction
<1>4. /\ nDir(t) = 0 \/ nDir(t) = 1
      /\ child[p[t]][nDir(t)] = n[t] /\ child[p[t]][1 - nDir(t)] = sibling[t]
  BY DEF Cuts
<1>5. {child[p[t]][0], child[p[t]][1]} = {n[t], sibling[t]}
  BY <1>3, <1>4
<1> QED BY <1>1, <1>2, <1>3, <1>5

LEMMA ShapeStep == IInv /\ [Next]_vars => Shape' /\ KeysInOrder'
<1> SUFFICES ASSUME IInv, [Next]_vars PROVE Shape' /\ KeysInOrder'
  OBVIOUS
<1>0. TypeOK /\ Shape /\ KeysInOrder /\ Routed /\ Grounded
  BY DEF IInv
<1>1. CASE Keeps
  <2>1. Tree' = Tree
    BY <1>1 DEF Keeps, Tree
  <2> QED BY <1>0, <1>1, <2>1, Parts DEF Keeps, Shape, KeysInOrder
<1>2. ASSUME NEW t \in Threads, NEW l \in Leaves, NEW i \in Internals, Grows(t, l, i)
      PROVE  Shape' /\ KeysInOrder'
  <2> DEFINE d0 == Direction(arg[t], key[p[t]])
  <2>0. /\ i \notin Tree /\ l \notin Tree /\ i # l /\ Tree' = Tree \cup {i, l}
        /\ \A m \in Tree : key'[m] = key[m] /\ (m # p[t] => child'[m] = child[m])
        /\ \A d \in {0, 1} : child'[i][d] \in {l, n[t]}
        /\ child'[i][0] # child'[i][1]
    BY <1>2, GrowsAside
  <2>1. /\ p[t] \in Inner /\ n[t] \in Outer /\ d0 \in {0, 1} /\ child[p[t]][d0] = n[t]
        /\ Inner' = Inner \cup {i} /\ Outer' = Outer \cup {l}
        /\ \A d \in {0, 1} : child'[p[t]][d] = IF d = d0 THEN i ELSE child[p[t]][d]
        /\ arg[t] \in Keys /\ UNCHANGED <<marked, graced>>
    BY <1>2 DEF Grows, Toward, Direction
  <2>2. p[t] = Root => d0 = 1
    <3>1. arg[t] > MinKey - 1
      BY <2>1, TreeAssumption DEF Keys
    <3> QED BY <1>0, <3>1 DEF KeysInOrder, Direction
  <2>3. n[t] # Low
    BY <1>0, <2>1, <2>2, Parts DEF Shape
  <2>4. \A m \in Inner', d \in {0, 1} : child'[m][d] \in Tree' \ {Root}
    <3>1. ASSUME NEW m \in Inner, NEW d \in {0, 1} PROVE child'[m][d] \in Tree' \ {Root}
      BY <1>0, <2>0, <2>1, Parts DEF Shape
    <3>2. ASSUME NEW d \in {0, 1} PROVE child'[i][d] \in Tree' \ {Root}
      BY <2>0, <2>1, Parts
    <3> QED BY <2>1, <3>1, <3>2
  <2>5. \A m, o \in Inner', d, e \in {0, 1} : child'[m][d] = child'[o][e] => m = o /\ d = e
    <3>1. \A m \in Inner, d \in {0, 1} :
             /\ child'[m][d] # n[t] /\ child'[m][d] # l
             /\ child'[m][d] = i => m = p[t] /\ d = d0
             /\ child'[m][d] # i => child'[m][d] = child[m][d]
      <4>1. ASSUME NEW m \in Inner, NEW d \in {0, 1}
            PROVE  /\ child'[m][d] # n[t] /\ child'[m][d] # l
                   /\ child'[m][d] = i => m = p[t] /\ d = d0
                   /\ child'[m][d] # i => child'[m][d] = child[m][d]
        <5>1. child[m][d] \in Tree
          BY <1>0 DEF Shape
        <5>2. child[m][d] = n[t] => m = p[t] /\ d = d0
          BY <1>0, <2>1 DEF Shape
        <5>3. n[t] # i /\ n[t] # l
          BY <2>0, <2>1 DEF Tree
        <5>4. CASE m = p[t]
          BY <2>0, <2>1, <5>1, <5>2, <5>3, <5>4
        <5>5. CASE m # p[t]
          <6>1. child'[m][d] = child[m][d]
            BY <2>0, <5>5, Parts
          <6> QED BY <2>0, <5>1, <5>2, <5>5, <6>1
        <5> QED BY <5>4, <5>5
      <4> QED BY <4>1
    <3>2. ASSUME NEW m \in Inner, NEW o \in Inner, NEW d \in {0, 1}, NEW e \in {0, 1},
                 child'[m][d] = child'[o][e]
          PROVE  m = o /\ d = e
      BY <1>0, <3>1, <3>2 DEF Shape
    <3>3. ASSUME NEW m \in Inner, NEW d \in {0, 1}, NEW e \in {0, 1}
          PROVE  child'[m][d] # child'[i][e]
      BY <2>0, <3>1
    <3> QED BY <2>0, <2>1, <3>2, <3>3
  <2>6. \A m \in Tree' : ~marked'[m]
    <3>1. ~marked[i] /\ ~marked[l]
      BY <1>2, Distinct DEF IInv, Marks, Grows
    <3> QED BY <1>0, <2>0, <2>1, <3>1 DEF Shape
  <2>7. child'[Root][0] = Low /\ child'[Root][1] \notin Leaves
    <3>1. CASE p[t] = Root
      BY <1>0, <2>1, <2>2, <3>1, Distinct DEF Shape
    <3>2. CASE p[t] # Root
      BY <1>0, <2>0, <3>2, Parts DEF Shape
    <3> QED BY <3>1, <3>2
  <2>8. key'[l] \in Keys /\ key'[i] \in Keys
    <3>1. key'[l] = arg[t]
      BY <1>2 DEF Grows
    <3>2. CASE arg[t] < key[n[t]] /\ key'[i] = arg[t]
      BY <2>1, <3>1, <3>2
    <3>3. CASE key[n[t]] < arg[t] /\ key'[i] = key[n[t]]
      <4>1. n[t] # High
        BY <1>0, <2>1, <3>3, TreeAssumption DEF KeysInOrder, Keys
      <4>2. n[t] \in Tree \ {Root, Low, High}
        BY <2>1, <2>3, <4>1, Parts
      <4> QED BY <1>0, <2>1, <3>1, <3>3, <4>2 DEF KeysInOrder
    <3> QED BY <1>2, <3>2, <3>3 DEF Grows
  <2>9. KeysInOrder'
    <3>1. {Root, Low, High} \subseteq Tree
      BY Parts
    <3> QED BY <1>0, <2>0, <2>8, <3>1 DEF KeysInOrder
  <2> QED BY <2>4, <2>5, <2>6, <2>7, <2>9 DEF Shape
<1>3. ASSUME NEW t \in Threads, Cuts(t) PROVE Shape' /\ KeysInOrder'
  <2>1. /\ gp[t] \in Inner /\ p[t] \in Inner \ {Root} /\ n[t] \in Outer \cap Leaves
        /\ sibling[t] \in Tree \ {Root, p[t], n[t], gp[t]} /\ gp[t] # p[t]
        /\ nDir(t) \in {0, 1} /\ pDir(t) \in {0, 1} /\ 1 - nDir(t) \in {0, 1}
        /\ nDir(t) # 1 - nDir(t)
        /\ child[gp[t]][pDir(t)] = p[t]
        /\ child[p[t]][nDir(t)] = n[t] /\ child[p[t]][1 - nDir(t)] = sibling[t]
        /\ Inner' = Inner \ {p[t]} /\ Outer' = Outer \ {n[t]} /\ Tree' = Tree \ {n[t], p[t]}
        /\ \A m \in Places : key'[m] = key[m] /\ (m # gp[t] => child'[m] = child[m])
        /\ \A d \in {0, 1} : child'[gp[t]][d] = IF d = pDir(t) THEN sibling[t] ELSE child[gp[t]][d]
        /\ marked' = [marked EXCEPT ![n[t]] = TRUE, ![p[t]] = TRUE]
    <3>1. /\ gp[t] \in Inner /\ p[t] \in Inner \ {Root} /\ n[t] \in Outer \cap Leaves
          /\ sibling[t] \in Tree \ {Root, p[t], n[t], gp[t]} /\ gp[t] # p[t]
          /\ nDir(t) \in {0, 1} /\ pDir(t) \in {0, 1}
          /\ child[gp[t]][pDir(t)] = p[t]
          /\ child[p[t]][nDir(t)] = n[t] /\ child[p[t]][1 - nDir(t)] = sibling[t]
          /\ Inner' = Inner \ {p[t]} /\ Outer' = Outer \ {n[t]}
      BY <1>3 DEF Cuts
    <3>2. /\ \A d \in {0, 1} : child'[gp[t]][d] = IF d = pDir(t) THEN sibling[t] ELSE child[gp[t]][d]
          /\ marked' = [marked EXCEPT ![n[t]] = TRUE, ![p[t]] = TRUE]
      BY <1>3 DEF Cuts
    <3> QED BY <1>3, <3>1, <3>2, CutsAside
  <2>2. \A m \in Inner', d \in {0, 1} :
           \/ child'[m][d] = child[m][d] /\ child[m][d] \notin {n[t], p[t], sibling[t]}
           \/ m = gp[t] /\ d = pDir(t) /\ child'[m][d] = sibling[t]
    <3>1. ASSUME NEW m \in Inner', NEW d \in {0, 1}, m # gp[t] \/ d # pDir(t)
          PROVE  child'[m][d] = child[m][d] /\ child[m][d] \notin {n[t], p[t], sibling[t]}
      <4>1. m \in Inner /\ m # p[t] /\ m \in Places
        BY <2>1, Parts
      <4>2. child'[m][d] = child[m][d]
        BY <2>1, <3>1, <4>1
      <4>3. child[m][d] \notin {n[t], sibling[t]}
        BY <1>0, <2>1, <4>1 DEF Shape
      <4>4. child[m][d] # p[t]
        BY <1>0, <2>1, <3>1, <4>1 DEF Shape
      <4> QED BY <4>2, <4>3, <4>4
    <3> QED BY <2>1, <3>1
  <2>3. \A m \in Inner', d \in {0, 1} : child'[m][d] \in Tree' \ {Root}
    <3>1. \A m \in Inner', d \in {0, 1} : child[m][d] \in Tree \ {Root}
      BY <1>0, <2>1 DEF Shape
    <3> QED BY <2>1, <2>2, <3>1
  <2>4. \A m, o \in Inner', d, e \in {0, 1} : child'[m][d] = child'[o][e] => m = o /\ d = e
    <3>1. \A m, o \in Inner', d, e \in {0, 1} : child[m][d] = child[o][e] => m = o /\ d = e
      BY <1>0, <2>1 DEF Shape
    <3> QED BY <2>2, <3>1
  <2>5. \A m \in Tree' : ~marked'[m]
    BY <1>0, <2>1, Parts DEF Shape, TypeOK
  <2>6. gp[t] = Root => pDir(t) = 1
    <3>1. p[t] \in Tree \ {Root, Low, High}
      BY <2>1, Parts
    <3>2. key[p[t]] > MinKey - 1
      BY <1>0, <3>1, TreeAssumption DEF KeysInOrder, Keys
    <3> QED BY <1>0, <3>2 DEF KeysInOrder, pDir, Direction
  <2>7. child'[Root][0] = Low
    BY <1>0, <2>1, <2>6, Parts DEF Shape
  <2>8. child'[Root][1] \notin Leaves
    <3>1. CASE gp[t] # Root
      BY <1>0, <2>1, <3>1, Parts DEF Shape
    <3>2. ASSUME gp[t] = Root, sibling[t] \in Leaves PROVE FALSE
      <4> DEFINE S == {Root, Low, p[t], n[t], sibling[t]}
      <4>1. On(High, MaxKey + 1)
        BY <1>0, Parts DEF Routed, KeysInOrder
      <4>2. S \in SUBSET Places /\ S \cap Inner = {Root, p[t]}
        BY <2>1, <3>2, Parts, Distinct
      <4>3. Toward(Root, MaxKey + 1) \in {Low, p[t]} /\ Toward(p[t], MaxKey + 1) \in {n[t], sibling[t]}
        <5>1. child[Root][0] = Low /\ child[Root][1] = p[t]
          BY <1>0, <2>1, <2>6, <3>2 DEF Shape
        <5>2. child[p[t]][0] \in {n[t], sibling[t]} /\ child[p[t]][1] \in {n[t], sibling[t]}
          BY <2>1
        <5> QED BY <5>1, <5>2 DEF Toward, Direction
      <4>4. High \in S
        BY <4>1, <4>2, <4>3 DEF On, Leads, Closed
      <4> QED BY <2>1, <3>2, <4>4, Distinct, Parts
    <3>3. CASE gp[t] = Root
      BY <2>1, <2>6, <3>2, <3>3
    <3> QED BY <3>1, <3>3
  <2>9. KeysInOrder'
    BY <1>0, <2>1, Parts DEF KeysInOrder
  <2> QED BY <2>3, <2>4, <2>5, <2>7, <2>8, <2>9 DEF Shape
<1> QED BY <1>1, <1>2, <1>3, TreeStep

LEMMA GroundedStep == IInv /\ [Next]_vars => Grounded'
<1> SUFFICES ASSUME IInv, [Next]_vars PROVE Grounded'
  OBVIOUS
<1>0. Shape /\ Grounded
  BY DEF IInv
<1>1. CASE Keeps
  BY <1>0, <1>1, Parts DEF Keeps, Grounded
<1>2. ASSUME NEW t \in Threads, NEW l \in Leaves, NEW i \in Internals, Grows(t, l, i),
             NEW S \in SUBSET Inner', S # {}
      PROVE  \E m \in S : \A d \in {0, 1} : child'[m][d] \notin S
  <2>1. /\ Inner' = Inner \cup {i} /\ l \notin Inner' /\ n[t] \notin Inner'
        /\ \A d \in {0, 1} : child'[i][d] \in {l, n[t]}
        /\ \A d \in {0, 1} : child'[p[t]][d] \in {i, child[p[t]][d]}
        /\ \A m \in Inner \ {p[t]} : child'[m] = child[m]
    <3>1. /\ Inner' = Inner \cup {i} /\ n[t] \in Outer
          /\ \A d \in {0, 1} : child'[p[t]][d] \in {i, child[p[t]][d]}
      BY <1>2 DEF Grows
    <3> QED BY <1>2, <3>1, GrowsAside, Parts
  <2>2. CASE i \in S
    BY <1>2, <2>1, <2>2
  <2>3. CASE i \notin S
    <3>1. PICK m \in S : \A d \in {0, 1} : child[m][d] \notin S
      BY <1>0, <1>2, <2>1, <2>3 DEF Grounded
    <3> QED BY <1>2, <2>1, <2>3, <3>1
  <2> QED BY <2>2, <2>3
<1>3. ASSUME NEW t \in Threads, Cuts(t), NEW S \in SUBSET Inner', S # {}
      PROVE  \E m \in S : \A d \in {0, 1} : child'[m][d] \notin S
  <2>1. /\ Inner' = Inner \ {p[t]} /\ p[t] \in Inner /\ gp[t] # p[t]
        /\ pDir(t) \in {0, 1} /\ child[gp[t]][pDir(t)] = p[t]
        /\ \E d \in {0, 1} : child[p[t]][d] = sibling[t]
        /\ \A d \in {0, 1} : child'[gp[t]][d] \in {sibling[t], child[gp[t]][d]}
        /\ \A m \in Inner \ {gp[t]} : child'[m] = child[m]
    BY <1>3, CutsAside, Parts DEF Cuts
  <2>2. CASE gp[t] \in S /\ sibling[t] \in S
    <3>1. PICK m \in S \cup {p[t]} : \A d \in {0, 1} : child[m][d] \notin S \cup {p[t]}
      <4>1. S \cup {p[t]} \in SUBSET Inner /\ S \cup {p[t]} # {}
        BY <1>3, <2>1
      <4> QED BY <1>0, <4>1 DEF Grounded
    <3>2. m # p[t] /\ m # gp[t]
      BY <2>1, <2>2, <3>1
    <3> QED BY <1>3, <2>1, <3>1, <3>2
  <2>3. CASE gp[t] \notin S \/ sibling[t] \notin S
    <3>1. PICK m \in S : \A d \in {0, 1} : child[m][d] \notin S
      BY <1>0, <1>3, <2>1 DEF Grounded
    <3> QED BY <1>3, <2>1, <2>3, <3>1
  <2> QED BY <2>2, <2>3
<1> QED BY <1>1, <1>2, <1>3, TreeStep DEF Grounded

-----------------------------------------------------------------------------
\* What the steps do to the ways.

LEMMA NextWay ==
    ASSUME NEW k, NEW m \in Inner', On(m, k)'
    PROVE  On(Toward(m, k), k)'
  BY DEF On, Leads, Closed

LEMMA WaysGrow ==
    ASSUME NEW t \in Threads, NEW l \in Leaves, NEW i \in Internals, Grows(t, l, i),
           NEW k, NEW m \in Tree, On(m, k), m = n[t] => Toward(i, k)' = n[t]
    PROVE  On(m, k)'
<1> DEFINE d0 == Direction(arg[t], key[p[t]])
<1>1. /\ Inner' = Inner \cup {i} /\ n[t] \notin Inner /\ n[t] \in Places /\ p[t] \in Inner
      /\ child[p[t]][d0] = n[t]
      /\ \A x \in Inner : key'[x] = key[x] /\ (x # p[t] => child'[x] = child[x])
      /\ \A d \in {0, 1} : child'[p[t]][d] = IF d = d0 THEN i ELSE child[p[t]][d]
  BY GrowsAside, Parts DEF Grows, Toward
<1>2. \A x \in Inner : \/ Toward(x, k)' = Toward(x, k)
                       \/ Toward(x, k)' = i /\ Toward(x, k) = n[t]
  BY <1>1 DEF Toward, Direction
<1> SUFFICES ASSUME NEW S \in SUBSET Places, Root \in S, Closed(S, k)', m \notin S PROVE FALSE
  BY DEF On, Leads
<1>3. \A x \in S \cap Inner : Toward(x, k)' \in S
  BY <1>1 DEF Closed
<1>4. S \cup {n[t]} \in SUBSET Places /\ Closed(S \cup {n[t]}, k)
  BY <1>1, <1>2, <1>3 DEF Closed
<1>5. m = n[t]
  BY <1>4 DEF On, Leads
<1>6. \A x \in S \cap Inner : Toward(x, k)' # i
  BY <1>1, <1>5 DEF Closed
<1>7. Closed(S, k)
  BY <1>2, <1>3, <1>6 DEF Closed
<1> QED BY <1>7 DEF On, Leads

LEMMA WaysCut ==
    ASSUME IInv, NEW t \in Threads, Cuts(t),
           NEW k, NEW m \in Tree \ {p[t], n[t]}, On(m, k)
    PROVE  On(m, k)'
<1>0. Shape
  BY DEF IInv
<1>1. /\ Inner' = Inner \ {p[t]} /\ p[t] \in Inner /\ n[t] \notin Inner /\ p[t] # Root
      /\ gp[t] \in Inner /\ gp[t] # p[t]
      /\ p[t] \in Places /\ n[t] \in Places
      /\ pDir(t) \in {0, 1} /\ child[gp[t]][pDir(t)] = p[t]
      /\ {child[p[t]][0], child[p[t]][1]} = {n[t], sibling[t]}
      /\ \A x \in Inner : key'[x] = key[x] /\ (x # gp[t] => child'[x] = child[x])
      /\ \A d \in {0, 1} : child'[gp[t]][d] = IF d = pDir(t) THEN sibling[t] ELSE child[gp[t]][d]
  BY CutsAside, Parts DEF Cuts
<1>2. \A x \in Inner : \/ Toward(x, k)' = Toward(x, k) /\ Toward(x, k) # p[t]
                       \/ x = gp[t] /\ Toward(x, k)' = sibling[t] /\ Toward(x, k) = p[t]
  BY <1>0, <1>1 DEF Toward, Direction, Shape
<1>3. Toward(p[t], k) \in {n[t], sibling[t]}
  BY <1>1 DEF Toward, Direction
<1> SUFFICES ASSUME NEW S \in SUBSET Places, Root \in S, Closed(S, k)' PROVE m \in S
  BY DEF On, Leads
<1>4. \A x \in (S \cap Inner) \ {p[t]} : Toward(x, k)' \in S
  BY <1>1 DEF Closed
<1>5. CASE gp[t] \in S /\ Toward(gp[t], k) = p[t]
  <2> DEFINE T == S \cup {p[t], n[t]}
  <2>1. sibling[t] \in S
    BY <1>1, <1>2, <1>4, <1>5
  <2>2. T \in SUBSET Places /\ Root \in T
    BY <1>1
  <2>3. Closed(T, k)
    BY <1>1, <1>2, <1>3, <1>4, <2>1 DEF Closed
  <2> QED BY <2>2, <2>3 DEF On, Leads
<1>6. CASE ~(gp[t] \in S /\ Toward(gp[t], k) = p[t])
  <2> DEFINE T == S \ {p[t]}
  <2>1. T \in SUBSET Places /\ Root \in T
    BY <1>1
  <2>2. Closed(T, k)
    BY <1>1, <1>2, <1>4, <1>6 DEF Closed
  <2> QED BY <2>1, <2>2 DEF On, Leads
<1> QED BY <1>5, <1>6

LEMMA RoutedStep == IInv /\ [Next]_vars => Routed'
<1> SUFFICES ASSUME IInv, [Next]_vars PROVE Routed'
  OBVIOUS
<1>0. Routed /\ TypeOK
  BY DEF IInv
<1>1. CASE Keeps
  BY <1>0, <1>1, SameWays, Parts DEF Keeps, Routed
<1>2. ASSUME NEW t \in Threads, NEW l \in Leaves, NEW i \in Internals, Grows(t, l, i)
      PROVE  Routed'
  <2>0. /\ Outer' = Outer \cup {l} /\ n[t] \in Outer /\ p[t] \in Inner /\ p[t] \in Inner'
        /\ i \in Inner' /\ key'[l] = arg[t] /\ On(p[t], arg[t])
        /\ arg[t] \in Int /\ key[n[t]] \in Int
        /\ \A m \in Tree : key'[m] = key[m]
    BY <1>0, <1>2, GrowsAside, KeyType, Parts DEF Grows
  <2>1. \A k : /\ k = key[n[t]] => Toward(i, k)' = n[t]
               /\ k = arg[t] => Toward(i, k)' = l
    <3> SUFFICES ASSUME NEW k
                 PROVE  /\ k = key[n[t]] => Toward(i, k)' = n[t]
                        /\ k = arg[t] => Toward(i, k)' = l
      OBVIOUS
    <3>1. CASE arg[t] < key[n[t]] /\ key'[i] = arg[t] /\ child'[i][0] = l /\ child'[i][1] = n[t]
      BY <2>0, <3>1 DEF Toward, Direction
    <3>2. CASE key[n[t]] < arg[t] /\ key'[i] = key[n[t]] /\ child'[i][0] = n[t] /\ child'[i][1] = l
      BY <2>0, <3>2 DEF Toward, Direction
    <3> QED BY <1>2, <3>1, <3>2 DEF Grows
  <2>2. ASSUME NEW m \in Outer, NEW k, k = key[m] PROVE On(m, k)'
    <3>1. On(m, k) /\ m \in Tree
      BY <1>0, <2>2, Parts DEF Routed
    <3> QED BY <1>2, <2>1, <2>2, <3>1, WaysGrow
  <2>3. ASSUME NEW k, k = arg[t], NEW q, q = p[t] PROVE On(l, k)'
    <3>1. On(q, k) /\ q \in Tree /\ q # n[t] /\ q \in Inner'
      BY <2>0, <2>3, Parts
    <3>2. On(q, k)'
      BY <1>2, <3>1, WaysGrow
    <3>3. Toward(q, k)' = i
      BY <1>2, <2>0, <2>3, Parts DEF Grows, Toward, Direction
    <3>4. On(i, k)'
      BY <3>1, <3>2, <3>3, NextWay
    <3> QED BY <2>0, <2>1, <2>3, <3>4, NextWay
  <2>4. ASSUME NEW m \in Outer', NEW k, k = key'[m] PROVE On(m, k)'
    <3>1. CASE m = l
      BY <2>0, <2>3, <2>4, <3>1
    <3>2. CASE m # l
      BY <2>0, <2>2, <2>4, <3>2, Parts
    <3> QED BY <3>1, <3>2
  <2> QED BY <2>4 DEF Routed
<1>3. ASSUME NEW t \in Threads, Cuts(t) PROVE Routed'
  <2>1. ASSUME NEW m \in Outer', NEW k, k = key'[m] PROVE On(m, k)'
    <3>1. m \in Outer /\ m \in Tree \ {p[t], n[t]} /\ k = key[m]
      <4>1. m \in Outer \ {n[t]} /\ p[t] \in Inner /\ key' = key
        BY <1>3, <2>1 DEF Cuts
      <4>2. m # p[t] /\ m \in Tree
        BY <4>1, Parts
      <4> QED BY <2>1, <4>1, <4>2
    <3>2. On(m, k)
      BY <1>0, <3>1 DEF Routed
    <3> QED BY <1>3, <3>1, <3>2, WaysCut
  <2> QED BY <2>1 DEF Routed
<1> QED BY <1>1, <1>2, <1>3, TreeStep

LEMMA MarksStep == IInv /\ [Next]_vars => Marks'
<1> SUFFICES ASSUME IInv, [Next]_vars PROVE Marks'
  OBVIOUS
<1>0. TypeOK /\ Marks
  BY DEF IInv
<1>1. CASE UNCHANGED memory
  BY <1>0, <1>1 DEF memory, fields, Marks
<1>2. ASSUME NEW t \in Threads, NEW l \in Leaves, NEW i \in Internals, Grows(t, l, i) PROVE Marks'
  <2>1. /\ where' = [where EXCEPT ![l] = "linked", ![i] = "linked"] /\ marked' = marked
        /\ l \in Nodes /\ i \in Nodes
    BY <1>2, Distinct DEF Grows
  <2> QED BY <1>0, <2>1 DEF Marks, TypeOK
<1>3. ASSUME NEW t \in Threads, Cuts(t) PROVE Marks'
  <2>1. /\ where' = [where EXCEPT ![n[t]] = "erased", ![p[t]] = "erased"]
        /\ marked' = [marked EXCEPT ![n[t]] = TRUE, ![p[t]] = TRUE]
        /\ n[t] \in Nodes /\ p[t] \in Nodes /\ Nodes \subseteq Places
    BY <1>3, Parts, Distinct DEF Cuts
  <2> QED BY <1>0, <2>1 DEF Marks, TypeOK
<1>4. ASSUME NEW t \in Threads, Retire(t) PROVE Marks'
  <2>1. /\ where' = [where EXCEPT ![n[t]] = "retired", ![p[t]] = "retired"] /\ marked' = marked
        /\ where[n[t]] = "erased" /\ where[p[t]] = "erased"
        /\ n[t] \in Nodes /\ p[t] \in Nodes
    BY <1>4, RetireSteps, Distinct DEF fields
  <2> QED BY <1>0, <2>1 DEF Marks, TypeOK
<1>5. ASSUME NEW t \in Threads, Return(t) PROVE Marks'
  BY <1>0, <1>5, ReturnSteps DEF Marks, fields
<1>6. ASSUME NEW m \in Nodes, Free(m) PROVE Marks'
  <2>1. /\ where' = [where EXCEPT ![m] = "free"] /\ marked'[m] = FALSE
        /\ \A o \in Places \ {m} : marked'[o] = marked[o]
    BY <1>0, <1>6, FreeSteps
  <2> QED BY <1>0, <2>1, Distinct DEF Marks, TypeOK
<1> QED BY <1>1, <1>2, <1>3, <1>4, <1>5, <1>6, MemoryStep, InsertGrows, InsertFails, EraseCuts,
           EraseFails

\* A node that is not free keeps its key; what a guard keeps keeps its children too.
LEMMA SafeStays ==
    ASSUME IInv, [Next]_vars, NEW t \in Threads, pc[t] # "idle", pc'[t] # "idle",
           NEW m, Safe(t, m)
    PROVE  /\ Safe(t, m)' /\ m \in Places /\ key'[m] = key[m]
           /\ m \notin Tree => child'[m] = child[m] /\ m \notin Tree'
<1>0. TypeOK /\ m \in Places
  BY Parts, Distinct DEF IInv, Safe
<1>1. CASE UNCHANGED memory
  BY <1>0, <1>1 DEF memory, fields, Safe, Tree, Inner, Outer
<1>2. ASSUME NEW u \in Threads, NEW l \in Leaves, NEW i \in Internals, Grows(u, l, i)
      PROVE  /\ Safe(t, m)' /\ key'[m] = key[m]
             /\ m \notin Tree => child'[m] = child[m] /\ m \notin Tree'
  <2>1. /\ where' = [where EXCEPT ![l] = "linked", ![i] = "linked"] /\ graced' = graced
        /\ where[l] = "free" /\ where[i] = "free"
        /\ Tree' = Tree \cup {l, i} /\ l \notin Tree /\ i \notin Tree /\ p[u] \in Tree
        /\ \A o \in Places \ {l, i} : key'[o] = key[o]
        /\ \A o \in Places \ {p[u], i} : child'[o] = child[o]
    <3>1. /\ where' = [where EXCEPT ![l] = "linked", ![i] = "linked"] /\ graced' = graced
          /\ where[l] = "free" /\ where[i] = "free" /\ p[u] \in Inner
          /\ \A o \in Places \ {l, i} : key'[o] = key[o]
      BY <1>2 DEF Grows
    <3>2. \A o \in Places \ {p[u], i} : child'[o] = child[o]
      BY <1>2 DEF Grows
    <3> QED BY <1>2, <3>1, <3>2, GrowsAside, Parts
  <2>2. m # l /\ m # i
    BY <2>1 DEF Safe
  <2>3. m \in Nodes => where'[m] = where[m]
    BY <1>0, <2>1, <2>2 DEF TypeOK
  <2> QED BY <1>0, <2>1, <2>2, <2>3 DEF Safe
<1>3. ASSUME NEW u \in Threads, Cuts(u)
      PROVE  /\ Safe(t, m)' /\ key'[m] = key[m]
             /\ m \notin Tree => child'[m] = child[m] /\ m \notin Tree'
  <2>1. /\ where' = [where EXCEPT ![n[u]] = "erased", ![p[u]] = "erased"] /\ graced' = graced
        /\ Tree' = Tree \ {n[u], p[u]} /\ n[u] \in Nodes /\ p[u] \in Nodes /\ gp[u] \in Tree
        /\ \A o \in Places : key'[o] = key[o] /\ (o # gp[u] => child'[o] = child[o])
    BY <1>3, CutsAside, Parts, Distinct DEF Cuts
  <2>2. m \in Nodes => where'[m] = IF m \in {n[u], p[u]} THEN "erased" ELSE where[m]
    BY <1>0, <2>1 DEF TypeOK
  <2> QED BY <1>0, <2>1, <2>2 DEF Safe
<1>4. ASSUME NEW u \in Threads, Retire(u)
      PROVE  /\ Safe(t, m)' /\ key'[m] = key[m]
             /\ m \notin Tree => child'[m] = child[m] /\ m \notin Tree'
  <2>1. /\ where' = [where EXCEPT ![n[u]] = "retired", ![p[u]] = "retired"]
        /\ graced' = [graced EXCEPT ![n[u]] = InGuard, ![p[u]] = InGuard]
        /\ Inner' = Inner /\ Outer' = Outer /\ key' = key /\ child' = child
        /\ where[n[u]] = "erased" /\ where[p[u]] = "erased"
        /\ n[u] \in Nodes /\ p[u] \in Nodes /\ t \in InGuard
    BY <1>4, RetireSteps, Distinct DEF fields, InGuard
  <2>2. m \in Nodes => \/ where'[m] = where[m] /\ graced'[m] = graced[m]
                       \/ where'[m] = "retired" /\ graced'[m] = InGuard
    BY <1>0, <2>1 DEF TypeOK
  <2> QED BY <2>1, <2>2 DEF Safe, Tree
<1>5. ASSUME NEW u \in Threads, Return(u)
      PROVE  /\ Safe(t, m)' /\ key'[m] = key[m]
             /\ m \notin Tree => child'[m] = child[m] /\ m \notin Tree'
  <2>1. u # t
    BY <1>0, <1>5 DEF Return, Goto, TypeOK
  <2> QED BY <1>5, <2>1, ReturnSteps DEF Safe, Tree, fields
<1>6. ASSUME NEW o \in Nodes, Free(o)
      PROVE  /\ Safe(t, m)' /\ key'[m] = key[m]
             /\ m \notin Tree => child'[m] = child[m] /\ m \notin Tree'
  <2>1. /\ where[o] = "retired" /\ graced[o] = {} /\ graced' = graced
        /\ where' = [where EXCEPT ![o] = "free"]
        /\ Inner' = Inner /\ Outer' = Outer
        /\ \A x \in Places \ {o} : key'[x] = key[x] /\ child'[x] = child[x]
    BY <1>0, <1>6, FreeSteps
  <2>2. o \notin Tree
    BY <2>1, Distinct DEF Tree, Inner, Outer
  <2>3. m # o
    BY <2>1, <2>2 DEF Safe
  <2>4. m \in Nodes => where'[m] = where[m]
    BY <1>0, <2>1, <2>3 DEF TypeOK
  <2> QED BY <1>0, <2>1, <2>3, <2>4 DEF Safe, Tree
<1> QED BY <1>0, <1>1, <1>2, <1>3, <1>4, <1>5, <1>6, MemoryStep, InsertGrows, InsertFails,
           EraseCuts, EraseFails

\* Where a search goes to from a node that it is on.
LEMMA NextNode ==
    ASSUME IInv, NEW t \in Threads, pc[t] \in {"search", "erase"},
           NEW m \in {p[t], n[t]} \cap (Internals \cup {Root}), NEW d \in {0, 1}
    PROVE  Safe(t, child[m][d]) /\ child[m][d] \in Places
<1>1. CASE m \in Inner
  BY <1>1, Parts DEF IInv, Shape, Safe
<1>2. CASE m \notin Inner
  <2>1. PICK W \in SUBSET Places : Way(t, W)
    BY DEF IInv, Trails
  <2>2. m \in W /\ m \in Internals \ Inner
    BY <1>2, <2>1, Parts, Distinct DEF Way
  <2> QED BY <2>1, <2>2, Parts, Distinct DEF Way, Safe
<1> QED BY <1>1, <1>2

\* What a search finds at the end of its way.
LEMMA LeafKnown ==
    ASSUME IInv, NEW t \in Threads, pc[t] \in {"search", "erase"},
           NEW m \in Outer, On(m, arg[t])
    PROVE  (key[m] = arg[t]) \in seen[t]
<1>1. arg[t] \in Keys /\ (arg[t] \in Contents) \in seen[t]
  BY DEF IInv, Searches, Searching, Knows
<1>2. key[m] = arg[t] <=> arg[t] \in Contents
  BY <1>1, LeafTells DEF IInv
<1>3. (key[m] = arg[t]) = (arg[t] \in Contents)
  BY <1>2
<1> QED BY <1>1, <1>3

-----------------------------------------------------------------------------
\* What the steps do to the calls.

SameCall(t) == pc'[t] = pc[t] /\ op'[t] = op[t] /\ arg'[t] = arg[t] /\ res'[t] = res[t]
SamePath(t) == gp'[t] = gp[t] /\ p'[t] = p[t] /\ n'[t] = n[t] /\ sibling'[t] = sibling[t]

Starts(t) ==
    /\ pc'[t] = "search" /\ arg'[t] \in Keys /\ op'[t] # "none" /\ res'[t] = "pending"
    /\ gp'[t] = Null /\ p'[t] = Null /\ n'[t] = Root /\ sibling'[t] = Null
    /\ UNCHANGED memory

Descends(t) ==
    /\ pc[t] = "search" /\ n[t] \in Internals \cup {Root} /\ SameCall(t)
    /\ gp'[t] = p[t] /\ p'[t] = n[t] /\ n'[t] = Toward(n[t], arg[t])
    /\ sibling'[t] = sibling[t]
    /\ UNCHANGED memory

ReadsSibling(t) ==
    /\ pc[t] = "search" /\ op[t] = "erase" /\ isLeaf(n[t]) /\ key[n[t]] = arg[t]
    /\ pc'[t] = "erase" /\ op'[t] = op[t] /\ arg'[t] = arg[t] /\ res'[t] = res[t]
    /\ gp'[t] = gp[t] /\ p'[t] = p[t] /\ n'[t] = n[t]
    /\ sibling'[t] = child[p[t]][1 - nDir(t)]
    /\ UNCHANGED memory

Erases(t) ==
    /\ Erase(t) /\ Cuts(t) /\ SamePath(t) /\ arg'[t] = arg[t] /\ op'[t] = op[t]
    /\ pc[t] = "erase" /\ pc'[t] = "retire" /\ res'[t] = "true"

Ends(t) ==
    /\ gp'[t] = Null /\ p'[t] = Null /\ n'[t] = Null /\ sibling'[t] = Null
    /\ \/ /\ pc'[t] = "return" /\ op'[t] = op[t] /\ arg'[t] = arg[t] /\ pc[t] # "idle"
          /\ res'[t] \in {"true", "false"}
       \/ pc'[t] = "idle" /\ res'[t] = "pending"

LEMMA Moves ==
    ASSUME IInv, [Next]_vars, NEW t \in Threads
    PROVE  \/ SameCall(t) /\ SamePath(t)
           \/ Starts(t) \/ Descends(t) \/ ReadsSibling(t) \/ Erases(t) \/ Ends(t)
<1>0. TypeOK /\ Searching(t)
  BY DEF IInv, Searches
<1> DEFINE Goal == \/ SameCall(t) /\ SamePath(t)
                   \/ Starts(t) \/ Descends(t) \/ ReadsSibling(t) \/ Erases(t) \/ Ends(t)
<1> USE DEF Goto, StartSearch, Forget, Leave, path, locals, At
<1>1. ASSUME Call(t) PROVE Starts(t)
  <2>1. PICK c \in Calls : op' = [op EXCEPT ![t] = c[1]] /\ arg' = [arg EXCEPT ![t] = c[2]]
    BY <1>1 DEF Call
  <2>2. c[1] # "none" /\ c[2] \in Keys
    BY TreeAssumption DEF Keys
  <2>3. /\ pc' = [pc EXCEPT ![t] = "search"] /\ n' = [n EXCEPT ![t] = Root]
        /\ gp' = [gp EXCEPT ![t] = Null] /\ p' = [p EXCEPT ![t] = Null]
        /\ sibling' = [sibling EXCEPT ![t] = Null] /\ res' = res /\ pc[t] = "idle"
        /\ UNCHANGED memory
    BY <1>1 DEF Call
  <2> QED BY <1>0, <2>1, <2>2, <2>3 DEF Starts, TypeOK, Searching
<1>2. ASSUME Descend(t) PROVE Descends(t)
  <2>1. n[t] \in Internals \cup {Root}
    BY <1>2, Found, Parts DEF Descend
  <2> QED BY <1>0, <1>2, <2>1 DEF Descend, Descends, Toward, SameCall, TypeOK
<1>3. ASSUME NEW r \in {"true", "false"}, NEW o, Searched(t, o), Answer(t, r) PROVE Ends(t)
  BY <1>0, <1>3 DEF Answer, Ends, TypeOK, Searched
<1>4. ASSUME Contains(t) \/ InsertFindsKey(t) \/ EraseFindsNone(t) PROVE Ends(t)
  <2>1. (IF Present(t) THEN "true" ELSE "false") \in {"true", "false"}
    OBVIOUS
  <2> QED BY <1>3, <1>4, <2>1 DEF Contains, InsertFindsKey, EraseFindsNone
<1>5. ASSUME pc[t] \in {"search", "erase"}, StartSearch(t), UNCHANGED <<memory, op, arg>>
      PROVE  Starts(t)
  BY <1>0, <1>5 DEF Starts, TypeOK, Searching
<1>6. ASSUME Insert(t) PROVE Starts(t) \/ Ends(t)
  <2>1. CASE InsertMatches(t)
    BY <1>0, <1>6, <2>1 DEF Insert, InsertWith, Searched, Ends, TypeOK
  <2>2. CASE ~InsertMatches(t)
    BY <1>5, <1>6, <2>2, InsertFails DEF Insert, InsertWith, Searched
  <2> QED BY <2>1, <2>2
<1>7. ASSUME ReadSibling(t) PROVE ReadsSibling(t)
  BY <1>0, <1>7 DEF ReadSibling, ReadsSibling, Searched, Present, TypeOK
<1>8. ASSUME Erase(t) PROVE Starts(t) \/ Erases(t)
  <2>1. CASE EraseMatches(t)
    <3>1. Cuts(t)
      BY <1>8, <2>1, EraseCuts
    <3> QED BY <1>0, <1>8, <2>1, <3>1 DEF Erase, EraseWith, EraseMatches, Erases, SamePath, TypeOK
  <2>2. CASE ~EraseMatches(t)
    <3>1. UNCHANGED <<op, arg>> /\ StartSearch(t) /\ pc[t] = "erase"
      BY <1>8, <2>2 DEF Erase, EraseWith, EraseMatches
    <3> QED BY <1>5, <1>8, <2>2, <3>1, EraseFails
  <2> QED BY <2>1, <2>2
<1>9. ASSUME Retire(t) PROVE Ends(t)
  BY <1>0, <1>9 DEF Retire, Ends, TypeOK, Searching
<1>10. ASSUME Return(t) PROVE Ends(t)
  BY <1>0, <1>10, ZenonT(60) DEF Return, Ends, TypeOK, Searching
<1>11. ASSUME NEW u \in Threads, Call(u) \/ Work(u) PROVE Goal
  <2>1. CASE u = t
    BY <1>1, <1>2, <1>4, <1>6, <1>7, <1>8, <1>9, <1>10, <1>11, <2>1 DEF Work
  <2>2. CASE u # t
    BY <1>0, <1>11, <2>2, OtherCalls DEF SameCall, SamePath
  <2> QED BY <2>1, <2>2
<1>12. ASSUME NEW m \in Nodes, Free(m) PROVE Goal
  BY <1>12 DEF Free, SameCall, SamePath
<1>13. ASSUME UNCHANGED vars PROVE Goal
  BY <1>13 DEF vars, SameCall, SamePath
<1> QED BY <1>11, <1>12, <1>13 DEF Next, CallStep, WorkStep, FreeStep

\* The nodes that a call is going to retire stay its own.
LEMMA RetiringStep ==
    ASSUME IInv, [Next]_vars, NEW t \in Threads, pc'[t] = "retire"
    PROVE  /\ n'[t] = n[t] /\ p'[t] = p[t] /\ n[t] \in Leaves /\ p[t] \in Internals
           /\ where'[n[t]] = "erased" /\ where'[p[t]] = "erased"
           /\ \/ pc[t] = "retire" /\ where[n[t]] = "erased" /\ where[p[t]] = "erased"
              \/ Erases(t) /\ where[n[t]] = "linked" /\ where[p[t]] = "linked"
<1>0. TypeOK /\ Searches
  BY DEF IInv
<1>1. \/ pc[t] = "retire" /\ SamePath(t)
      \/ Erases(t)
  BY Moves DEF SameCall, Starts, Descends, ReadsSibling, Ends
<1>2. CASE Erases(t)
  <2>1. /\ where' = [where EXCEPT ![n[t]] = "erased", ![p[t]] = "erased"]
        /\ n[t] \in Leaves /\ p[t] \in Internals
        /\ n[t] \in Outer /\ p[t] \in Inner
    BY <1>2, Parts, Distinct DEF Erases, Cuts
  <2>2. where[n[t]] = "linked" /\ where[p[t]] = "linked"
    BY <2>1, Distinct DEF Inner, Outer
  <2> QED BY <1>0, <1>2, <2>1, <2>2, Distinct DEF Erases, SamePath, TypeOK
<1>3. CASE pc[t] = "retire" /\ SamePath(t)
  <2>0. /\ n[t] \in Leaves /\ p[t] \in Internals /\ n[t] \in Nodes /\ p[t] \in Nodes
        /\ where[n[t]] = "erased" /\ where[p[t]] = "erased"
    BY <1>0, <1>3, Distinct DEF Searches, Searching
  <2>1. ASSUME NEW m \in {n[t], p[t]} PROVE where'[m] = "erased"
    <3>0. m \in Nodes /\ where[m] = "erased"
      BY <2>0
    <3>1. CASE UNCHANGED memory
      BY <3>0, <3>1 DEF memory
    <3>2. ASSUME NEW u \in Threads, NEW l \in Leaves, NEW i \in Internals, Grows(u, l, i)
          PROVE  where'[m] = "erased"
      BY <1>0, <3>0, <3>2, Distinct DEF Grows, TypeOK
    <3>3. ASSUME NEW u \in Threads, Cuts(u) PROVE where'[m] = "erased"
      BY <1>0, <3>0, <3>3, Distinct DEF Cuts, TypeOK
    <3>4. ASSUME NEW u \in Threads, Retire(u) PROVE where'[m] = "erased"
      <4>1. /\ n[u] \in Leaves /\ p[u] \in Internals /\ pc[u] = "retire" /\ pc'[u] = "return"
            /\ where' = [where EXCEPT ![n[u]] = "retired", ![p[u]] = "retired"]
        BY <1>0, <3>4, RetireSteps DEF Retire, Leave, Goto, At, TypeOK
      <4>2. u # t
        BY <4>1
      <4>3. n[u] # n[t] /\ p[u] # p[t]
        BY <1>0, <1>3, <4>1, <4>2 DEF Searches, Searching
      <4>4. m # n[u] /\ m # p[u]
        BY <2>0, <4>1, <4>3, Distinct
      <4> QED BY <1>0, <3>0, <4>1, <4>4 DEF TypeOK
    <3>5. ASSUME NEW u \in Threads, Return(u) PROVE where'[m] = "erased"
      BY <3>0, <3>5, ReturnSteps
    <3>6. ASSUME NEW o \in Nodes, Free(o) PROVE where'[m] = "erased"
      BY <1>0, <3>0, <3>6, FreeSteps, ZenonT(60) DEF TypeOK
    <3> QED BY <3>1, <3>2, <3>3, <3>4, <3>5, <3>6, MemoryStep, InsertGrows, InsertFails, EraseCuts,
               EraseFails
  <2> QED BY <1>3, <2>0, <2>1 DEF SamePath
<1> QED BY <1>1, <1>2, <1>3

LEMMA OneEraser ==
    ASSUME IInv, [Next]_vars, NEW t \in Threads, NEW u \in Threads, Erases(t), Erases(u)
    PROVE  t = u
<1>1. TypeOK /\ Erase(u) /\ pc[t] = "erase" /\ pc'[t] = "retire"
  BY DEF IInv, Erases
<1> QED BY <1>1, OtherCalls DEF Work

LEMMA SearchesStep == IInv /\ [Next]_vars => Searches'
<1> SUFFICES ASSUME IInv, [Next]_vars, NEW t \in Threads PROVE Searching(t)'
  BY DEF Searches
<1>0. TypeOK /\ Searching(t) /\ Shape
  BY DEF IInv, Searches
<1> DEFINE Retiring == pc[t] = "retire" =>
              /\ n[t] \in Leaves /\ where[n[t]] = "erased"
              /\ p[t] \in Internals /\ where[p[t]] = "erased"
              /\ \A u \in Threads \ {t} : pc[u] = "retire" => n[u] # n[t] /\ p[u] # p[t]
<1>1. Retiring'
  <2> SUFFICES ASSUME pc'[t] = "retire"
               PROVE  /\ n'[t] \in Leaves /\ where'[n'[t]] = "erased"
                      /\ p'[t] \in Internals /\ where'[p'[t]] = "erased"
                      /\ \A u \in Threads \ {t} : pc'[u] = "retire" => n'[u] # n'[t] /\ p'[u] # p'[t]
    OBVIOUS
  <2>1. ASSUME NEW u \in Threads \ {t}, pc'[u] = "retire" PROVE n[u] # n[t] /\ p[u] # p[t]
    <3>1. CASE pc[u] = "retire" /\ pc[t] = "retire"
      BY <1>0, <2>1, <3>1 DEF Searching
    <3>2. ~(Erases(u) /\ Erases(t))
      BY <2>1, OneEraser
    <3> QED BY <2>1, <3>1, <3>2, RetiringStep
  <2> QED BY <2>1, RetiringStep
<1>2. CASE SameCall(t) /\ SamePath(t)
  <2>1. pc[t] = "erase" => key'[n[t]] = key[n[t]]
    <3> SUFFICES ASSUME pc[t] = "erase" PROVE key'[n[t]] = key[n[t]]
      OBVIOUS
    <3>1. Safe(t, n[t]) /\ pc'[t] = "erase"
      BY <1>2, Found DEF SameCall
    <3> QED BY <3>1, SafeStays
  <2> QED BY <1>0, <1>1, <1>2, <2>1 DEF SameCall, SamePath, Searching
<1>3. CASE Starts(t)
  BY <1>1, <1>3, Distinct DEF Starts, Searching
<1>4. CASE Descends(t)
  <2>1. /\ n[t] \in Internals \cup {Root} /\ arg[t] \in Keys /\ op[t] # "none"
        /\ p[t] = Null => n[t] = Root
        /\ {gp[t], p[t]} \subseteq Internals \cup {Root, Null}
        /\ pc'[t] = "search" /\ op'[t] = op[t] /\ arg'[t] = arg[t] /\ res'[t] = "pending"
        /\ gp'[t] = p[t] /\ p'[t] = n[t] /\ n'[t] = child[n[t]][Direction(arg[t], key[n[t]])]
    BY <1>0, <1>4 DEF Descends, SameCall, Searching, Toward
  <2>2. n'[t] # Null
    <3>1. Direction(arg[t], key[n[t]]) \in {0, 1}
      BY DEF Direction
    <3> QED BY <1>4, <2>1, <3>1, NextNode, Parts DEF Descends
  <2>3. n[t] = Root => n'[t] \notin Leaves
    BY <1>0, <2>1, Distinct DEF Shape, Direction
  <2> QED BY <1>1, <2>1, <2>2, <2>3, Distinct DEF Searching
<1>5. CASE ReadsSibling(t)
  <2>1. /\ pc[t] = "search" /\ op[t] = "erase" /\ isLeaf(n[t]) /\ key[n[t]] = arg[t]
        /\ pc'[t] = "erase" /\ op'[t] = op[t] /\ arg'[t] = arg[t] /\ res'[t] = res[t]
        /\ gp'[t] = gp[t] /\ p'[t] = p[t] /\ n'[t] = n[t] /\ key' = key
        /\ sibling'[t] = child[p[t]][1 - nDir(t)]
    BY <1>5 DEF ReadsSibling, memory, fields
  <2>2. arg[t] \in Keys /\ p[t] \in Internals \cup {Root}
    BY <2>1, Found
  <2>3. n[t] \in Leaves
    BY <2>1, <2>2, KeyType, <1>0 DEF IInv, KeysInOrder, isLeaf
  <2>4. sibling'[t] # Null
    <3>1. 1 - nDir(t) \in {0, 1}
      BY DEF nDir, Direction
    <3> QED BY <2>1, <2>2, <3>1, NextNode, Parts
  <2> QED BY <1>0, <1>1, <2>1, <2>2, <2>3, <2>4 DEF Searching
<1>6. CASE Erases(t)
  <2>1. /\ arg[t] \in Keys /\ op[t] # "none" /\ pc'[t] = "retire" /\ res'[t] = "true"
        /\ arg'[t] = arg[t] /\ op'[t] = op[t]
    BY <1>0, <1>6 DEF Erases, Searching
  <2> QED BY <1>1, <2>1 DEF Searching
<1>7. CASE Ends(t)
  BY <1>0, <1>1, <1>7 DEF Ends, Searching
<1> QED BY <1>2, <1>3, <1>4, <1>5, <1>6, <1>7, Moves

LEMMA HeldStep == IInv /\ [Next]_vars => Held'
<1> SUFFICES ASSUME IInv, [Next]_vars, NEW t \in Threads, NEW m \in {gp'[t], p'[t], n'[t], sibling'[t]},
                    m # Null
             PROVE  Safe(t, m)'
  BY DEF Held
<1>0. Searching(t) /\ Held /\ Searching(t)'
  BY SearchesStep DEF IInv, Searches
<1>1. pc'[t] \notin {"idle", "return"}
  BY <1>0 DEF Searching
<1>2. CASE Starts(t)
  BY <1>2, Parts DEF Starts, Safe, Tree, Inner
<1>3. ASSUME pc[t] # "idle", Safe(t, m) PROVE Safe(t, m)'
  BY <1>1, <1>3, SafeStays
<1>4. CASE SamePath(t) /\ pc[t] # "idle"
  BY <1>0, <1>3, <1>4 DEF SamePath, Held
<1>5. CASE Descends(t)
  <2>1. Direction(arg[t], key[n[t]]) \in {0, 1}
    BY DEF Direction
  <2>2. Safe(t, Toward(n[t], arg[t]))
    BY <1>5, <2>1, NextNode DEF Descends, Toward
  <2> QED BY <1>0, <1>3, <1>5, <2>2 DEF Descends, Held
<1>6. CASE ReadsSibling(t)
  <2>1. 1 - nDir(t) \in {0, 1}
    BY DEF nDir, Direction
  <2>2. p[t] \in Internals \cup {Root} /\ pc[t] = "search"
    BY <1>6, Found DEF ReadsSibling
  <2>3. Safe(t, child[p[t]][1 - nDir(t)])
    BY <2>1, <2>2, NextNode
  <2> QED BY <1>0, <1>3, <1>6, <2>3 DEF ReadsSibling, Held
<1> QED BY <1>1, <1>2, <1>4, <1>5, <1>6, Moves DEF SameCall, Erases, Ends

LEMMA RecordStep ==
    ASSUME [Next]_vars
    PROVE  Record \/ UNCHANGED vars
  BY DEF Next, CallStep, WorkStep, FreeStep

LEMMA ResType == IInv /\ [Next]_vars => res' \in [Threads -> {"pending", "true", "false"}]
<1> SUFFICES ASSUME IInv, [Next]_vars PROVE res' \in [Threads -> {"pending", "true", "false"}]
  OBVIOUS
<1>0. TypeOK
  BY DEF IInv
<1>1. ASSUME NEW t \in Threads PROVE res'[t] \in {"pending", "true", "false"}
  BY <1>0, Moves DEF SameCall, Starts, Descends, ReadsSibling, Erases, Ends, TypeOK
<1>2. res' = [t \in Threads |-> res'[t]]
  <2>1. ASSUME NEW t \in Threads, Call(t) \/ Work(t) PROVE \E r : res' = [res EXCEPT ![t] = r]
    <3>1. ASSUME res' = res PROVE \E r : res' = [res EXCEPT ![t] = r]
      BY <1>0, <3>1 DEF TypeOK
    <3> QED BY <2>1, <3>1 DEF Call, Work, Descend, Contains, InsertFindsKey, EraseFindsNone, Answer,
               Insert, InsertWith, ReadSibling, Erase, EraseWith, Retire, Return, StartSearch, locals
  <2>2. UNCHANGED res \/ \E t \in Threads : \E r : res' = [res EXCEPT ![t] = r]
    BY <2>1 DEF Next, CallStep, WorkStep, FreeStep, Free, locals, vars
  <2> QED BY <1>0, <2>2 DEF TypeOK
<1> QED BY <1>1, <1>2

LEMMA SeenStep ==
    ASSUME IInv, [Next]_vars, NEW t \in Threads
    PROVE  /\ seen'[t] \in SUBSET BOOLEAN
           /\ pc'[t] # "idle" => (arg'[t] \in Contents') \in seen'[t]
           /\ pc[t] # "idle" /\ pc'[t] # "idle" => seen[t] \subseteq seen'[t]
<1>0. TypeOK /\ Knows
  BY DEF IInv
<1>1. CASE Next
  <2>1. /\ seen' = [u \in Threads |-> Set!Observe(u)]
        /\ Status' = [u \in Threads |-> IF pc'[u] = "idle" THEN "idle" ELSE res'[u]]
        /\ Status = [u \in Threads |-> IF pc[u] = "idle" THEN "idle" ELSE res[u]]
    BY <1>1 DEF Next, CallStep, WorkStep, FreeStep, Record, Status
  <2>2. seen'[t] = IF Status'[t] = "idle" THEN {}
                   ELSE (IF Status[t] = "idle" THEN {} ELSE seen[t]) \cup {arg'[t] \in Contents'}
    BY <2>1 DEF Set!Observe
  <2>3. (Status'[t] = "idle" <=> pc'[t] = "idle") /\ (Status[t] = "idle" <=> pc[t] = "idle")
    BY <1>0, <2>1, ResType DEF TypeOK
  <2>4. (arg'[t] \in Contents') \in BOOLEAN /\ seen[t] \in SUBSET BOOLEAN
    BY <1>0 DEF TypeOK
  <2>5. (arg'[t] \in Contents') \in {arg'[t] \in Contents'}
    OBVIOUS
  <2> QED BY <2>2, <2>3, <2>4, <2>5
<1>2. CASE UNCHANGED vars
  <2>1. Contents' = Contents
    BY <1>2 DEF Contents, Linked, vars, memory, fields
  <2> QED BY <1>0, <1>2, <2>1 DEF Knows, TypeOK, vars
<1> QED BY <1>1, <1>2

LEMMA KnowsStep == IInv /\ [Next]_vars => Knows'
  BY SeenStep DEF Knows

\* A node of a trail that this step does not erase.
LEMMA TrailStays ==
    ASSUME IInv, [Next]_vars, NEW t \in Threads, pc[t] \in {"search", "erase"},
           pc'[t] \in {"search", "erase"}, NEW k, k = arg[t], k = arg'[t],
           NEW W \in SUBSET Places, Way(t, W),
           NEW m \in W, ~\E u \in Threads : Cuts(u) /\ m = p[u]
    PROVE  /\ Safe(t, m)'
           /\ m \in Inner' => On(m, k)'
           /\ isLeaf(m) => (key'[m] = k) \in seen'[t]
           /\ m \in Internals \ Inner' =>
                 Toward(m, k)' \in W /\ \A d \in {0, 1} : Safe(t, child[m][d])'
<1>1. /\ Safe(t, m) /\ (m \in Inner => On(m, k))
      /\ isLeaf(m) => (key[m] = k) \in seen[t]
      /\ m \in Internals \ Inner => Toward(m, k) \in W /\ \A d \in {0, 1} : Safe(t, child[m][d])
  BY DEF Way
<1>2. /\ Safe(t, m)' /\ m \in Places /\ key'[m] = key[m]
      /\ m \notin Tree => child'[m] = child[m] /\ m \notin Tree'
  BY <1>1, SafeStays
<1>3. isLeaf(m) => (key'[m] = k) \in seen'[t]
  BY <1>1, <1>2, SeenStep
<1>4. /\ m \in Inner' => On(m, k)'
      /\ m \in Internals \ Inner' => m \notin Inner
  <2>1. CASE Keeps
    BY <1>1, <2>1, SameWays, Parts DEF Keeps
  <2>2. ASSUME NEW u \in Threads, NEW l \in Leaves, NEW i \in Internals, Grows(u, l, i)
        PROVE  (m \in Inner' => On(m, k)') /\ (m \in Internals \ Inner' => m \notin Inner)
    <3>1. Inner' = Inner \cup {i} /\ n[u] \notin Inner /\ i \notin Tree /\ Inner' \subseteq Tree'
      BY <2>2, GrowsAside, Parts DEF Grows, Tree
    <3>2. m \in Inner' => m \in Inner
      BY <1>2, <3>1
    <3>3. m \in Inner => On(m, k)'
      BY <1>1, <2>2, <3>1, WaysGrow, Parts
    <3> QED BY <3>1, <3>2, <3>3
  <2>3. ASSUME NEW u \in Threads, Cuts(u)
        PROVE  (m \in Inner' => On(m, k)') /\ (m \in Internals \ Inner' => m \notin Inner)
    <3>1. Inner' = Inner \ {p[u]} /\ m # p[u] /\ n[u] \notin Inner
      BY <2>3, Parts DEF Cuts
    <3> QED BY <1>1, <2>3, <3>1, WaysCut, Parts
  <2> QED BY <2>1, <2>2, <2>3, TreeStep
<1>5. ASSUME m \in Internals \ Inner'
      PROVE  Toward(m, k)' \in W /\ \A d \in {0, 1} : Safe(t, child[m][d])'
  <2>1. m \in Internals \ Inner /\ m \notin Tree
    BY <1>4, <1>5, Parts, Distinct
  <2>2. child'[m] = child[m] /\ Toward(m, k)' = Toward(m, k)
    BY <1>2, <2>1 DEF Toward
  <2>3. ASSUME NEW d \in {0, 1}, NEW c, c = child[m][d] PROVE Safe(t, c)'
    BY <1>1, <2>1, <2>3, SafeStays
  <2> QED BY <1>1, <2>1, <2>2, <2>3
<1> QED BY <1>2, <1>3, <1>4, <1>5

\* A trail goes on where a search would go.
LEMMA TrailExtends ==
    ASSUME IInv, NEW t \in Threads, pc[t] \in {"search", "erase"},
           NEW W \in SUBSET Places, Way(t, W), NEW m \in W \cap Inner
    PROVE  /\ W \cup {Toward(m, arg[t])} \in SUBSET Places
           /\ Way(t, W \cup {Toward(m, arg[t])})
<1> DEFINE c == Toward(m, arg[t])
<1>1. Direction(arg[t], key[m]) \in {0, 1}
  BY DEF Direction
<1>2. c \in Tree /\ c \in Places
  BY <1>1, Parts DEF IInv, Shape, Toward
<1>3. On(c, arg[t])
  BY WayGoesOn DEF Way
<1>4. isLeaf(c) => (key[c] = arg[t]) \in seen[t]
  BY <1>2, <1>3, LeafKnown, Parts
<1>5. Safe(t, c) /\ ~(c \in Internals \ Inner)
  BY <1>2, Parts, Distinct DEF Safe
<1> HIDE DEF c
<1> QED BY <1>2, <1>3, <1>4, <1>5 DEF Way, c

LEMMA TrailsStep == IInv /\ [Next]_vars => Trails'
<1> SUFFICES ASSUME IInv, [Next]_vars, NEW t \in Threads, pc'[t] \in {"search", "erase"}
             PROVE  \E W \in SUBSET Places : Way(t, W)'
  BY DEF Trails
<1>0. Shape /\ TypeOK
  BY DEF IInv
<1>1. CASE Starts(t)
  <2>1. {gp'[t], p'[t], n'[t]} \subseteq {Root} \cup {Null}
    BY <1>1 DEF Starts
  <2>2. ASSUME NEW k PROVE On(Root, k)'
    BY DEF On, Leads
  <2>3. Safe(t, Root)' /\ ~isLeaf(Root) /\ Root \notin Internals /\ {Root} \in SUBSET Places
    BY Distinct, Parts DEF Safe, Tree, Inner
  <2>4. Way(t, {Root})'
    BY <2>1, <2>2, <2>3 DEF Way
  <2> QED BY <2>3, <2>4
<1>2. CASE ~Starts(t)
  <2>0. PICK k : k = arg[t]
    OBVIOUS
  <2>1. /\ pc[t] \in {"search", "erase"} /\ k = arg'[t] /\ ~Erases(t)
        /\ SamePath(t) \/ Descends(t) \/ ReadsSibling(t)
    BY <1>2, <2>0, Moves DEF SameCall, Descends, ReadsSibling, Erases, Ends
  <2>2. PICK W \in SUBSET Places : Way(t, W)
    BY <2>1 DEF IInv, Trails
  <2>3. CASE \E u \in Threads : Cuts(u) /\ p[u] \in W
    <3>1. PICK u \in Threads : Cuts(u) /\ p[u] \in W
      BY <2>3
    <3>2. /\ p[u] \in Inner /\ p[u] \notin Inner' /\ p[u] # gp[u] /\ gp[u] \in Inner
          /\ pDir(u) \in {0, 1} /\ child[gp[u]][pDir(u)] = p[u] /\ p[u] # sibling[u]
          /\ child'[gp[u]][pDir(u)] = sibling[u]
          /\ \A v \in Threads : Cuts(v) => p[v] = p[u]
      BY <3>1, CutsAside DEF Cuts
    <3>3. PICK V \in SUBSET Places : W \subseteq V /\ Toward(p[u], k) \in V /\ Way(t, V)
      BY <2>0, <2>1, <2>2, <3>1, <3>2, TrailExtends
    <3>4. SamePath(t)
      BY <2>1, <3>2 DEF Descends, ReadsSibling, memory, fields
    <3>5. p[u] \in Places /\ ~isLeaf(p[u]) /\ Safe(t, p[u])
      BY <3>2, Parts DEF Safe
    <3>6. key'[p[u]] = key[p[u]] /\ child'[p[u]] = child[p[u]]
      BY <3>1, <3>2, <3>5, CutsAside
    <3>7. ASSUME NEW d \in {0, 1}, NEW x, x = child[p[u]][d] PROVE Safe(t, x)'
      <4>1. Safe(t, x)
        BY <1>0, <3>2, <3>7 DEF Shape, Safe
      <4> QED BY <2>1, <4>1, SafeStays
    <3>8. ASSUME NEW q, q = p[u]
          PROVE  /\ Safe(t, q)' /\ q \notin Inner' /\ ~isLeaf(q)
                 /\ Toward(q, k)' \in V /\ \A d \in {0, 1} : Safe(t, child[q][d])'
      <4>1. Safe(t, q)'
        BY <2>1, <3>5, <3>8, SafeStays
      <4>2. child'[q] = child[q] /\ key'[q] = key[q]
        BY <3>6, <3>8
      <4>3. Toward(q, k)' \in V
        BY <3>3, <3>8, <4>2 DEF Toward
      <4>4. \A d \in {0, 1} : Safe(t, child[q][d])'
        BY <3>7, <3>8, <4>2
      <4> QED BY <3>2, <3>5, <3>8, <4>1, <4>3, <4>4
    <3>9. ASSUME NEW m \in V, m # p[u]
          PROVE  /\ Safe(t, m)'
                 /\ m \in Inner' => On(m, k)'
                 /\ isLeaf(m) => (key'[m] = k) \in seen'[t]
                 /\ m \in Internals \ Inner' =>
                       Toward(m, k)' \in V /\ \A d \in {0, 1} : Safe(t, child[m][d])'
      BY <2>0, <2>1, <3>2, <3>3, <3>9, TrailStays
    <3>10. {gp'[t], p'[t], n'[t]} \subseteq V \cup {Null}
      BY <3>3, <3>4 DEF Way, SamePath
    <3>11. Way(t, V)'
      BY <2>1, <3>8, <3>9, <3>10 DEF Way
    <3> QED BY <3>3, <3>11
  <2>4. CASE ~\E u \in Threads : Cuts(u) /\ p[u] \in W
    <3>1. PICK V \in SUBSET Places : /\ Way(t, V) /\ n'[t] \in V
                                     /\ \/ V = W
                                        \/ Descends(t)
      <4>1. n[t] \in W
        BY <2>1, <2>2, Found DEF Way
      <4>2. CASE Descends(t) /\ n[t] \in Inner
        <5>1. n'[t] = Toward(n[t], arg[t]) /\ n[t] \in W \cap Inner
          BY <4>1, <4>2 DEF Descends
        <5>2. W \cup {n'[t]} \in SUBSET Places /\ Way(t, W \cup {n'[t]})
          BY <2>1, <2>2, <5>1, TrailExtends
        <5> QED BY <4>2, <5>2
      <4>3. CASE Descends(t) /\ n[t] \notin Inner
        BY <2>2, <4>1, <4>3, Parts, Distinct DEF Descends, Way
      <4>4. CASE ~Descends(t)
        BY <2>1, <2>2, <4>1, <4>4 DEF SamePath, ReadsSibling
      <4> QED BY <4>2, <4>3, <4>4
    <3>3. {gp'[t], p'[t], n'[t]} \subseteq V \cup {Null}
      BY <2>1, <3>1 DEF Way, SamePath, Descends, ReadsSibling
    <3>4. ASSUME NEW u \in Threads, Cuts(u) PROVE p[u] \notin V
      <4>1. ~Descends(t)
        BY <3>4 DEF Cuts, Descends, memory, fields
      <4> QED BY <2>4, <3>1, <3>4, <4>1
    <3>5. ASSUME NEW m \in V
          PROVE  /\ Safe(t, m)'
                 /\ m \in Inner' => On(m, k)'
                 /\ isLeaf(m) => (key'[m] = k) \in seen'[t]
                 /\ m \in Internals \ Inner' =>
                       Toward(m, k)' \in V /\ \A d \in {0, 1} : Safe(t, child[m][d])'
      <4>1. ~\E u \in Threads : Cuts(u) /\ m = p[u]
        BY <3>4, <3>5
      <4> QED BY <2>0, <2>1, <3>1, <3>5, <4>1, TrailStays
    <3>6. Way(t, V)'
      BY <2>1, <3>3, <3>5 DEF Way
    <3> QED BY <3>1, <3>6
  <2> QED BY <2>3, <2>4
<1> QED BY <1>1, <1>2

LEMMA TypeStep == IInv /\ [Next]_vars => TypeOK'
<1> SUFFICES ASSUME IInv, [Next]_vars PROVE TypeOK'
  OBVIOUS
<1>0. /\ TypeOK /\ Searches
      /\ Root \in Pointers /\ Null \in Pointers /\ Places \subseteq Pointers
      /\ Keys \subseteq -1 .. MaxKey + 1 /\ -1 \in -1 .. MaxKey + 1
      /\ InGuard \subseteq Threads
  BY TreeAssumption, Distinct DEF IInv, Pointers, Keys, InGuard
<1> DEFINE Memory ==
              /\ key \in [Places -> -1 .. MaxKey + 1] /\ marked \in [Places -> BOOLEAN]
              /\ child \in [Places -> [{0, 1} -> Pointers]]
              /\ where \in [Nodes -> {"free", "linked", "erased", "retired"}]
              /\ graced \in [Nodes -> SUBSET Threads]
           Locals ==
              /\ pc \in [Threads -> {"idle", "search", "erase", "retire", "return"}]
              /\ op \in [Threads -> {"none", "insert", "erase", "contains"}]
              /\ arg \in [Threads -> Keys \cup {0}]
              /\ gp \in [Threads -> Pointers] /\ p \in [Threads -> Pointers]
              /\ n \in [Threads -> Pointers] /\ sibling \in [Threads -> Pointers]
<1>1. Memory /\ Locals
  BY <1>0 DEF TypeOK
<1> USE DEF Goto, StartSearch, Forget, Leave, path, At
<1>2. ASSUME NEW t \in Threads, Call(t) \/ Work(t) PROVE Locals'
  <2>1. ASSUME Call(t) PROVE Locals'
    <3>1. PICK c \in Calls : op' = [op EXCEPT ![t] = c[1]] /\ arg' = [arg EXCEPT ![t] = c[2]]
      BY <2>1 DEF Call
    <3>2. c[1] \in {"none", "insert", "erase", "contains"} /\ c[2] \in Keys
      BY TreeAssumption DEF Keys
    <3>3. /\ pc' = [pc EXCEPT ![t] = "search"] /\ n' = [n EXCEPT ![t] = Root]
          /\ gp' = [gp EXCEPT ![t] = Null] /\ p' = [p EXCEPT ![t] = Null]
          /\ sibling' = [sibling EXCEPT ![t] = Null]
      BY <2>1 DEF Call
    <3> QED BY <1>0, <1>1, <3>1, <3>2, <3>3
  <2>2. ASSUME Descend(t) PROVE Locals'
    <3>1. pc[t] = "search" /\ n[t] \in Internals \cup {Root}
      BY <2>2, Found, Parts DEF Descend
    <3>2. Direction(arg[t], key[n[t]]) \in {0, 1}
      BY DEF Direction
    <3>3. child[n[t]][Direction(arg[t], key[n[t]])] \in Pointers
      BY <1>0, <3>1, <3>2, NextNode
    <3> QED BY <1>1, <2>2, <3>3 DEF Descend
  <2>3. ASSUME Contains(t) \/ InsertFindsKey(t) \/ EraseFindsNone(t) PROVE Locals'
    <3>1. Leave(t) /\ UNCHANGED <<op, arg>>
      BY <2>3 DEF Contains, InsertFindsKey, EraseFindsNone, Answer
    <3> QED BY <1>0, <1>1, <3>1
  <2>4. ASSUME Insert(t) PROVE Locals'
    BY <1>0, <1>1, <2>4, ZenonT(60) DEF Insert, InsertWith
  <2>5. ASSUME ReadSibling(t) PROVE Locals'
    <3>1. p[t] \in Internals \cup {Root} /\ pc[t] = "search"
      BY <2>5, Found DEF ReadSibling, Searched
    <3>2. 1 - nDir(t) \in {0, 1}
      BY DEF nDir, Direction
    <3>3. child[p[t]][1 - nDir(t)] \in Pointers
      BY <1>0, <3>1, <3>2, NextNode
    <3> QED BY <1>1, <2>5, <3>3 DEF ReadSibling
  <2>6. ASSUME Erase(t) PROVE Locals'
    BY <1>0, <1>1, <2>6 DEF Erase, EraseWith
  <2>7. ASSUME Retire(t) \/ Return(t) PROVE Locals'
    <3>1. CASE Retire(t)
      <4>1. Leave(t) /\ UNCHANGED <<op, arg>>
        BY <3>1 DEF Retire
      <4> QED BY <1>0, <1>1, <4>1
    <3>2. CASE Return(t)
      <4>1. /\ pc' = [pc EXCEPT ![t] = "idle"] /\ op' = [op EXCEPT ![t] = "none"]
            /\ arg' = [arg EXCEPT ![t] = 0] /\ UNCHANGED <<gp, p, n, sibling>>
        BY <3>2 DEF Return
      <4> QED BY <1>1, <4>1
    <3> QED BY <2>7, <3>1, <3>2
  <2> QED BY <1>2, <2>1, <2>2, <2>3, <2>4, <2>5, <2>6, <2>7 DEF Work
<1>3. Locals'
  BY <1>1, <1>2 DEF Next, CallStep, WorkStep, FreeStep, Free, vars, locals
<1>4. ASSUME UNCHANGED memory PROVE Memory'
  BY <1>1, <1>4 DEF memory, fields
<1>5. ASSUME NEW t \in Threads, Insert(t), InsertMatches(t) PROVE Memory'
  <2>1. PICK l \in Leaves, i \in Internals : Grows(t, l, i)
    BY <1>5, InsertGrows
  <2>2. PICK l2 \in Allocator(Unused(Leaves)), i2 \in Allocator(Unused(Internals)) : Link(t, l2, i2)
    BY <1>5 DEF Insert, InsertWith
  <2>3. l2 \in Leaves /\ i2 \in Internals
    <3>1. Unused(Leaves) \in SUBSET Leaves /\ Unused(Internals) \in SUBSET Internals
      BY DEF Unused
    <3> QED BY <3>1, <2>2, TreeAssumption
  <2>4. /\ p[t] \in Places /\ n[t] \in Places /\ arg[t] \in Keys
        /\ Direction(arg[t], key[p[t]]) \in {0, 1}
    BY <2>1, Parts DEF Grows, Direction
  <2>5. key' \in [Places -> -1 .. MaxKey + 1]
    BY <1>0, <1>1, <2>2, <2>3, <2>4 DEF Link
  <2>6. child' \in [Places -> [{0, 1} -> Pointers]]
    <3> DEFINE new == [d \in {0, 1} |-> IF (d = 0) = (arg[t] < key[n[t]]) THEN l2 ELSE n[t]]
    <3>1. new \in [{0, 1} -> Pointers] /\ i2 \in Pointers
      BY <1>0, <2>3, <2>4, Distinct
    <3>2. child' = [child EXCEPT ![i2] = new, ![p[t]][Direction(arg[t], key[p[t]])] = i2]
      BY <2>2 DEF Link
    <3> HIDE DEF new
    <3> QED BY <1>1, <2>4, <3>1, <3>2
  <2>7. where' \in [Nodes -> {"free", "linked", "erased", "retired"}]
    BY <1>1, <2>2 DEF Link
  <2>8. UNCHANGED <<marked, graced>>
    BY <1>5 DEF Insert, InsertWith
  <2> QED BY <1>1, <2>5, <2>6, <2>7, <2>8
<1>6. ASSUME NEW t \in Threads, Erase(t), EraseMatches(t) PROVE Memory'
  <2>1. /\ sibling[t] \in Pointers /\ pDir(t) \in {0, 1} /\ n[t] \in Places /\ p[t] \in Places
    BY <1>1, <1>6, EraseCuts, Parts DEF Cuts
  <2>2. /\ child' = [child EXCEPT ![gp[t]][pDir(t)] = sibling[t]]
        /\ marked' = [marked EXCEPT ![n[t]] = TRUE, ![p[t]] = TRUE]
        /\ where' = [where EXCEPT ![n[t]] = "erased", ![p[t]] = "erased"]
        /\ UNCHANGED <<key, graced>>
    BY <1>6 DEF Erase, EraseWith, EraseMatches
  <2> QED BY <1>1, <2>1, <2>2
<1>7. ASSUME NEW t \in Threads, Retire(t) PROVE Memory'
  BY <1>0, <1>1, <1>7 DEF Retire, fields
<1>8. ASSUME NEW t \in Threads, Return(t) PROVE Memory'
  BY <1>1, <1>8 DEF Return, fields
<1>9. ASSUME NEW m \in Nodes, Free(m) PROVE Memory'
  <2>1. NoChildren \in [{0, 1} -> Pointers]
    BY <1>0 DEF NoChildren
  <2> QED BY <1>0, <1>1, <1>9, <2>1 DEF Free, MakeFree
<1>10. Memory'
  BY <1>4, <1>5, <1>6, <1>7, <1>8, <1>9, MemoryStep, InsertFails, EraseFails
<1>11. seen' \in [Threads -> SUBSET BOOLEAN]
  <2>1. CASE Record
    BY <2>1, SeenStep DEF Record
  <2>2. CASE UNCHANGED vars
    BY <1>0, <2>2 DEF TypeOK, vars
  <2> QED BY <2>1, <2>2, RecordStep
<1>12. \A t \in Threads : pc'[t] = "search" => n'[t] # Null
  BY SearchesStep DEF Searches, Searching
<1> QED BY <1>3, <1>10, <1>11, <1>12, ResType DEF TypeOK

-----------------------------------------------------------------------------
\* The invariant.

LEMMA InitInvariant == Init => IInv
<1> SUFFICES ASSUME Init PROVE IInv
  OBVIOUS
<1>1. /\ Inner = {Root} /\ Outer = {Low, High} /\ Contents = {}
      /\ child[Root][0] = Low /\ child[Root][1] = High
      /\ key[Root] = MinKey - 1 /\ key[Low] = MinKey - 1 /\ key[High] = MaxKey + 1
  BY Distinct DEF Init, Inner, Outer, Contents, Linked
<1>2. TypeOK
  <2>1. MinKey - 1 \in -1 .. MaxKey + 1 /\ MaxKey + 1 \in -1 .. MaxKey + 1 /\ -1 \in -1 .. MaxKey + 1
    BY TreeAssumption
  <2>2. NoChildren \in [{0, 1} -> Pointers]
    BY DEF NoChildren, Pointers
  <2>3. [d \in {0, 1} |-> IF d = 0 THEN Low ELSE High] \in [{0, 1} -> Pointers]
    BY Distinct DEF Pointers
  <2>4. /\ key \in [Places -> -1 .. MaxKey + 1] /\ marked \in [Places -> BOOLEAN]
        /\ child \in [Places -> [{0, 1} -> Pointers]]
        /\ where \in [Nodes -> {"free", "linked", "erased", "retired"}]
        /\ graced \in [Nodes -> SUBSET Threads]
    BY <2>1, <2>2, <2>3 DEF Init
  <2>5. /\ pc \in [Threads -> {"idle", "search", "erase", "retire", "return"}]
        /\ op \in [Threads -> {"none", "insert", "erase", "contains"}]
        /\ arg \in [Threads -> Keys \cup {0}]
        /\ gp \in [Threads -> Pointers] /\ p \in [Threads -> Pointers]
        /\ n \in [Threads -> Pointers] /\ sibling \in [Threads -> Pointers]
        /\ \A t \in Threads : pc[t] = "idle"
        /\ res \in [Threads -> {"pending", "true", "false"}]
        /\ seen \in [Threads -> SUBSET BOOLEAN]
    BY DEF Init, Pointers
  <2> QED BY <2>4, <2>5 DEF TypeOK, At
<1>3. Shape /\ KeysInOrder
  BY <1>1, Distinct DEF Init, Shape, KeysInOrder, Tree
<1>4. Grounded
  BY <1>1, Distinct DEF Grounded
<1>5. Routed
  <2>1. Toward(Root, MinKey - 1) = Low /\ Toward(Root, MaxKey + 1) = High
    BY <1>1, TreeAssumption DEF Toward, Direction
  <2>2. On(Low, MinKey - 1) /\ On(High, MaxKey + 1)
    BY <1>1, <2>1, WayStarts, WayGoesOn
  <2> QED BY <1>1, <2>2 DEF Routed
<1>6. Marks
  BY Distinct DEF Init, Marks
<1>7. Held /\ Searches /\ Trails /\ Knows
  BY DEF Init, Held, Searches, Searching, Trails, Knows
<1> QED BY <1>2, <1>3, <1>4, <1>5, <1>6, <1>7 DEF IInv

LEMMA Invariance == Spec => []IInv
<1>1. IInv /\ [Next]_vars => IInv'
  BY TypeStep, ShapeStep, GroundedStep, RoutedStep, MarksStep, HeldStep, SearchesStep, TrailsStep,
     KnowsStep DEF IInv
<1> QED BY InitInvariant, <1>1, PTL DEF Spec

\* The variables keep their types: in particular, no search runs off the end of the tree
\* (external_tree_kcas.h:117-137).
THEOREM TypeCorrect == Spec => []TypeOK
  BY Invariance, PTL DEF IInv

\* Whatever inserts and erases overlap, the tree is one tree of unmarked nodes: no node has two
\* parents, there is no cycle, and a search for the key of a leaf gets to that leaf
\* (external_tree_kcas.h:117-137, 165-186, 203-222).
THEOREM TreeIsWellFormed == Spec => [](Shape /\ KeysInOrder /\ Grounded /\ Routed)
  BY Invariance, PTL DEF IInv

\* As long as the reclaimer waits for the guards that are older than a node's retirement, no
\* call meets a node that has been freed (external_tree_kcas_reclaim.h:116, 131, 179, 226-227).
THEOREM PointersAreSafe == Spec => []NoDanglingPointer
<1>1. IInv => NoDanglingPointer
  <2> SUFFICES ASSUME IInv, NEW t \in Threads, NEW m \in {gp[t], p[t], n[t], sibling[t]}, m \in Gone
               PROVE  FALSE
    BY DEF NoDanglingPointer
  <2>1. m # Null /\ m \in Nodes /\ where[m] = "free"
    BY Distinct DEF Gone
  <2>2. Safe(t, m)
    BY <2>1 DEF IInv, Held
  <2> QED BY <2>1, <2>2, Distinct DEF Safe, Tree, Inner, Outer
<1> QED BY Invariance, <1>1, PTL

\* The children and the mark of an erased node do not change until it is freed, so that a
\* search that is on it finds its way (external_tree_kcas.h:126, 180-185).
THEOREM ErasedNodesAreFrozen == Spec => ErasedIsFrozen
<1> DEFINE Frozen == \A m \in Nodes :
                        where[m] \in {"erased", "retired"} /\ where'[m] # "free" =>
                            child'[m] = child[m] /\ marked'[m]
<1>1. IInv /\ [Next]_vars => [Frozen]_vars
  <2> SUFFICES ASSUME IInv, [Next]_vars, NEW m \in Nodes,
                      where[m] \in {"erased", "retired"}, where'[m] # "free"
               PROVE  child'[m] = child[m] /\ marked'[m]
    OBVIOUS
  <2>0. TypeOK /\ marked[m] /\ m \notin Tree /\ m \in Places
    BY Distinct DEF IInv, Marks, Tree, Inner, Outer
  <2>1. CASE UNCHANGED fields
    BY <2>0, <2>1 DEF fields
  <2>2. ASSUME NEW t \in Threads, NEW l \in Leaves, NEW i \in Internals, Grows(t, l, i)
        PROVE  child'[m] = child[m] /\ marked'[m]
    <3>1. /\ where[i] = "free" /\ p[t] \in Tree /\ marked' = marked
          /\ \A o \in Places \ {p[t], i} : child'[o] = child[o]
      BY <2>2, Parts DEF Grows
    <3> QED BY <2>0, <3>1
  <2>3. ASSUME NEW t \in Threads, Cuts(t) PROVE child'[m] = child[m] /\ marked'[m]
    <3>1. /\ gp[t] \in Tree /\ marked' = [marked EXCEPT ![n[t]] = TRUE, ![p[t]] = TRUE]
          /\ \A o \in Places \ {gp[t]} : child'[o] = child[o]
      BY <2>3, Parts DEF Cuts
    <3> QED BY <2>0, <3>1 DEF TypeOK
  <2>4. ASSUME NEW o \in Nodes, Free(o) PROVE child'[m] = child[m] /\ marked'[m]
    <3>1. o # m
      BY <2>0, <2>4, FreeSteps, ZenonT(60) DEF TypeOK
    <3> QED BY <2>0, <2>4, <3>1, FreeSteps
  <2> QED BY <2>1, <2>2, <2>3, <2>4, MemoryStep, InsertGrows, InsertFails, EraseCuts, EraseFails,
             RetireSteps, ReturnSteps DEF memory
<1> QED BY Invariance, <1>1, PTL DEF Spec, ErasedIsFrozen

-----------------------------------------------------------------------------
\* The trees implement the set.

LEMMA SameContents ==
    ASSUME Outer' = Outer, \A m \in Outer : key'[m] = key[m]
    PROVE  Contents' = Contents
<1>1. Contents = {key[m] : m \in Outer \ {Low, High}}
  BY Parts DEF Contents
<1>2. (Linked \cap Leaves)' = Outer' \ {Low, High}
  BY Distinct DEF Linked, Outer, Nodes
<1>3. Contents' = {key'[m] : m \in Outer' \ {Low, High}}
  BY <1>2 DEF Contents
<1> QED BY <1>1, <1>3

LEMMA InsertAdds ==
    ASSUME IInv, NEW t \in Threads, Insert(t), InsertMatches(t)
    PROVE  arg[t] \notin Contents /\ Contents' = Contents \cup {arg[t]}
<1>1. PICK l \in Leaves, i \in Internals : Grows(t, l, i)
  BY InsertGrows
<1>2. /\ arg[t] \in Keys /\ n[t] \in Outer /\ On(n[t], arg[t]) /\ key[n[t]] # arg[t]
      /\ key'[l] = arg[t] /\ Outer' = Outer \cup {l} /\ l \notin {Low, High}
      /\ \A m \in Outer : key'[m] = key[m]
  <2>1. /\ arg[t] \in Keys /\ n[t] \in Outer /\ key[n[t]] # arg[t]
        /\ key'[l] = arg[t] /\ Outer' = Outer \cup {l}
        /\ p[t] \in Inner /\ On(p[t], arg[t]) /\ Toward(p[t], arg[t]) = n[t]
    BY <1>1 DEF Grows
  <2>2. On(n[t], arg[t])
    BY <2>1, WayGoesOn
  <2> QED BY <1>1, <2>1, <2>2, GrowsAside, Parts, Distinct
<1>3. arg[t] \notin Contents
  BY <1>2, LeafTells DEF IInv
<1>4. Contents = {key[m] : m \in Outer \ {Low, High}}
  BY Parts DEF Contents
<1>5. (Linked \cap Leaves)' = Outer' \ {Low, High}
  BY Distinct DEF Linked, Outer, Nodes
<1>6. Contents' = {key'[m] : m \in Outer' \ {Low, High}}
  BY <1>5 DEF Contents
<1>7. Contents' = Contents \cup {arg[t]}
  BY <1>2, <1>4, <1>6
<1> QED BY <1>3, <1>7

LEMMA EraseRemoves ==
    ASSUME IInv, NEW t \in Threads, Erase(t), EraseMatches(t)
    PROVE  arg[t] \in Contents /\ Contents' = Contents \ {arg[t]}
<1>1. Cuts(t)
  BY EraseCuts
<1>2. /\ n[t] \in Outer \ {Low, High} /\ key[n[t]] = arg[t]
      /\ Outer' = Outer \ {n[t]}
      /\ \A m \in Outer : key'[m] = key[m]
  BY <1>1, CutsAside, Parts, Distinct DEF Cuts
<1>3. ASSUME NEW m \in Outer, key[m] = key[n[t]] PROVE m = n[t]
  BY <1>2, <1>3, OneLeaf DEF IInv, Routed
<1>4. Contents = {key[m] : m \in Outer \ {Low, High}}
  BY Parts DEF Contents
<1>5. (Linked \cap Leaves)' = Outer' \ {Low, High}
  BY Distinct DEF Linked, Outer, Nodes
<1>6. Contents' = {key'[m] : m \in Outer' \ {Low, High}}
  BY <1>5 DEF Contents
<1> QED BY <1>2, <1>3, <1>4, <1>6

LEMMA StatusIs ==
    /\ Status = [t \in Threads |-> IF pc[t] = "idle" THEN "idle" ELSE res[t]]
    /\ Status' = [t \in Threads |-> IF pc'[t] = "idle" THEN "idle" ELSE res'[t]]
  BY DEF Status

LEMMA StatusStays ==
    ASSUME TypeOK, NEW t \in Threads, NEW label, label # "idle", pc[t] # "idle",
           pc' = [pc EXCEPT ![t] = label], res' = res
    PROVE  Status' = Status
  BY StatusIs DEF TypeOK

LEMMA StatusAnswers ==
    ASSUME TypeOK, NEW t \in Threads, NEW label, label # "idle", pc[t] # "idle",
           pc' = [pc EXCEPT ![t] = label], NEW r, res' = [res EXCEPT ![t] = r]
    PROVE  Status' = [Status EXCEPT ![t] = r] /\ Status[t] = res[t]
  BY StatusIs DEF TypeOK

LEMMA RefinementStep == IInv /\ [Next]_vars => [Set!Next]_(Set!objVars)
<1> SUFFICES ASSUME IInv, [Next]_vars PROVE [Set!Next]_(Set!objVars)
  OBVIOUS
<1>0. TypeOK /\ Searches
  BY DEF IInv
<1> DEFINE Move == \/ \E t \in Threads : Set!Invoke(t) \/ Set!Add(t) \/ Set!Remove(t)
                                           \/ Set!Decline(t) \/ Set!Confirm(t) \/ Set!Return(t)
                   \/ UNCHANGED <<Contents, op, arg, Status>>
<1>1. ASSUME UNCHANGED memory PROVE Contents' = Contents
  BY <1>1, SameContents DEF memory, fields, Outer
<1>2. ASSUME NEW t \in Threads, Call(t) PROVE Set!Invoke(t)
  <2>1. PICK c \in Calls : op' = [op EXCEPT ![t] = c[1]] /\ arg' = [arg EXCEPT ![t] = c[2]]
    BY <1>2 DEF Call
  <2>2. c[1] \in {"insert", "erase", "contains"} /\ c[2] \in Keys
    BY TreeAssumption DEF Keys
  <2>3. /\ pc[t] = "idle" /\ pc' = [pc EXCEPT ![t] = "search"] /\ res' = res /\ UNCHANGED memory
    BY <1>2 DEF Call, StartSearch, At, Goto
  <2>4. res[t] = "pending"
    BY <1>0, <2>3 DEF Searches, Searching
  <2>5. Status[t] = "idle" /\ Status' = [Status EXCEPT ![t] = "pending"]
    BY <1>0, <2>3, <2>4, StatusIs DEF TypeOK
  <2> QED BY <1>1, <2>1, <2>2, <2>3, <2>5 DEF Set!Invoke, Set!Ops
<1>3. ASSUME NEW t \in Threads, Descend(t) \/ ReadSibling(t)
      PROVE  UNCHANGED <<Contents, op, arg, Status>>
  <2>1. UNCHANGED <<memory, op, arg, res>>
    BY <1>3 DEF Descend, ReadSibling
  <2>2. Status' = Status
    <3>1. CASE Descend(t)
      BY <3>1, StatusIs DEF Descend
    <3>2. CASE ReadSibling(t)
      BY <1>0, <3>2, StatusStays DEF ReadSibling, Searched, At, Goto
    <3> QED BY <1>3, <3>1, <3>2
  <2> QED BY <1>1, <2>1, <2>2
<1>4. ASSUME NEW t \in Threads, Contains(t) \/ InsertFindsKey(t) \/ EraseFindsNone(t)
      PROVE  Set!Confirm(t) \/ Set!Decline(t)
  <2>1. PICK r \in {"true", "false"} :
           /\ pc[t] = "search" /\ isLeaf(n[t])
           /\ pc' = [pc EXCEPT ![t] = "return"] /\ res' = [res EXCEPT ![t] = r]
           /\ UNCHANGED <<memory, op, arg>>
           /\ \/ op[t] = "contains" /\ (r = "true" <=> Present(t))
              \/ op[t] = "insert" /\ r = "false" /\ Present(t)
              \/ op[t] = "erase" /\ r = "false" /\ ~Present(t)
    <3>1. CASE Contains(t)
      <4>1. CASE Present(t)
        BY <3>1, <4>1 DEF Contains, Searched, Answer, Leave, At, Goto
      <4>2. CASE ~Present(t)
        BY <3>1, <4>2 DEF Contains, Searched, Answer, Leave, At, Goto
      <4> QED BY <4>1, <4>2
    <3>2. CASE InsertFindsKey(t)
      BY <3>2 DEF InsertFindsKey, Searched, Answer, Leave, At, Goto
    <3>3. CASE EraseFindsNone(t)
      BY <3>3 DEF EraseFindsNone, Searched, Answer, Leave, At, Goto
    <3> QED BY <1>4, <3>1, <3>2, <3>3
  <2>2. Status[t] = "pending" /\ Status' = [Status EXCEPT ![t] = r]
    <3>1. res[t] = "pending"
      BY <1>0, <2>1 DEF Searches, Searching
    <3> QED BY <1>0, <2>1, <3>1, StatusAnswers
  <2>3. (key[n[t]] = arg[t]) \in seen[t]
    BY <2>1, Found
  <2>4. Present(t) => TRUE \in seen[t]
    <3> SUFFICES ASSUME key[n[t]] = arg[t] PROVE TRUE \in seen[t]
      BY DEF Present
    <3>1. (key[n[t]] = arg[t]) = TRUE
      OBVIOUS
    <3> QED BY <2>3, <3>1
  <2>5. ~Present(t) => FALSE \in seen[t]
    <3> SUFFICES ASSUME key[n[t]] # arg[t] PROVE FALSE \in seen[t]
      BY DEF Present
    <3>1. (key[n[t]] = arg[t]) = FALSE
      OBVIOUS
    <3> QED BY <2>3, <3>1
  <2> QED BY <1>1, <2>1, <2>2, <2>4, <2>5 DEF Set!Confirm, Set!Decline
<1>5. ASSUME NEW t \in Threads, Insert(t)
      PROVE  Set!Add(t) \/ UNCHANGED <<Contents, op, arg, Status>>
  <2>1. CASE InsertMatches(t)
    <3>1. /\ pc[t] = "search" /\ pc' = [pc EXCEPT ![t] = "return"] /\ op[t] = "insert"
          /\ res' = [res EXCEPT ![t] = "true"] /\ op' = op /\ arg' = arg
      BY <1>5, <2>1 DEF Insert, InsertWith, Searched, Leave, Goto, At
    <3>2. res[t] = "pending"
      BY <1>0, <3>1 DEF Searches, Searching
    <3>3. Status[t] = "pending" /\ Status' = [Status EXCEPT ![t] = "true"]
      BY <1>0, <3>1, <3>2, StatusAnswers
    <3> QED BY <1>5, <2>1, <3>1, <3>2, <3>3, InsertAdds DEF Set!Add
  <2>2. CASE ~InsertMatches(t)
    <3>1. pc[t] = "search" /\ res' = res /\ op' = op /\ arg' = arg
      BY <1>5, <2>2 DEF Insert, InsertWith, Searched, StartSearch, At
    <3> QED BY <1>0, <1>1, <1>5, <2>2, <3>1, StatusStays, InsertFails
  <2> QED BY <2>1, <2>2
<1>6. ASSUME NEW t \in Threads, Erase(t)
      PROVE  Set!Remove(t) \/ UNCHANGED <<Contents, op, arg, Status>>
  <2>1. CASE EraseMatches(t)
    <3>1. /\ pc[t] = "erase" /\ pc' = [pc EXCEPT ![t] = "retire"]
          /\ res' = [res EXCEPT ![t] = "true"] /\ op' = op /\ arg' = arg
      BY <1>6, <2>1 DEF Erase, EraseWith, EraseMatches, Goto, At
    <3>2. op[t] = "erase" /\ res[t] = "pending"
      BY <1>0, <3>1 DEF Searches, Searching
    <3>3. Status[t] = "pending" /\ Status' = [Status EXCEPT ![t] = "true"]
      BY <1>0, <3>1, <3>2, StatusAnswers
    <3> QED BY <1>6, <2>1, <3>1, <3>2, <3>3, EraseRemoves DEF Set!Remove
  <2>2. CASE ~EraseMatches(t)
    <3>1. pc[t] = "erase" /\ res' = res /\ op' = op /\ arg' = arg
      BY <1>6, <2>2 DEF Erase, EraseWith, EraseMatches, StartSearch, At
    <3> QED BY <1>0, <1>1, <1>6, <2>2, <3>1, StatusStays, EraseFails
  <2> QED BY <2>1, <2>2
<1>7. ASSUME NEW t \in Threads, Retire(t) PROVE UNCHANGED <<Contents, op, arg, Status>>
  <2>1. Contents' = Contents
    BY <1>7, RetireSteps, SameContents DEF fields
  <2> QED BY <1>0, <1>7, <2>1, StatusStays DEF Retire, Leave, At, Goto
<1>8. ASSUME NEW t \in Threads, Return(t) PROVE Set!Return(t)
  <2>1. /\ pc[t] = "return" /\ pc' = [pc EXCEPT ![t] = "idle"]
        /\ op' = [op EXCEPT ![t] = "none"] /\ arg' = [arg EXCEPT ![t] = 0]
        /\ res' = [res EXCEPT ![t] = "pending"]
    BY <1>8 DEF Return, At, Goto
  <2>2. res[t] \in {"true", "false"}
    BY <1>0, <2>1 DEF Searches, Searching, TypeOK
  <2>3. Status[t] \in {"true", "false"} /\ Status' = [Status EXCEPT ![t] = "idle"]
    BY <1>0, <2>1, <2>2, StatusIs DEF TypeOK
  <2>4. Contents' = Contents
    BY <1>8, ReturnSteps, SameContents DEF fields
  <2> QED BY <2>1, <2>3, <2>4 DEF Set!Return, Set!Answered
<1>9. ASSUME NEW m \in Nodes, Free(m) PROVE UNCHANGED <<Contents, op, arg, Status>>
  <2>1. Outer' = Outer /\ \A o \in Outer : key'[o] = key[o]
    <3>1. m \notin Outer
      BY <1>0, <1>9, FreeSteps, Distinct DEF Outer
    <3> QED BY <1>0, <1>9, <3>1, FreeSteps, Parts
  <2>2. UNCHANGED <<op, arg, pc, res>>
    BY <1>9 DEF Free, locals
  <2> QED BY <2>1, <2>2, SameContents, StatusIs
<1>10. CASE Next
  <2>1. Move
    BY <1>2, <1>3, <1>4, <1>5, <1>6, <1>7, <1>8, <1>9, <1>10 DEF Next, CallStep, WorkStep, FreeStep, Work
  <2>2. seen' = [t \in Threads |-> Set!Observe(t)]
    BY <1>10 DEF Next, CallStep, WorkStep, FreeStep, Record
  <2> QED BY <2>1, <2>2 DEF Set!Next
<1>11. CASE UNCHANGED vars
  <2>1. Contents' = Contents
    BY <1>1, <1>11 DEF vars
  <2> QED BY <1>11, <2>1, StatusIs DEF vars, locals, Set!objVars
<1> QED BY <1>10, <1>11

\* Every call takes effect, or is right about what it reports, at an instant between call and
\* return: both trees are linearizable sets, for every number of threads, keys and nodes
\* (external_tree_kcas.h:85-201, external_tree_kcas_reclaim.h:114-238).
THEOREM TreesAreLinearizable == Spec => Linearizable
<1>1. Init => Set!Init
  <2> SUFFICES ASSUME Init PROVE Set!Init
    OBVIOUS
  <2>1. Linked = {}
    BY DEF Init, Linked
  <2>2. Contents = {}
    BY <2>1 DEF Contents
  <2> QED BY <2>2 DEF Init, Set!Init, Status
<1> QED BY Invariance, <1>1, RefinementStep, PTL DEF Spec, Linearizable, Set!Spec

-----------------------------------------------------------------------------
\* The walk of a search that nobody interferes with.

Bound == Cardinality(Nodes) + 1

IsWalk(w, k, j) ==
    w = [i \in 0 .. j |-> IF i = 0 THEN Root
                          ELSE IF isLeaf(w[i - 1]) THEN w[i - 1] ELSE Toward(w[i - 1], k)]

LEMMA BoundType == Bound \in Nat \ {0} /\ IsFiniteSet(Internals \cup {Root})
                   /\ Cardinality(Internals \cup {Root}) < Bound + 1
<1>1. /\ IsFiniteSet(Nodes) /\ Cardinality(Nodes) \in Nat
      /\ IsFiniteSet(Internals) /\ Cardinality(Internals) \in Nat
      /\ Cardinality(Internals) <= Cardinality(Nodes)
  <2>1. IsFiniteSet(Leaves) /\ IsFiniteSet(Internals)
    BY TreeAssumption
  <2>2. IsFiniteSet(Nodes)
    BY <2>1, FS_Union DEF Nodes
  <2> QED BY <2>1, <2>2, FS_Subset, FS_CardinalityType DEF Nodes
<1>2. /\ IsFiniteSet(Internals \cup {Root})
      /\ Cardinality(Internals \cup {Root}) <= Cardinality(Internals) + 1
  BY <1>1, FS_AddElement, SMTT(60)
<1>3. Cardinality(Internals \cup {Root}) \in Nat
  BY <1>2, FS_CardinalityType
<1> QED BY <1>1, <1>2, <1>3 DEF Bound

LEMMA Least == \A S \in SUBSET Nat : S # {} => \E x \in S : \A y \in S : x <= y
<1> SUFFICES ASSUME NEW S \in SUBSET Nat, S # {} PROVE \E x \in S : \A y \in S : x <= y
  OBVIOUS
<1>1. PICK x \in S : \A y \in S : ~(<<y, x>> \in OpToRel(<, Nat))
  BY NatLessThanWellFounded, WFMin
<1>2. \A y \in S : ~(y < x)
  BY <1>1 DEF OpToRel
<1> QED BY <1>2

LEMMA WalkExists == ASSUME NEW k, NEW j \in Nat PROVE \E w : IsWalk(w, k, j)
<1> DEFINE Bad == {i \in Nat : ~\E w : IsWalk(w, k, i)}
<1> SUFFICES ASSUME Bad # {} PROVE FALSE
  OBVIOUS
<1>1. PICK x \in Bad : \A y \in Bad : x <= y
  BY Least
<1>2. x # 0
  <2> DEFINE w == [i \in 0 .. 0 |-> Root]
  <2>1. IsWalk(w, k, 0)
    BY DEF IsWalk
  <2> QED BY <1>1, <2>1
<1>3. x \in Nat /\ x - 1 \in Nat /\ x - 1 \notin Bad
  BY <1>1, <1>2
<1>4. PICK v : IsWalk(v, k, x - 1)
  BY <1>3
<1> DEFINE w == [i \in 0 .. x |-> IF i = 0 THEN Root
                                  ELSE IF isLeaf(v[i - 1]) THEN v[i - 1] ELSE Toward(v[i - 1], k)]
<1>5. \A i \in 0 .. x - 1 : w[i] = v[i]
  BY <1>3, <1>4 DEF IsWalk
<1>6. \A i \in 0 .. x : i # 0 => w[i - 1] = v[i - 1]
  BY <1>3, <1>5
<1>7. w = [i \in 0 .. x |-> IF i = 0 THEN Root
                            ELSE IF isLeaf(w[i - 1]) THEN w[i - 1] ELSE Toward(w[i - 1], k)]
  BY <1>6
<1> HIDE DEF w
<1>8. IsWalk(w, k, x)
  BY <1>7 DEF IsWalk
<1> QED BY <1>1, <1>8

LEMMA WalkSteps ==
    ASSUME NEW k
    PROVE  /\ DOMAIN Walk(k) = 0 .. Bound /\ Walk(k)[0] = Root
           /\ \A i \in 0 .. Bound : i # 0 =>
                 Walk(k)[i] = IF isLeaf(Walk(k)[i - 1]) THEN Walk(k)[i - 1]
                              ELSE Toward(Walk(k)[i - 1], k)
<1>1. Walk(k) = CHOOSE w : IsWalk(w, k, Bound)
  BY DEF Walk, IsWalk, Toward, Bound
<1>2. IsWalk(Walk(k), k, Bound)
  BY <1>1, WalkExists, BoundType
<1> DEFINE w == Walk(k)
<1> HIDE DEF w
<1>3. w = [i \in 0 .. Bound |-> IF i = 0 THEN Root
                                ELSE IF isLeaf(w[i - 1]) THEN w[i - 1] ELSE Toward(w[i - 1], k)]
  BY <1>2 DEF IsWalk, w
<1>4. /\ DOMAIN w = 0 .. Bound /\ w[0] = Root
      /\ \A i \in 0 .. Bound : i # 0 =>
            w[i] = IF isLeaf(w[i - 1]) THEN w[i - 1] ELSE Toward(w[i - 1], k)
  BY <1>3, BoundType
<1> QED BY <1>4 DEF w

LEMMA WalkOnWay ==
    ASSUME Shape, NEW k, NEW j \in 0 .. Bound
    PROVE  Walk(k)[j] \in Tree /\ On(Walk(k)[j], k)
<1> DEFINE w == Walk(k)
           Bad == {i \in 0 .. Bound : ~(w[i] \in Tree /\ On(w[i], k))}
<1> SUFFICES ASSUME Bad # {} PROVE FALSE
  OBVIOUS
<1>1. PICK x \in Bad : \A y \in Bad : x <= y
  <2>1. Bad \in SUBSET Nat
    BY BoundType
  <2> HIDE DEF Bad
  <2> QED BY <2>1, Least
<1>2. x # 0
  BY WalkSteps, WayStarts, Parts
<1>3. x - 1 \in 0 .. Bound /\ x - 1 \notin Bad /\ x \in 0 .. Bound
  BY <1>1, <1>2, BoundType
<1>4. w[x - 1] \in Tree /\ On(w[x - 1], k)
  BY <1>3
<1>5. w[x] = IF isLeaf(w[x - 1]) THEN w[x - 1] ELSE Toward(w[x - 1], k)
  BY <1>2, <1>3, WalkSteps
<1>6. ASSUME ~isLeaf(w[x - 1]) PROVE w[x] \in Tree /\ On(w[x], k)
  <2>1. w[x - 1] \in Inner
    BY <1>4, <1>6, Parts
  <2>2. Direction(k, key[w[x - 1]]) \in {0, 1}
    BY DEF Direction
  <2>3. Toward(w[x - 1], k) \in Tree
    BY <2>1, <2>2 DEF Shape, Toward
  <2> QED BY <1>4, <1>5, <1>6, <2>1, <2>3, WayGoesOn
<1> QED BY <1>1, <1>4, <1>5, <1>6

LEMMA WalkEnds ==
    ASSUME Shape, Grounded, NEW k
    PROVE  Leaf(k) \in Outer
<1> DEFINE w == Walk(k)
<1>0. Leaf(k) = w[Bound] /\ Bound \in 0 .. Bound
  BY BoundType DEF Leaf, Bound
<1> SUFFICES ASSUME ~isLeaf(w[Bound]) PROVE FALSE
  BY <1>0, WalkOnWay, Parts
<1>1. \A i \in 0 .. Bound : w[i] \in Inner
  <2> DEFINE Bad == {d \in 0 .. Bound : isLeaf(w[Bound - d])}
  <2> SUFFICES ASSUME Bad # {} PROVE FALSE
    <3> SUFFICES ASSUME NEW i \in 0 .. Bound PROVE w[i] \in Inner
      OBVIOUS
    <3>1. Bound - i \in 0 .. Bound /\ Bound - (Bound - i) = i
      BY BoundType
    <3>2. ~isLeaf(w[i])
      BY <3>1
    <3> QED BY <3>2, WalkOnWay, Parts
  <2>1. PICK x \in Bad : \A y \in Bad : x <= y
    <3>1. Bad \in SUBSET Nat
      BY BoundType
    <3> HIDE DEF Bad
    <3> QED BY <3>1, Least
  <2>2. x # 0
    BY <2>1, BoundType
  <2>3. /\ Bound - x \in 0 .. Bound /\ Bound - (x - 1) \in 0 .. Bound /\ Bound - (x - 1) # 0
        /\ (Bound - (x - 1)) - 1 = Bound - x /\ x - 1 \in 0 .. Bound /\ ~(x <= x - 1)
    BY <2>1, <2>2, BoundType
  <2>4. w[Bound - (x - 1)] = w[Bound - x]
    BY <2>1, <2>3, WalkSteps
  <2> QED BY <2>1, <2>3, <2>4
<1>2. \A i \in 0 .. Bound : i # 0 => w[i] = Toward(w[i - 1], k)
  <2> SUFFICES ASSUME NEW i \in 0 .. Bound, i # 0 PROVE w[i] = Toward(w[i - 1], k)
    OBVIOUS
  <2>1. i - 1 \in 0 .. Bound
    BY BoundType
  <2> QED BY <1>1, <2>1, WalkSteps, Parts
<1>3. PICK a \in 0 .. Bound, b \in 0 .. Bound : a # b /\ w[a] = w[b]
  <2> DEFINE f == [i \in 0 .. Bound |-> w[i]]
             T == Internals \cup {Root}
  <2>1. f \in [0 .. Bound -> T]
    BY <1>1, Parts
  <2>2. IsFiniteSet(0 .. Bound) /\ Cardinality(0 .. Bound) = Bound + 1
    BY FS_Interval, BoundType
  <2>3. PICK a \in 0 .. Bound, b \in 0 .. Bound : a # b /\ f[a] = f[b]
    <3> HIDE DEF f
    <3> QED BY <2>1, <2>2, FS_PigeonHole, BoundType
  <2> QED BY <2>3
<1>4. ASSUME NEW c \in 0 .. Bound, NEW e \in 0 .. Bound, c < e, w[c] = w[e] PROVE FALSE
  <2> DEFINE S == {w[i] : i \in c .. e - 1}
  <2>1. c \in c .. e - 1 /\ \A i \in c .. e - 1 : i \in 0 .. Bound /\ i + 1 \in 0 .. Bound /\ i + 1 # 0
    BY <1>4, BoundType
  <2>2. S \in SUBSET Inner /\ S # {}
    BY <1>1, <2>1
  <2>3. PICK m \in S : \A d \in {0, 1} : child[m][d] \notin S
    BY <2>2 DEF Grounded
  <2>4. PICK i \in c .. e - 1 : m = w[i]
    BY <2>3
  <2>5. w[i + 1] = Toward(m, k)
    <3>1. (i + 1) - 1 = i
      BY <1>4
    <3> QED BY <1>2, <2>1, <2>4, <3>1
  <2>6. w[i + 1] \in S
    <3>1. CASE i + 1 = e
      BY <1>4, <2>1, <3>1
    <3>2. CASE i + 1 # e
      <4>1. i + 1 \in c .. e - 1
        BY <1>4, <3>2
      <4> QED BY <4>1
    <3> QED BY <3>1, <3>2
  <2> QED BY <2>3, <2>5, <2>6 DEF Toward, Direction
<1>5. a < b \/ b < a
  BY <1>3, BoundType
<1> QED BY <1>3, <1>4, <1>5

\* A search that nobody interferes with meets the nodes of the tree only and ends at a leaf, which
\* has the key if the set has it and then a grandparent, whatever updates made the tree
\* (external_tree_kcas.h:126-130, 165, 174-185, 203-222).
THEOREM SearchesFind == Spec => []SearchTree
<1>1. IInv => SearchTree
  <2> SUFFICES ASSUME IInv, NEW k \in Keys
               PROVE  /\ \A i \in DOMAIN Walk(k) :
                            Walk(k)[i] \in Linked \cup {Root, Low, High} /\ ~marked[Walk(k)[i]]
                      /\ isLeaf(Leaf(k))
                      /\ k \in Contents <=> key[Leaf(k)] = k
                      /\ k \in Contents => ~isLeaf(Walk(k)[1])
    BY DEF SearchTree
  <2>0. TypeOK /\ Shape /\ KeysInOrder /\ Grounded /\ Routed
    BY DEF IInv
  <2>1. ASSUME NEW i \in DOMAIN Walk(k)
        PROVE  Walk(k)[i] \in Linked \cup {Root, Low, High} /\ ~marked[Walk(k)[i]]
    <3>1. Walk(k)[i] \in Tree
      BY <2>0, WalkSteps, WalkOnWay
    <3> QED BY <2>0, <3>1, Parts DEF Shape
  <2>2. Leaf(k) \in Outer /\ On(Leaf(k), k)
    <3>1. Bound \in 0 .. Bound /\ Leaf(k) = Walk(k)[Bound]
      BY BoundType DEF Leaf, Bound
    <3> QED BY <2>0, <3>1, WalkEnds, WalkOnWay
  <2>3. k \in Contents <=> key[Leaf(k)] = k
    BY <2>0, <2>2, LeafTells
  <2>4. ASSUME k \in Contents PROVE ~isLeaf(Walk(k)[1])
    <3>1. 1 \in 0 .. Bound /\ 1 - 1 = 0
      BY BoundType
    <3>2. Walk(k)[1] = Toward(Root, k) /\ Walk(k)[1] \in Tree /\ On(Walk(k)[1], k)
      BY <2>0, <3>1, WalkSteps, WalkOnWay, Parts
    <3>3. Walk(k)[1] \notin Leaves
      BY <2>0, <3>2, Distinct DEF Shape, Toward, Direction
    <3>4. Walk(k)[1] \in {Low, High} => FALSE
      BY <2>0, <2>4, <3>2, LeafTells, KeyType, Parts DEF KeysInOrder
    <3> QED BY <3>3, <3>4 DEF isLeaf
  <2> QED BY <2>1, <2>2, <2>3, <2>4, Parts
<1> QED BY Invariance, <1>1, PTL
=============================================================================
