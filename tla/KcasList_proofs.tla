--------------------------- MODULE KcasList_proofs ---------------------------
(***************************************************************************)
(* For every number of threads, keys and nodes: the lists are well linked, *)
(* an erased node is frozen, no call follows a dangling pointer, and the   *)
(* lists implement the set.                                                *)
(*                                                                         *)
(* The argument: a call that holds a node was in its guard when the node   *)
(* was erased, or the node is still linked (Held).  The next pointer of an *)
(* erased node leads to a node that was linked at its erasure, so that the *)
(* same is true of what the call goes on to (Paths).  When a node is       *)
(* erased, the calls in a guard see whether its key, and the keys between  *)
(* it and the next node, are in the set: an erased node answers for that   *)
(* instant (Knows).                                                        *)
(***************************************************************************)
EXTENDS KcasList, TLAPS

\* Keys are in order along the list, and nobody's key is between neighbours.
Ordered ==
    \A n, m \in Linked \cup {Head} :
        /\ n # m => key[n] # key[m]
        /\ key[n] < key[m] => nextPtr[n] # Tail /\ key[nextPtr[n]] <= key[m]

Sentinels == key[Head] = -1 /\ ~marked[Head] /\ ~marked[Tail]

\* Erased nodes are marked, and wait for the guards that are older than the erasure.
Guards ==
    \A n \in Nodes :
        /\ where[n] \in {"erased", "retired"} => marked[n]
        /\ holders[n] # {} => where[n] \in {"erased", "retired"}
        /\ holders[n] \subseteq InGuard
        /\ where[n] = "retired" => holders[n] \subseteq graced[n]

\* Node n is in the list, or t's guard keeps it.
Safe(t, n) == n \in Linked \cup {Head, Tail} \/ (n \in Nodes /\ t \in holders[n])

Paths ==
    \A n \in Nodes : \A t \in holders[n] :
        /\ Safe(t, nextPtr[n]) /\ nextPtr[n] # Head
        /\ nextPtr[n] # Tail => key[n] < key[nextPtr[n]]

Held ==
    \A t \in Threads :
        /\ pred[t] # Null => Safe(t, pred[t])
        /\ succ[t] # Null => Safe(t, succ[t])
        /\ op[t] = "erase" /\ extra[t] # Null => Safe(t, extra[t])

\* What a call has found, by its place.
Searching(t) ==
    /\ pc[t] \in {"idle", "first"} => pred[t] = Null /\ succ[t] = Null /\ extra[t] = Null
    /\ pc[t] # "idle" => arg[t] \in Keys /\ op[t] # "none"
    /\ pc[t] \in {"search", "insert", "erase"} =>
          pred[t] # Null /\ succ[t] # Null /\ key[pred[t]] < arg[t]
    /\ pc[t] = "insert" => op[t] = "insert" /\ (succ[t] = Tail \/ arg[t] < key[succ[t]])
    /\ pc[t] = "erase" =>
          op[t] = "erase" /\ succ[t] # Tail /\ key[succ[t]] = arg[t] /\ extra[t] # Null
    /\ pc[t] = "retire" => succ[t] \in Nodes /\ t \in holders[succ[t]]
    /\ pc[t] \in {"retire", "return"} => res[t] # "pending"
    /\ pc[t] \in {"idle", "first", "search", "insert", "erase"} => res[t] = "pending"

Searches == \A t \in Threads : Searching(t)

\* The node of an insert under way is its own.
News ==
    \A t \in Threads : pc[t] = "insert" =>
        /\ extra[t] \in Nodes /\ where[extra[t]] = "private"
        /\ key[extra[t]] = arg[t] /\ ~marked[extra[t]]
        /\ nextPtr[extra[t]] = succ[t] /\ prevPtr[extra[t]] = pred[t]
        /\ \A u \in Threads : pc[u] = "insert" /\ extra[u] = extra[t] => u = t

\* No node with key k is at n, nor between n and its next node.
Passes(n, k) == key[n] < k /\ (nextPtr[n] = Tail \/ k < key[nextPtr[n]])

Knows ==
    \A t \in Threads : pc[t] # "idle" =>
        /\ (arg[t] \in Contents) \in seen[t]
        /\ \A n \in Nodes : t \in holders[n] =>
              /\ key[n] = arg[t] => TRUE \in seen[t]
              /\ Passes(n, arg[t]) => FALSE \in seen[t]
        /\ pc[t] \in {"search", "insert"} /\ (succ[t] = Tail \/ arg[t] < key[succ[t]]) =>
              FALSE \in seen[t]

IInv ==
    /\ TypeOK /\ WellLinked /\ Ordered /\ Sentinels /\ Guards /\ Paths /\ Held
    /\ Searches /\ News /\ Knows
-----------------------------------------------------------------------------
\* What the steps do to the memory.

LEMMA MemoryStep ==
    ASSUME [Next]_vars
    PROVE  \/ UNCHANGED memory
           \/ \E t \in Threads :
                 NewNode(t) \/ Insert(t) \/ Erase(t) \/ Retire(t) \/ Return(t)
           \/ \E n \in Nodes : Free(n)
<1>1. CASE Next
  <2>1. ASSUME NEW t \in Threads, CallStep(t) \/ WorkStep(t)
        PROVE  \/ UNCHANGED memory
               \/ NewNode(t) \/ Insert(t) \/ Erase(t) \/ Retire(t) \/ Return(t)
    BY <2>1 DEF CallStep, WorkStep, Work, Call, ReadFirst, Advance, Contains, InsertFindsKey,
         EraseFindsNone, ReadAfter, Answer
  <2> QED BY <1>1, <2>1 DEF Next, FreeStep
<1> QED BY <1>1 DEF vars

\* A step of one thread leaves the variables of the others alone.
LEMMA OtherCalls ==
    ASSUME TypeOK, NEW t \in Threads, Call(t) \/ Work(t), NEW u \in Threads, u # t
    PROVE  /\ pc'[u] = pc[u] /\ op'[u] = op[u] /\ arg'[u] = arg[u] /\ res'[u] = res[u]
           /\ pred'[u] = pred[u] /\ succ'[u] = succ[u] /\ extra'[u] = extra[u]
<1> USE DEF TypeOK, Goto
<1>1. CASE Call(t) \/ ReadFirst(t) \/ Advance(t) \/ NewNode(t)
  BY <1>1 DEF Call, ReadFirst, Advance, NewNode
<1>2. CASE Contains(t) \/ InsertFindsKey(t) \/ EraseFindsNone(t) \/ ReadAfter(t)
  BY <1>2 DEF Contains, InsertFindsKey, EraseFindsNone, ReadAfter, Answer
<1>3. CASE Insert(t) \/ Erase(t)
  BY <1>3 DEF Insert, InsertWith, Erase, EraseWith, Succeed, Retry
<1>4. CASE Retire(t) \/ Return(t)
  BY <1>4 DEF Retire, Return
<1> QED BY <1>1, <1>2, <1>3, <1>4 DEF Work

LEMMA InsertSucceeds ==
    ASSUME IInv, NEW t \in Threads, Insert(t), InsertMatches(pred[t], succ[t])
    PROVE  /\ pred[t] \in Linked \cup {Head} /\ succ[t] \in Linked \cup {Tail}
           /\ extra[t] \in Nodes /\ where[extra[t]] = "private"
           /\ nextPtr[pred[t]] = succ[t] /\ prevPtr[succ[t]] = pred[t]
           /\ nextPtr[extra[t]] = succ[t] /\ prevPtr[extra[t]] = pred[t]
           /\ key[pred[t]] < key[extra[t]] /\ key[extra[t]] = arg[t] /\ arg[t] \in Keys
           /\ succ[t] # Tail => key[extra[t]] < key[succ[t]]
           /\ ~marked[extra[t]]
           /\ nextPtr' = [nextPtr EXCEPT ![pred[t]] = extra[t]]
           /\ prevPtr' = [prevPtr EXCEPT ![succ[t]] = extra[t]]
           /\ where' = [where EXCEPT ![extra[t]] = "linked"]
           /\ Linked' = Linked \cup {extra[t]}
           /\ UNCHANGED <<key, marked, graced, holders>>
<1>1. /\ At(t, "insert") /\ Searching(t) /\ Held /\ Guards /\ TypeOK
      /\ nextPtr[pred[t]] = succ[t] /\ ~marked[pred[t]]
      /\ prevPtr[succ[t]] = pred[t] /\ ~marked[succ[t]]
  BY DEF IInv, Searches, Insert, InsertWith, InsertMatches
<1>2. Safe(t, pred[t]) /\ Safe(t, succ[t])
  BY <1>1 DEF Searching, Held, At
<1>3. pred[t] \in Linked \cup {Head} /\ succ[t] \in Linked \cup {Tail}
  BY <1>1, <1>2, ListAssumption DEF Safe, Guards, TypeOK
<1>4. /\ extra[t] \in Nodes /\ where[extra[t]] = "private" /\ key[extra[t]] = arg[t]
      /\ nextPtr[extra[t]] = succ[t] /\ prevPtr[extra[t]] = pred[t] /\ ~marked[extra[t]]
  BY <1>1 DEF IInv, News, At
<1>5. /\ nextPtr' = [nextPtr EXCEPT ![pred[t]] = extra[t]]
      /\ prevPtr' = [prevPtr EXCEPT ![succ[t]] = extra[t]]
      /\ where' = [where EXCEPT ![extra[t]] = "linked"]
      /\ UNCHANGED <<key, marked, graced, holders>>
  BY DEF Insert, InsertWith, Succeed
<1>6. Linked' = Linked \cup {extra[t]}
  BY <1>1, <1>4, <1>5 DEF Linked, TypeOK
<1> QED BY <1>1, <1>3, <1>4, <1>5, <1>6 DEF Searching, At

LEMMA InsertFails ==
    ASSUME IInv, NEW t \in Threads, Insert(t), ~InsertMatches(pred[t], succ[t])
    PROVE  /\ extra[t] \in Nodes /\ where[extra[t]] = "private"
           /\ where' = [where EXCEPT ![extra[t]] = "free"]
           /\ Linked' = Linked
           /\ EndGuard(t) /\ UNCHANGED fields
           /\ pc' = [pc EXCEPT ![t] = "first"]
<1>1. TypeOK /\ extra[t] \in Nodes /\ where[extra[t]] = "private"
  BY DEF IInv, News, Insert, InsertWith, At
<1>2. /\ where' = [where EXCEPT ![extra[t]] = "free"]
      /\ EndGuard(t) /\ UNCHANGED fields /\ pc' = [pc EXCEPT ![t] = "first"]
  BY DEF Insert, InsertWith, Retry, Goto, fields
<1>3. Linked' = Linked
  BY <1>1, <1>2 DEF Linked, TypeOK
<1> QED BY <1>1, <1>2, <1>3

LEMMA EraseSucceeds ==
    ASSUME IInv, NEW t \in Threads, Erase(t), EraseMatches(pred[t], succ[t], extra[t])
    PROVE  /\ pred[t] \in Linked \cup {Head} /\ succ[t] \in Linked /\ extra[t] \in Linked \cup {Tail}
           /\ nextPtr[pred[t]] = succ[t] /\ prevPtr[succ[t]] = pred[t]
           /\ nextPtr[succ[t]] = extra[t] /\ prevPtr[extra[t]] = succ[t]
           /\ key[pred[t]] < key[succ[t]] /\ key[succ[t]] = arg[t]
           /\ extra[t] # Tail => key[succ[t]] < key[extra[t]]
           /\ nextPtr' = [nextPtr EXCEPT ![pred[t]] = extra[t]]
           /\ prevPtr' = [prevPtr EXCEPT ![extra[t]] = pred[t]]
           /\ marked' = [marked EXCEPT ![succ[t]] = TRUE]
           /\ where' = [where EXCEPT ![succ[t]] = "erased"]
           /\ holders' = [holders EXCEPT ![succ[t]] = InGuard]
           /\ Linked' = Linked \ {succ[t]}
           /\ UNCHANGED <<key, graced>>
<1>1. /\ At(t, "erase") /\ Searching(t) /\ Held /\ Guards /\ TypeOK /\ WellLinked
      /\ nextPtr[pred[t]] = succ[t] /\ ~marked[pred[t]] /\ ~marked[succ[t]]
      /\ ~marked[extra[t]] /\ prevPtr[extra[t]] = succ[t]
  BY DEF IInv, Searches, Erase, EraseWith, EraseMatches
<1>2. Safe(t, pred[t]) /\ Safe(t, succ[t]) /\ Safe(t, extra[t])
  BY <1>1 DEF Searching, Held, At
<1>3. /\ pred[t] \in Linked \cup {Head} /\ succ[t] \in Linked
      /\ extra[t] \in Linked \cup {Tail}
  BY <1>1, <1>2, ListAssumption DEF Safe, Guards, TypeOK, Searching, At
<1>4. prevPtr[succ[t]] = pred[t] /\ nextPtr[succ[t]] = extra[t]
  BY <1>1, <1>3 DEF WellLinked
<1>5. /\ nextPtr' = [nextPtr EXCEPT ![pred[t]] = extra[t]]
      /\ prevPtr' = [prevPtr EXCEPT ![extra[t]] = pred[t]]
      /\ marked' = [marked EXCEPT ![succ[t]] = TRUE]
      /\ where' = [where EXCEPT ![succ[t]] = "erased"]
      /\ holders' = [holders EXCEPT ![succ[t]] = InGuard]
      /\ UNCHANGED <<key, graced>>
  BY DEF Erase, EraseWith, Succeed
<1>6. Linked' = Linked \ {succ[t]}
  BY <1>1, <1>5 DEF Linked, TypeOK
<1>7. extra[t] # Tail => key[succ[t]] < key[extra[t]]
  BY <1>1, <1>3, <1>4 DEF WellLinked
<1> QED BY <1>1, <1>3, <1>4, <1>5, <1>6, <1>7 DEF Searching, At

LEMMA EraseFails ==
    ASSUME NEW t \in Threads, Erase(t), ~EraseMatches(pred[t], succ[t], extra[t])
    PROVE  /\ EndGuard(t) /\ UNCHANGED <<fields, where>>
           /\ pc' = [pc EXCEPT ![t] = "first"]
  BY DEF Erase, EraseWith, Retry, Goto, fields

LEMMA Distinct ==
    /\ Linked \subseteq Nodes /\ Places = Nodes \cup {Head, Tail}
    /\ Head \notin Nodes /\ Tail \notin Nodes /\ Head # Tail
    /\ Null # Head /\ Null # Tail /\ Null \notin Nodes
  BY ListAssumption DEF Linked, Places

LEMMA KeyType ==
    ASSUME TypeOK
    PROVE  /\ \A m \in Places : key[m] \in Int /\ -1 <= key[m]
           /\ \A k \in Keys : k \in Int /\ -1 < k
<1>1. \A k \in Keys \cup {-1} : k \in Int /\ -1 <= k
  BY ListAssumption
<1>2. \A k \in Keys : k \in Int /\ -1 < k
  BY ListAssumption
<1> QED BY <1>1, <1>2 DEF TypeOK

LEMMA NewNodeSteps ==
    ASSUME TypeOK, NEW t \in Threads, NewNode(t)
    PROVE  \E n \in Nodes :
              /\ where[n] = "free" /\ where' = [where EXCEPT ![n] = "private"]
              /\ extra' = [extra EXCEPT ![t] = n]
              /\ key' = [key EXCEPT ![n] = arg[t]]
              /\ prevPtr' = [prevPtr EXCEPT ![n] = pred[t]]
              /\ nextPtr' = [nextPtr EXCEPT ![n] = succ[t]]
              /\ marked' = [marked EXCEPT ![n] = FALSE]
              /\ Linked' = Linked /\ n \notin Linked
<1>1. PICK n \in Nodes :
         /\ where[n] = "free" /\ where' = [where EXCEPT ![n] = "private"]
         /\ extra' = [extra EXCEPT ![t] = n]
         /\ key' = [key EXCEPT ![n] = arg[t]]
         /\ prevPtr' = [prevPtr EXCEPT ![n] = pred[t]]
         /\ nextPtr' = [nextPtr EXCEPT ![n] = succ[t]]
         /\ marked' = [marked EXCEPT ![n] = FALSE]
  BY Zenon DEF NewNode
<1>2. Linked' = Linked /\ n \notin Linked
  BY <1>1 DEF Linked, TypeOK
<1> QED BY <1>1, <1>2, Zenon

LEMMA RetireSteps ==
    ASSUME IInv, NEW t \in Threads, Retire(t)
    PROVE  /\ succ[t] \in Nodes /\ t \in holders[succ[t]] /\ where[succ[t]] \in {"erased", "retired"}
           /\ where' = [where EXCEPT ![succ[t]] = "retired"]
           /\ graced' = [graced EXCEPT ![succ[t]] = InGuard]
           /\ Linked' = Linked
           /\ UNCHANGED <<fields, holders>>
<1>1. /\ succ[t] \in Nodes /\ t \in holders[succ[t]] /\ where[succ[t]] \in {"erased", "retired"}
      /\ TypeOK
  BY DEF IInv, Retire, Searches, Searching, Guards, At
<1>2. /\ where' = [where EXCEPT ![succ[t]] = "retired"]
      /\ graced' = [graced EXCEPT ![succ[t]] = InGuard]
      /\ UNCHANGED <<fields, holders>>
  BY DEF Retire
<1>3. Linked' = Linked
  BY <1>1, <1>2 DEF Linked, TypeOK
<1> QED BY <1>1, <1>2, <1>3

LEMMA ReturnSteps ==
    ASSUME NEW t \in Threads, Return(t)
    PROVE  /\ UNCHANGED <<fields, where>> /\ EndGuard(t) /\ Linked' = Linked
           /\ pc' = [pc EXCEPT ![t] = "idle"]
  BY DEF Return, Goto, Linked

LEMMA FreeSteps ==
    ASSUME IInv, NEW n \in Nodes, Free(n)
    PROVE  /\ where[n] = "retired" /\ holders[n] = {}
           /\ where' = [where EXCEPT ![n] = "free"]
           /\ Linked' = Linked
           /\ UNCHANGED <<fields, holders, graced, pc, op, arg, pred, succ, extra, res>>
<1>1. where[n] = "retired" /\ holders[n] = {} /\ TypeOK
  BY DEF IInv, Guards, Free
<1>2. /\ where' = [where EXCEPT ![n] = "free"]
      /\ UNCHANGED <<fields, holders, graced, pc, op, arg, pred, succ, extra, res>>
  BY DEF Free
<1>3. Linked' = Linked
  BY <1>1, <1>2 DEF Linked, TypeOK
<1> QED BY <1>1, <1>2, <1>3

-----------------------------------------------------------------------------
\* The chain.

LEMMA WellLinkedStep == IInv /\ [Next]_vars => WellLinked'
<1> SUFFICES ASSUME IInv, [Next]_vars PROVE WellLinked'
  OBVIOUS
<1>0. TypeOK /\ WellLinked /\ Linked \subseteq Nodes
  BY DEF IInv, Linked
<1>1. CASE Linked' = Linked /\ UNCHANGED fields
  BY <1>0, <1>1 DEF WellLinked, fields
<1>2. ASSUME NEW t \in Threads, NewNode(t) PROVE WellLinked'
  <2>1. PICK n \in Nodes :
           /\ key' = [key EXCEPT ![n] = arg[t]]
           /\ prevPtr' = [prevPtr EXCEPT ![n] = pred[t]]
           /\ nextPtr' = [nextPtr EXCEPT ![n] = succ[t]]
           /\ marked' = [marked EXCEPT ![n] = FALSE]
           /\ Linked' = Linked /\ n \notin Linked
    BY <1>0, <1>2, NewNodeSteps
  <2>2. \A m \in Linked \cup {Head, Tail} :
           /\ m # n /\ key'[m] = key[m] /\ prevPtr'[m] = prevPtr[m]
           /\ nextPtr'[m] = nextPtr[m] /\ marked'[m] = marked[m]
    <3> SUFFICES ASSUME NEW m \in Linked \cup {Head, Tail}
                 PROVE  /\ m # n /\ key'[m] = key[m] /\ prevPtr'[m] = prevPtr[m]
                        /\ nextPtr'[m] = nextPtr[m] /\ marked'[m] = marked[m]
      OBVIOUS
    <3>1. m \in Places /\ m # n
      BY <2>1, Distinct
    <3> QED BY <1>0, <2>1, <3>1 DEF TypeOK
  <2>3. ASSUME NEW m \in Linked \cup {Head}
        PROVE  /\ nextPtr'[m] \in Linked \cup {Tail} /\ prevPtr'[nextPtr'[m]] = m
               /\ nextPtr'[m] # Tail => key'[m] < key'[nextPtr'[m]]
               /\ ~marked'[m]
    BY <1>0, <2>2 DEF WellLinked
  <2>4. ASSUME NEW m \in Linked \cup {Tail}
        PROVE  prevPtr'[m] \in Linked \cup {Head} /\ nextPtr'[prevPtr'[m]] = m
    BY <1>0, <2>2 DEF WellLinked
  <2> QED BY <2>1, <2>3, <2>4 DEF WellLinked
<1>3. ASSUME NEW t \in Threads, Insert(t) PROVE WellLinked'
  <2>1. CASE ~InsertMatches(pred[t], succ[t])
    BY <1>1, <1>3, <2>1, InsertFails
  <2>2. CASE InsertMatches(pred[t], succ[t])
    <3> DEFINE p == pred[t]
               s == succ[t]
               n == extra[t]
    <3>1. /\ p \in Linked \cup {Head} /\ s \in Linked \cup {Tail}
          /\ n \in Nodes /\ n \notin Linked /\ n # Head /\ n # Tail
          /\ nextPtr[p] = s /\ prevPtr[s] = p /\ nextPtr[n] = s /\ prevPtr[n] = p
          /\ key[p] < key[n] /\ (s # Tail => key[n] < key[s]) /\ ~marked[n]
          /\ nextPtr' = [nextPtr EXCEPT ![p] = n]
          /\ prevPtr' = [prevPtr EXCEPT ![s] = n]
          /\ Linked' = Linked \cup {n}
          /\ key' = key /\ marked' = marked
      BY <1>3, <2>2, InsertSucceeds, ListAssumption DEF Linked
    <3> HIDE DEF p, s, n
    <3>2. \A m \in Linked \cup {Head, n} : nextPtr'[m] = IF m = p THEN n ELSE nextPtr[m]
      BY <1>0, <3>1 DEF TypeOK, Places
    <3>3. \A m \in Linked \cup {Tail, n} : prevPtr'[m] = IF m = s THEN n ELSE prevPtr[m]
      BY <1>0, <3>1 DEF TypeOK, Places
    <3>4. p # n /\ s # n /\ p # Tail /\ s # Head
      BY <1>0, <3>1, ListAssumption
    <3>5. ASSUME NEW m \in Linked \cup {Head}, m # p
          PROVE nextPtr[m] \in Linked \cup {Tail} /\ nextPtr[m] # s /\ prevPtr[nextPtr[m]] = m
      BY <1>0, <3>1, <3>5 DEF WellLinked
    <3>6. ASSUME NEW m \in Linked \cup {Tail}, m # s
          PROVE prevPtr[m] \in Linked \cup {Head} /\ prevPtr[m] # p /\ nextPtr[prevPtr[m]] = m
      BY <1>0, <3>1, <3>6 DEF WellLinked
    <3>7. \A m \in Linked' \cup {Head} :
              /\ nextPtr'[m] \in Linked' \cup {Tail}
              /\ prevPtr'[nextPtr'[m]] = m
              /\ nextPtr'[m] # Tail => key'[m] < key'[nextPtr'[m]]
              /\ ~marked'[m]
      <4> SUFFICES ASSUME NEW m \in Linked \cup {Head, n}
                   PROVE  /\ nextPtr'[m] \in Linked' \cup {Tail}
                          /\ prevPtr'[nextPtr'[m]] = m
                          /\ nextPtr'[m] # Tail => key[m] < key[nextPtr'[m]]
                          /\ ~marked[m]
        BY <3>1
      <4>1. CASE m = p
        BY <1>0, <3>1, <3>2, <3>3, <3>4, <4>1 DEF WellLinked
      <4>2. CASE m = n
        BY <1>0, <3>1, <3>2, <3>3, <3>4, <4>2 DEF WellLinked
      <4>3. CASE m # p /\ m # n
        BY <1>0, <3>1, <3>2, <3>3, <3>4, <3>5, <4>3 DEF WellLinked
      <4> QED BY <4>1, <4>2, <4>3
    <3>8. \A m \in Linked' \cup {Tail} :
              prevPtr'[m] \in Linked' \cup {Head} /\ nextPtr'[prevPtr'[m]] = m
      BY <1>0, <3>1, <3>2, <3>3, <3>4, <3>6
    <3> QED BY <3>7, <3>8 DEF WellLinked
  <2> QED BY <2>1, <2>2
<1>4. ASSUME NEW t \in Threads, Erase(t) PROVE WellLinked'
  <2>1. CASE ~EraseMatches(pred[t], succ[t], extra[t])
    BY <1>1, <1>4, <2>1, EraseFails DEF Linked
  <2>2. CASE EraseMatches(pred[t], succ[t], extra[t])
    <3> DEFINE p == pred[t]
               s == succ[t]
               a == extra[t]
    <3>1. /\ p \in Linked \cup {Head} /\ s \in Linked /\ a \in Linked \cup {Tail}
          /\ nextPtr[p] = s /\ prevPtr[s] = p /\ nextPtr[s] = a /\ prevPtr[a] = s
          /\ key[p] < key[s] /\ (a # Tail => key[s] < key[a])
          /\ nextPtr' = [nextPtr EXCEPT ![p] = a]
          /\ prevPtr' = [prevPtr EXCEPT ![a] = p]
          /\ marked' = [marked EXCEPT ![s] = TRUE]
          /\ Linked' = Linked \ {s}
          /\ key' = key
      BY <1>4, <2>2, EraseSucceeds
    <3> HIDE DEF p, s, a
    <3>2. \A m \in Linked \cup {Head} :
             nextPtr'[m] = (IF m = p THEN a ELSE nextPtr[m]) /\ (m # s => marked'[m] = marked[m])
      BY <1>0, <3>1, Distinct DEF TypeOK
    <3>3. \A m \in Linked \cup {Tail} : prevPtr'[m] = IF m = a THEN p ELSE prevPtr[m]
      BY <1>0, <3>1 DEF TypeOK, Places
    <3>4. /\ p # s /\ a # s /\ s # Head /\ s # Tail /\ p # Tail /\ a # Head
          /\ p \in Places /\ s \in Places /\ a \in Places
      BY <1>0, <3>1, KeyType, Distinct
    <3>5. nextPtr'[p] = a /\ prevPtr'[a] = p
      BY <3>1, <3>2, <3>3
    <3>6. ASSUME NEW m \in Linked \cup {Head}, m # p, m # s
          PROVE  /\ nextPtr[m] \in Linked \cup {Tail} /\ nextPtr[m] # s /\ nextPtr[m] # a
                 /\ prevPtr[nextPtr[m]] = m
      BY <1>0, <3>1, <3>6 DEF WellLinked
    <3>7. ASSUME NEW m \in Linked \cup {Tail}, m # a, m # s
          PROVE  /\ prevPtr[m] \in Linked \cup {Head} /\ prevPtr[m] # p /\ prevPtr[m] # s
                 /\ nextPtr[prevPtr[m]] = m
      BY <1>0, <3>1, <3>7 DEF WellLinked
    <3>8. \A m \in Linked' \cup {Head} :
              /\ nextPtr'[m] \in Linked' \cup {Tail}
              /\ prevPtr'[nextPtr'[m]] = m
              /\ nextPtr'[m] # Tail => key'[m] < key'[nextPtr'[m]]
              /\ ~marked'[m]
      <4> SUFFICES ASSUME NEW m \in Linked \cup {Head}, m # s
                   PROVE  /\ nextPtr'[m] \in Linked' \cup {Tail}
                          /\ prevPtr'[nextPtr'[m]] = m
                          /\ nextPtr'[m] # Tail => key[m] < key[nextPtr'[m]]
                          /\ ~marked[m]
        BY <3>1, <3>2, <3>4
      <4>1. CASE m = p
        <5>1. key[p] \in Int /\ key[s] \in Int /\ (a # Tail => key[a] \in Int)
          BY <1>0, <3>4, KeyType
        <5>2. ~marked[p] /\ a \in Linked' \cup {Tail} /\ (a # Tail => key[p] < key[a])
          BY <1>0, <3>1, <3>4, <5>1 DEF WellLinked
        <5> QED BY <3>5, <4>1, <5>2
      <4>2. CASE m # p
        <5>1. nextPtr'[m] = nextPtr[m] /\ marked'[m] = marked[m]
          BY <3>2, <4>2
        <5>2. nextPtr[m] \in Linked' \cup {Tail} /\ prevPtr'[nextPtr[m]] = m
          BY <3>1, <3>3, <3>6, <4>2
        <5> QED BY <1>0, <5>1, <5>2 DEF WellLinked
      <4> QED BY <4>1, <4>2
    <3>9. \A m \in Linked' \cup {Tail} :
              prevPtr'[m] \in Linked' \cup {Head} /\ nextPtr'[prevPtr'[m]] = m
      <4> SUFFICES ASSUME NEW m \in Linked \cup {Tail}, m # s
                   PROVE  prevPtr'[m] \in Linked' \cup {Head} /\ nextPtr'[prevPtr'[m]] = m
        BY <3>1, <3>4
      <4>1. CASE m = a
        <5>1. p \in Linked' \cup {Head}
          BY <3>1, <3>4
        <5> QED BY <3>5, <4>1, <5>1
      <4>2. CASE m # a
        BY <3>1, <3>2, <3>3, <3>7, <4>2
      <4> QED BY <4>1, <4>2
    <3> QED BY <3>8, <3>9 DEF WellLinked
  <2> QED BY <2>1, <2>2
<1>5. ASSUME NEW t \in Threads, Retire(t) PROVE WellLinked'
  BY <1>1, <1>5, RetireSteps
<1>6. ASSUME NEW t \in Threads, Return(t) PROVE WellLinked'
  BY <1>1, <1>6, ReturnSteps
<1>7. ASSUME NEW n \in Nodes, Free(n) PROVE WellLinked'
  BY <1>1, <1>7, FreeSteps
<1>8. CASE UNCHANGED memory
  BY <1>1, <1>8 DEF memory, Linked
<1> QED BY <1>2, <1>3, <1>4, <1>5, <1>6, <1>7, <1>8, MemoryStep

LEMMA OrderedStep == IInv /\ [Next]_vars => Ordered'
<1> SUFFICES ASSUME IInv, [Next]_vars PROVE Ordered'
  OBVIOUS
<1>0. /\ TypeOK /\ WellLinked /\ Ordered
      /\ \A m \in Linked \cup {Head, Tail} : m \in Places /\ key[m] \in Int
  BY KeyType, Distinct DEF IInv
<1>1. CASE Linked' = Linked /\ UNCHANGED fields
  BY <1>0, <1>1 DEF Ordered, fields
<1>2. ASSUME NEW t \in Threads, NewNode(t) PROVE Ordered'
  <2>1. PICK n \in Nodes :
           /\ key' = [key EXCEPT ![n] = arg[t]]
           /\ nextPtr' = [nextPtr EXCEPT ![n] = succ[t]]
           /\ Linked' = Linked /\ n \notin Linked
    BY <1>0, <1>2, NewNodeSteps
  <2>2. ASSUME NEW m \in Linked \cup {Head, Tail}
        PROVE  m # n /\ key'[m] = key[m] /\ nextPtr'[m] = nextPtr[m]
    <3>1. m \in Places /\ m # n
      BY <2>1, Distinct
    <3> QED BY <1>0, <2>1, <3>1 DEF TypeOK
  <2>3. \A m \in Linked \cup {Head} : nextPtr[m] \in Linked \cup {Tail}
    BY <1>0 DEF WellLinked
  <2> QED BY <1>0, <2>1, <2>2, <2>3 DEF Ordered
<1>3. ASSUME NEW t \in Threads, Insert(t) PROVE Ordered'
  <2>1. CASE ~InsertMatches(pred[t], succ[t])
    BY <1>1, <1>3, <2>1, InsertFails
  <2>2. CASE InsertMatches(pred[t], succ[t])
    <3> DEFINE p == pred[t]
               s == succ[t]
               n == extra[t]
    <3>1. /\ p \in Linked \cup {Head} /\ s \in Linked \cup {Tail}
          /\ n \in Places /\ n \notin Linked /\ n # Head /\ n # Tail
          /\ nextPtr[p] = s /\ nextPtr[n] = s
          /\ key[p] < key[n] /\ (s # Tail => key[n] < key[s])
          /\ nextPtr' = [nextPtr EXCEPT ![p] = n]
          /\ Linked' = Linked \cup {n}
          /\ key' = key
      BY <1>3, <2>2, InsertSucceeds, Distinct DEF Linked
    <3> HIDE DEF p, s, n
    <3>2. \A m \in Linked \cup {Head, n} : nextPtr'[m] = IF m = p THEN n ELSE nextPtr[m]
      BY <1>0, <3>1 DEF TypeOK
    <3>3. key[n] \in Int
      BY <1>0, <3>1, KeyType
    <3>4. ASSUME NEW m \in Linked \cup {Head} PROVE key[n] # key[m]
      BY <1>0, <3>1, <3>3 DEF Ordered
    <3>5. ASSUME NEW q \in Linked \cup {Head, n}, NEW m \in Linked \cup {Head, n}, key[q] < key[m]
          PROVE  nextPtr'[q] # Tail /\ key[nextPtr'[q]] <= key[m]
      <4>1. CASE q = p /\ m # n
        BY <1>0, <3>1, <3>2, <3>3, <3>5, <4>1 DEF Ordered
      <4>2. CASE q = p /\ m = n
        BY <3>1, <3>2, <3>3, <4>2
      <4>3. CASE q = n
        <5>1. m \in Linked \cup {Head} /\ key[p] < key[m] /\ nextPtr'[q] = s
          BY <1>0, <3>1, <3>2, <3>3, <3>5, <4>3
        <5> QED BY <1>0, <3>1, <5>1 DEF Ordered
      <4>4. CASE q # p /\ q # n /\ m # n
        BY <1>0, <3>2, <3>5, <4>4 DEF Ordered
      <4>5. CASE q # p /\ q # n /\ m = n
        <5>1. q \in Linked \cup {Head} /\ nextPtr'[q] = nextPtr[q]
          BY <3>2, <4>5
        <5>2. key[q] < key[p]
          BY <1>0, <3>1, <3>3, <3>5, <4>5, <5>1 DEF Ordered
        <5>3. /\ nextPtr[q] # Tail /\ key[nextPtr[q]] <= key[p]
              /\ nextPtr[q] \in Linked \cup {Tail}
          BY <1>0, <3>1, <5>1, <5>2 DEF Ordered, WellLinked
        <5> QED BY <1>0, <3>1, <3>3, <4>5, <5>1, <5>3
      <4> QED BY <4>1, <4>2, <4>3, <4>4, <4>5
    <3> QED BY <1>0, <3>1, <3>4, <3>5 DEF Ordered
  <2> QED BY <2>1, <2>2
<1>4. ASSUME NEW t \in Threads, Erase(t) PROVE Ordered'
  <2>1. CASE ~EraseMatches(pred[t], succ[t], extra[t])
    BY <1>1, <1>4, <2>1, EraseFails DEF Linked
  <2>2. CASE EraseMatches(pred[t], succ[t], extra[t])
    <3> DEFINE p == pred[t]
               s == succ[t]
               a == extra[t]
    <3>1. /\ p \in Linked \cup {Head} /\ s \in Linked /\ a \in Linked \cup {Tail}
          /\ nextPtr[p] = s /\ nextPtr[s] = a /\ key[p] < key[s]
          /\ nextPtr' = [nextPtr EXCEPT ![p] = a]
          /\ Linked' = Linked \ {s}
          /\ key' = key
      BY <1>4, <2>2, EraseSucceeds
    <3> HIDE DEF p, s, a
    <3>2. \A m \in Linked \cup {Head} : nextPtr'[m] = IF m = p THEN a ELSE nextPtr[m]
      BY <1>0, <3>1 DEF TypeOK
    <3>3. ASSUME NEW q \in Linked \cup {Head}, NEW m \in Linked \cup {Head},
                 m # s, key[q] < key[m]
          PROVE  nextPtr'[q] # Tail /\ key[nextPtr'[q]] <= key[m]
      <4>1. CASE q # p
        BY <1>0, <3>2, <3>3, <4>1 DEF Ordered
      <4>2. CASE q = p
        <5>1. key[s] < key[m]
          BY <1>0, <3>1, <3>3, <4>2 DEF Ordered
        <5> QED BY <1>0, <3>1, <3>2, <4>2, <5>1 DEF Ordered
      <4> QED BY <4>1, <4>2
    <3>4. \A q, m \in Linked \cup {Head} : q # m => key[q] # key[m]
      BY <1>0 DEF Ordered
    <3>5. Linked' \cup {Head} \subseteq Linked \cup {Head} /\ \A m \in Linked' \cup {Head} : m # s
      BY <3>1, Distinct
    <3> QED BY <3>1, <3>3, <3>4, <3>5 DEF Ordered
  <2> QED BY <2>1, <2>2
<1>5. ASSUME NEW t \in Threads, Retire(t) PROVE Ordered'
  BY <1>1, <1>5, RetireSteps
<1>6. ASSUME NEW t \in Threads, Return(t) PROVE Ordered'
  BY <1>1, <1>6, ReturnSteps
<1>7. ASSUME NEW n \in Nodes, Free(n) PROVE Ordered'
  BY <1>1, <1>7, FreeSteps
<1>8. CASE UNCHANGED memory
  BY <1>1, <1>8 DEF memory, Linked
<1> QED BY <1>2, <1>3, <1>4, <1>5, <1>6, <1>7, <1>8, MemoryStep

LEMMA SentinelsStep == IInv /\ [Next]_vars => Sentinels'
<1> SUFFICES ASSUME IInv, [Next]_vars PROVE Sentinels'
  OBVIOUS
<1>0. TypeOK /\ Sentinels
  BY DEF IInv
<1>1. CASE UNCHANGED fields
  BY <1>0, <1>1 DEF Sentinels, fields
<1>2. ASSUME NEW t \in Threads, NewNode(t) PROVE Sentinels'
  <2>1. PICK n \in Nodes :
           key' = [key EXCEPT ![n] = arg[t]] /\ marked' = [marked EXCEPT ![n] = FALSE]
    BY <1>0, <1>2, NewNodeSteps
  <2> QED BY <1>0, <2>1, Distinct DEF Sentinels, TypeOK
<1>3. ASSUME NEW t \in Threads, Insert(t) PROVE Sentinels'
  <2>1. CASE InsertMatches(pred[t], succ[t])
    BY <1>0, <1>3, <2>1, InsertSucceeds DEF Sentinels
  <2> QED BY <1>1, <1>3, <2>1, InsertFails
<1>4. ASSUME NEW t \in Threads, Erase(t) PROVE Sentinels'
  <2>1. CASE EraseMatches(pred[t], succ[t], extra[t])
    <3>1. succ[t] \in Nodes /\ marked' = [marked EXCEPT ![succ[t]] = TRUE] /\ key' = key
      BY <1>4, <2>1, EraseSucceeds, Distinct
    <3> QED BY <1>0, <3>1, Distinct DEF Sentinels, TypeOK
  <2> QED BY <1>1, <1>4, <2>1, EraseFails
<1> QED BY <1>1, <1>2, <1>3, <1>4, MemoryStep, RetireSteps, ReturnSteps, FreeSteps DEF memory

-----------------------------------------------------------------------------
\* The guards.

\* A thread is in a guard until its call returns.
LEMMA InGuardStep ==
    ASSUME TypeOK, [Next]_vars
    PROVE  \/ InGuard \subseteq InGuard'
           \/ \E t \in Threads : Return(t)
<1>1. ASSUME pc' = pc PROVE InGuard \subseteq InGuard'
  BY <1>1 DEF InGuard
<1>2. ASSUME NEW t \in Threads, NEW label, label # "idle", pc' = [pc EXCEPT ![t] = label]
      PROVE  InGuard \subseteq InGuard'
  BY <1>2 DEF InGuard, TypeOK
<1>3. ASSUME NEW t \in Threads, Call(t) \/ Work(t), ~Return(t)
      PROVE  InGuard \subseteq InGuard'
  <2>1. CASE Call(t) \/ ReadFirst(t) \/ NewNode(t) \/ ReadAfter(t) \/ Retire(t)
    BY <1>2, <2>1 DEF Call, ReadFirst, NewNode, ReadAfter, Retire, Goto
  <2>2. CASE Advance(t)
    BY <1>1, <2>2 DEF Advance
  <2>3. CASE Contains(t) \/ InsertFindsKey(t) \/ EraseFindsNone(t)
    BY <1>2, <2>3 DEF Contains, InsertFindsKey, EraseFindsNone, Answer, Goto
  <2>4. CASE Insert(t)
    BY <1>2, <2>4 DEF Insert, InsertWith, Succeed, Retry, Goto
  <2>5. CASE Erase(t)
    <3>1. CASE EraseMatches(pred[t], succ[t], extra[t])
      <4>1. pc' = [pc EXCEPT ![t] = IF reclaims THEN "retire" ELSE "return"]
        BY <2>5, <3>1 DEF Erase, EraseWith, Succeed, Goto
      <4>2. (IF reclaims THEN "retire" ELSE "return") # "idle"
        OBVIOUS
      <4> QED BY <1>2, <4>1, <4>2
    <3> QED BY <1>2, <2>5, <3>1, EraseFails
  <2> QED BY <1>3, <2>1, <2>2, <2>3, <2>4, <2>5 DEF Work
<1>4. CASE UNCHANGED vars
  BY <1>1, <1>4 DEF vars
<1> QED BY <1>1, <1>3, <1>4 DEF Next, CallStep, WorkStep, FreeStep, Free

LEMMA GuardsStep == IInv /\ [Next]_vars => Guards'
<1> SUFFICES ASSUME IInv, [Next]_vars PROVE Guards'
  OBVIOUS
<1>0. TypeOK /\ Guards
  BY DEF IInv
<1>1. ASSUME NEW t \in Threads, NewNode(t) PROVE Guards'
  <2>1. PICK n \in Nodes :
           /\ where[n] = "free" /\ where' = [where EXCEPT ![n] = "private"]
           /\ marked' = [marked EXCEPT ![n] = FALSE]
    BY <1>0, <1>1, NewNodeSteps
  <2>2. graced' = graced /\ holders' = holders /\ InGuard \subseteq InGuard'
    BY <1>0, <1>1 DEF NewNode, Goto, InGuard, TypeOK
  <2> QED BY <1>0, <2>1, <2>2 DEF Guards, TypeOK
<1>2. ASSUME NEW t \in Threads, Insert(t) PROVE Guards'
  <2>1. CASE InsertMatches(pred[t], succ[t])
    <3>1. /\ extra[t] \in Nodes /\ where[extra[t]] = "private"
          /\ where' = [where EXCEPT ![extra[t]] = "linked"]
          /\ UNCHANGED <<marked, graced, holders>>
      BY <1>2, <2>1, InsertSucceeds
    <3>2. InGuard \subseteq InGuard'
      BY <1>0, <1>2, <2>1 DEF Insert, InsertWith, Succeed, Goto, InGuard, TypeOK
    <3> QED BY <1>0, <3>1, <3>2 DEF Guards, TypeOK
  <2>2. CASE ~InsertMatches(pred[t], succ[t])
    <3>1. /\ extra[t] \in Nodes /\ where[extra[t]] = "private"
          /\ where' = [where EXCEPT ![extra[t]] = "free"]
          /\ EndGuard(t) /\ marked' = marked /\ pc' = [pc EXCEPT ![t] = "first"]
      BY <1>2, <2>2, InsertFails DEF fields
    <3>2. InGuard \subseteq InGuard'
      BY <1>0, <3>1 DEF InGuard, TypeOK
    <3> QED BY <1>0, <3>1, <3>2 DEF Guards, TypeOK, EndGuard
  <2> QED BY <2>1, <2>2
<1>3. ASSUME NEW t \in Threads, Erase(t) PROVE Guards'
  <2>1. CASE EraseMatches(pred[t], succ[t], extra[t])
    <3>1. /\ succ[t] \in Nodes /\ where[succ[t]] = "linked"
          /\ where' = [where EXCEPT ![succ[t]] = "erased"]
          /\ marked' = [marked EXCEPT ![succ[t]] = TRUE]
          /\ holders' = [holders EXCEPT ![succ[t]] = InGuard]
          /\ graced' = graced
      BY <1>3, <2>1, EraseSucceeds DEF Linked
    <3>2. InGuard \subseteq InGuard'
      BY <1>0, <1>3, <2>1 DEF Erase, EraseWith, Succeed, Goto, InGuard, TypeOK
    <3> QED BY <1>0, <3>1, <3>2 DEF Guards, TypeOK, Places
  <2>2. CASE ~EraseMatches(pred[t], succ[t], extra[t])
    <3>1. EndGuard(t) /\ UNCHANGED <<fields, where>> /\ pc' = [pc EXCEPT ![t] = "first"]
      BY <1>3, <2>2, EraseFails
    <3>2. InGuard \subseteq InGuard'
      BY <1>0, <3>1 DEF InGuard, TypeOK
    <3> QED BY <1>0, <3>1, <3>2 DEF Guards, TypeOK, EndGuard, fields
  <2> QED BY <2>1, <2>2
<1>4. ASSUME NEW t \in Threads, Retire(t) PROVE Guards'
  <2>1. InGuard \subseteq InGuard'
    BY <1>0, <1>4 DEF Retire, Goto, InGuard, TypeOK
  <2> QED BY <1>0, <1>4, <2>1, RetireSteps DEF Guards, TypeOK, fields
<1>5. ASSUME NEW t \in Threads, Return(t) PROVE Guards'
  <2>1. InGuard \ {t} \subseteq InGuard'
    BY <1>0, <1>5, ReturnSteps DEF InGuard, TypeOK
  <2> QED BY <1>0, <1>5, <2>1, ReturnSteps DEF Guards, TypeOK, EndGuard, fields
<1>6. ASSUME NEW n \in Nodes, Free(n) PROVE Guards'
  <2>1. InGuard' = InGuard
    BY <1>6 DEF Free, InGuard
  <2> QED BY <1>0, <1>6, <2>1, FreeSteps DEF Guards, TypeOK, fields
<1>7. CASE UNCHANGED memory
  <2>1. CASE InGuard \subseteq InGuard'
    BY <1>0, <1>7, <2>1 DEF Guards, memory, fields
  <2> QED BY <1>0, <1>5, <2>1, InGuardStep
<1> QED BY <1>1, <1>2, <1>3, <1>4, <1>5, <1>6, <1>7, MemoryStep

\* A call keeps its hold on the nodes for as long as its guard lasts.
LEMMA HoldsStep ==
    ASSUME IInv, [Next]_vars, NEW t \in Threads, pc'[t] \notin {"idle", "first"},
           NEW n \in Nodes, t \in holders[n]
    PROVE  t \in holders'[n]
<1>0. TypeOK /\ Guards /\ t \in InGuard
  BY DEF IInv, Guards
<1>1. CASE UNCHANGED holders
  BY <1>1
<1>2. ASSUME NEW u \in Threads, EndGuard(u), NEW label \in {"idle", "first"},
             pc' = [pc EXCEPT ![u] = label]
      PROVE  t \in holders'[n]
  BY <1>0, <1>2 DEF EndGuard, TypeOK
<1>3. ASSUME NEW u \in Threads, Insert(u) PROVE t \in holders'[n]
  BY <1>1, <1>2, <1>3, InsertSucceeds, InsertFails
<1>4. ASSUME NEW u \in Threads, Erase(u) PROVE t \in holders'[n]
  <2>1. CASE EraseMatches(pred[u], succ[u], extra[u])
    BY <1>0, <1>4, <2>1, EraseSucceeds DEF TypeOK
  <2> QED BY <1>2, <1>4, <2>1, EraseFails
<1>5. ASSUME NEW u \in Threads, NewNode(u) PROVE t \in holders'[n]
  BY <1>1, <1>5 DEF NewNode
<1>6. ASSUME NEW u \in Threads, Return(u) PROVE t \in holders'[n]
  BY <1>2, <1>6, ReturnSteps
<1> QED BY <1>1, <1>3, <1>4, <1>5, <1>6, MemoryStep, RetireSteps, FreeSteps DEF memory

\* A node that a call holds stays what it is.
LEMMA KeptStep ==
    ASSUME IInv, [Next]_vars, NEW t \in Threads, t \in InGuard, NEW n, Safe(t, n),
           \A m \in Nodes : t \in holders[m] => t \in holders'[m]
    PROVE  Safe(t, n)' /\ key'[n] = key[n] /\ n \in Places
<1>0. TypeOK /\ Guards /\ n \in Places
  BY Distinct DEF IInv, Safe
<1>1. CASE Linked' = Linked /\ key' = key
  BY <1>0, <1>1 DEF Safe
<1>2. ASSUME NEW u \in Threads, NewNode(u) PROVE Safe(t, n)' /\ key'[n] = key[n]
  <2>1. PICK m \in Nodes :
           where[m] = "free" /\ key' = [key EXCEPT ![m] = arg[u]] /\ Linked' = Linked /\ m \notin Linked
    BY <1>0, <1>2, NewNodeSteps
  <2>2. n # m
    BY <1>0, <2>1, Distinct DEF Safe, Guards
  <2> QED BY <1>0, <2>1, <2>2 DEF Safe, TypeOK
<1>3. ASSUME NEW u \in Threads, Insert(u) PROVE Safe(t, n)' /\ key'[n] = key[n]
  <2>1. CASE InsertMatches(pred[u], succ[u])
    BY <1>0, <1>3, <2>1, InsertSucceeds DEF Safe
  <2> QED BY <1>1, <1>3, <2>1, InsertFails DEF fields
<1>4. ASSUME NEW u \in Threads, Erase(u) PROVE Safe(t, n)' /\ key'[n] = key[n]
  <2>1. CASE EraseMatches(pred[u], succ[u], extra[u])
    <3>1. /\ succ[u] \in Nodes /\ key' = key /\ Linked' = Linked \ {succ[u]}
          /\ holders' = [holders EXCEPT ![succ[u]] = InGuard]
      BY <1>4, <2>1, EraseSucceeds, Distinct
    <3>2. n = succ[u] => t \in holders'[n]
      BY <1>0, <3>1 DEF TypeOK
    <3> QED BY <1>0, <3>1, <3>2 DEF Safe
  <2> QED BY <1>1, <1>4, <2>1, EraseFails DEF fields, Linked
<1>5. ASSUME NEW u \in Threads, Retire(u) \/ Return(u) PROVE Safe(t, n)' /\ key'[n] = key[n]
  BY <1>1, <1>5, RetireSteps, ReturnSteps DEF fields
<1>6. ASSUME NEW m \in Nodes, Free(m) PROVE Safe(t, n)' /\ key'[n] = key[n]
  BY <1>1, <1>6, FreeSteps DEF fields
<1>7. CASE UNCHANGED memory
  BY <1>1, <1>7 DEF memory, fields, Linked
<1> QED BY <1>0, <1>2, <1>3, <1>4, <1>5, <1>6, <1>7, MemoryStep

\* Whoever waits for a node after a step waited for it before, or it was in the list; and the
\* node has not changed.
LEMMA FrozenStep ==
    ASSUME IInv, [Next]_vars, NEW t \in Threads, NEW n \in Nodes, t \in holders'[n]
    PROVE  /\ t \in InGuard
           /\ n \in Linked \/ t \in holders[n]
           /\ nextPtr'[n] = nextPtr[n] /\ key'[n] = key[n]
           /\ \A m \in Nodes : t \in holders[m] => t \in holders'[m]
<1> DEFINE Goal == /\ t \in InGuard
                   /\ n \in Linked \/ t \in holders[n]
                   /\ nextPtr'[n] = nextPtr[n] /\ key'[n] = key[n]
                   /\ \A m \in Nodes : t \in holders[m] => t \in holders'[m]
<1>0. TypeOK /\ Guards /\ (t \in holders[n] => t \in InGuard /\ n \notin Linked)
  BY DEF IInv, Guards, Linked
<1>1. CASE UNCHANGED <<fields, holders>>
  BY <1>0, <1>1 DEF fields
<1>2. CASE UNCHANGED fields /\ \E u \in Threads : EndGuard(u)
  <2>1. PICK u \in Threads : EndGuard(u)
    BY <1>2
  <2>2. t # u /\ t \in holders[n]
    BY <1>0, <2>1 DEF EndGuard, TypeOK
  <2> QED BY <1>0, <1>2, <2>1, <2>2 DEF EndGuard, TypeOK, fields
<1>3. ASSUME NEW u \in Threads, NewNode(u) PROVE Goal
  <2>1. PICK m \in Nodes :
           /\ where[m] = "free" /\ key' = [key EXCEPT ![m] = arg[u]]
           /\ nextPtr' = [nextPtr EXCEPT ![m] = succ[u]]
    BY <1>0, <1>3, NewNodeSteps
  <2>2. holders' = holders /\ n # m
    BY <1>0, <1>3, <2>1 DEF NewNode, Guards
  <2> QED BY <1>0, <2>1, <2>2 DEF TypeOK
<1>4. ASSUME NEW u \in Threads, Insert(u) PROVE Goal
  <2>1. CASE InsertMatches(pred[u], succ[u])
    BY <1>0, <1>4, <2>1, InsertSucceeds, Distinct DEF TypeOK
  <2> QED BY <1>2, <1>4, <2>1, InsertFails
<1>5. ASSUME NEW u \in Threads, Erase(u) PROVE Goal
  <2>1. CASE EraseMatches(pred[u], succ[u], extra[u])
    <3>1. /\ pred[u] \in Linked \cup {Head} /\ succ[u] \in Linked /\ key[pred[u]] < key[succ[u]]
          /\ nextPtr' = [nextPtr EXCEPT ![pred[u]] = extra[u]] /\ key' = key
          /\ holders' = [holders EXCEPT ![succ[u]] = InGuard]
      BY <1>5, <2>1, EraseSucceeds
    <3>2. pred[u] # succ[u]
      BY <1>0, <3>1, KeyType, Distinct
    <3>3. CASE n = succ[u]
      BY <1>0, <3>1, <3>2, <3>3, Distinct DEF TypeOK
    <3>4. CASE n # succ[u]
      BY <1>0, <3>1, <3>4, Distinct DEF TypeOK
    <3> QED BY <3>3, <3>4
  <2> QED BY <1>2, <1>5, <2>1, EraseFails
<1>6. CASE UNCHANGED memory
  BY <1>1, <1>6 DEF memory
<1> QED BY <1>1, <1>2, <1>3, <1>4, <1>5, <1>6, MemoryStep, RetireSteps, ReturnSteps, FreeSteps

LEMMA Follow ==
    ASSUME IInv, NEW t \in Threads, NEW n \in Nodes \cup {Head}, Safe(t, n)
    PROVE  /\ Safe(t, nextPtr[n]) /\ nextPtr[n] \in Nodes \cup {Tail}
           /\ nextPtr[n] # Tail => key[n] < key[nextPtr[n]]
<1>1. CASE n \in Linked \cup {Head}
  BY <1>1, Distinct DEF IInv, WellLinked, Safe
<1>2. CASE n \notin Linked \cup {Head}
  BY <1>2, Distinct DEF IInv, Paths, Safe
<1> QED BY <1>1, <1>2

LEMMA PathsStep == IInv /\ [Next]_vars => Paths'
<1> SUFFICES ASSUME IInv, [Next]_vars, NEW n \in Nodes, NEW t \in holders'[n]
             PROVE  /\ Safe(t, nextPtr[n])' /\ nextPtr'[n] # Head
                    /\ nextPtr'[n] # Tail => key'[n] < key'[nextPtr'[n]]
  BY DEF Paths
<1>1. t \in Threads
  BY GuardsStep DEF Guards, InGuard
<1>2. /\ t \in InGuard /\ Safe(t, n)
      /\ nextPtr'[n] = nextPtr[n] /\ key'[n] = key[n]
      /\ \A m \in Nodes : t \in holders[m] => t \in holders'[m]
  BY <1>1, FrozenStep DEF Safe
<1>3. /\ Safe(t, nextPtr[n]) /\ nextPtr[n] \in Nodes \cup {Tail}
      /\ nextPtr[n] # Tail => key[n] < key[nextPtr[n]]
  BY <1>1, <1>2, Follow
<1>4. Safe(t, nextPtr[n])' /\ key'[nextPtr[n]] = key[nextPtr[n]]
  <2>1. \A m : Safe(t, m) => Safe(t, m)' /\ key'[m] = key[m]
    BY <1>1, <1>2, KeptStep
  <2> QED BY <1>2, <1>3, <2>1 DEF Safe
<1> QED BY <1>2, <1>3, <1>4, Distinct

-----------------------------------------------------------------------------
\* What the calls know.

LEMMA KeptByCall ==
    ASSUME IInv, [Next]_vars, NEW t \in Threads, pc[t] # "idle", pc'[t] \notin {"idle", "first"},
           NEW n, Safe(t, n)
    PROVE  Safe(t, n)' /\ key'[n] = key[n] /\ n \in Places
  BY HoldsStep, KeptStep DEF InGuard

LEMMA SearchesStep == IInv /\ [Next]_vars => Searches'
<1> SUFFICES ASSUME IInv, [Next]_vars, NEW t \in Threads PROVE Searching(t)'
  BY DEF Searches
<1>0. TypeOK /\ Searching(t) /\ Held /\ pc[t] \in {"idle", "first", "search", "insert", "erase", "retire", "return"}
  BY DEF IInv, Searches, TypeOK
<1>1. ASSUME /\ pc'[t] = pc[t] /\ op'[t] = op[t] /\ arg'[t] = arg[t] /\ res'[t] = res[t]
             /\ pred'[t] = pred[t] /\ succ'[t] = succ[t] /\ extra'[t] = extra[t]
      PROVE  Searching(t)'
  <2>1. CASE pc[t] \in {"idle", "first", "return"}
    BY <1>0, <1>1, <2>1 DEF Searching
  <2>2. CASE pc[t] \in {"search", "insert", "erase"}
    <3>1. Safe(t, pred[t]) /\ Safe(t, succ[t])
      BY <1>0, <2>2 DEF Searching, Held
    <3>2. key'[pred[t]] = key[pred[t]] /\ key'[succ[t]] = key[succ[t]]
      BY <1>1, <2>2, <3>1, KeptByCall
    <3> QED BY <1>0, <1>1, <2>2, <3>2 DEF Searching
  <2>3. CASE pc[t] = "retire"
    <3>1. t \in holders'[succ[t]]
      BY <1>0, <1>1, <2>3, HoldsStep DEF Searching
    <3> QED BY <1>0, <1>1, <2>3, <3>1 DEF Searching
  <2> QED BY <1>0, <2>1, <2>2, <2>3
<1>2. ASSUME Call(t) PROVE Searching(t)'
  <2>1. PICK o \in {"insert", "erase", "contains"}, k \in Keys :
           op' = [op EXCEPT ![t] = o] /\ arg' = [arg EXCEPT ![t] = k]
    BY <1>2 DEF Call
  <2>2. /\ pc[t] = "idle" /\ pc' = [pc EXCEPT ![t] = "first"] /\ res' = res
        /\ pred' = pred /\ succ' = succ /\ extra' = extra
    BY <1>2 DEF Call, At, Goto
  <2>3. res[t] = "pending"
    BY <1>0, <2>2 DEF Searching
  <2> QED BY <1>0, <2>1, <2>2, <2>3 DEF Searching, TypeOK
<1>3. ASSUME ReadFirst(t) PROVE Searching(t)'
  <2>1. /\ pc[t] = "first" /\ pc' = [pc EXCEPT ![t] = "search"]
        /\ pred' = [pred EXCEPT ![t] = Head] /\ succ' = [succ EXCEPT ![t] = nextPtr[Head]]
        /\ key' = key /\ op' = op /\ arg' = arg /\ extra' = extra /\ res' = res
    BY <1>3 DEF ReadFirst, At, Goto, memory, fields
  <2>2. nextPtr[Head] # Null /\ key[Head] < arg[t]
    <3>1. nextPtr[Head] \in Linked \cup {Tail} /\ key[Head] = -1
      BY DEF IInv, WellLinked, Sentinels
    <3>2. arg[t] \in Keys
      BY <1>0, <2>1 DEF Searching
    <3> QED BY <1>0, <3>1, <3>2, KeyType, Distinct
  <2> QED BY <1>0, <2>1, <2>2, Distinct DEF Searching, TypeOK
<1>4. ASSUME Advance(t) PROVE Searching(t)'
  <2>1. /\ pc[t] = "search" /\ pc' = pc /\ ~Found(t)
        /\ pred' = [pred EXCEPT ![t] = succ[t]] /\ succ' = [succ EXCEPT ![t] = nextPtr[succ[t]]]
        /\ key' = key /\ op' = op /\ arg' = arg /\ extra' = extra /\ res' = res
    BY <1>4 DEF Advance, At, memory, fields
  <2>2. succ[t] \in Nodes /\ Safe(t, succ[t]) /\ arg[t] \in Keys
    BY <1>0, <2>1, Distinct DEF Found, TypeOK, Searching, Held
  <2>3. key[succ[t]] < arg[t]
    BY <1>0, <2>1, <2>2, KeyType, Distinct DEF Found
  <2>4. nextPtr[succ[t]] # Null
    BY <2>2, Follow, Distinct
  <2> QED BY <1>0, <2>1, <2>2, <2>3, <2>4, Distinct DEF Searching, TypeOK
<1>5. ASSUME Contains(t) \/ InsertFindsKey(t) \/ EraseFindsNone(t) PROVE Searching(t)'
  <2>1. PICK r \in {"true", "false"} : Answer(t, r) /\ pc[t] = "search"
    BY <1>5 DEF Contains, InsertFindsKey, EraseFindsNone, Searched, At
  <2>2. /\ pc' = [pc EXCEPT ![t] = "return"] /\ res' = [res EXCEPT ![t] = r] /\ op' = op /\ arg' = arg
    BY <2>1 DEF Answer, Goto
  <2> QED BY <1>0, <2>1, <2>2 DEF Searching, TypeOK
<1>6. ASSUME NewNode(t) PROVE Searching(t)'
  <2>1. /\ pc[t] = "search" /\ op[t] = "insert" /\ Found(t) /\ ~Present(t)
        /\ pc' = [pc EXCEPT ![t] = "insert"]
        /\ op' = op /\ arg' = arg /\ pred' = pred /\ succ' = succ /\ res' = res
    BY <1>6 DEF NewNode, Searched, At, Goto
  <2>2. Safe(t, pred[t]) /\ Safe(t, succ[t]) /\ arg[t] \in Keys
    BY <1>0, <2>1 DEF Searching, Held
  <2>3. pc[t] # "idle" /\ pc'[t] \notin {"idle", "first"}
    BY <1>0, <2>1 DEF TypeOK
  <2>4. /\ key'[pred[t]] = key[pred[t]] /\ key'[succ[t]] = key[succ[t]]
        /\ succ[t] \in Places
    BY <2>2, <2>3, KeptByCall
  <2>5. succ[t] = Tail \/ arg[t] < key[succ[t]]
    BY <1>0, <2>1, <2>2, <2>4, KeyType DEF Found, Present
  <2> QED BY <1>0, <2>1, <2>2, <2>4, <2>5 DEF Searching, TypeOK
<1>7. ASSUME Insert(t) PROVE Searching(t)'
  <2>1. CASE InsertMatches(pred[t], succ[t])
    <3>1. /\ pc[t] = "insert" /\ pc' = [pc EXCEPT ![t] = "return"] /\ res' = [res EXCEPT ![t] = "true"]
          /\ op' = op /\ arg' = arg
      BY <1>7, <2>1 DEF Insert, InsertWith, Succeed, Goto, At
    <3> QED BY <1>0, <3>1 DEF Searching, TypeOK
  <2>2. CASE ~InsertMatches(pred[t], succ[t])
    <3>1. /\ pc[t] = "insert" /\ pc' = [pc EXCEPT ![t] = "first"] /\ res' = res
          /\ pred' = [pred EXCEPT ![t] = Null] /\ succ' = [succ EXCEPT ![t] = Null]
          /\ extra' = [extra EXCEPT ![t] = Null]
          /\ op' = op /\ arg' = arg
      BY <1>7, <2>2 DEF Insert, InsertWith, Retry, Goto, At
    <3> QED BY <1>0, <3>1 DEF Searching, TypeOK
  <2> QED BY <2>1, <2>2
<1>8. ASSUME ReadAfter(t) PROVE Searching(t)'
  <2>1. /\ pc[t] = "search" /\ op[t] = "erase" /\ Present(t)
        /\ pc' = [pc EXCEPT ![t] = "erase"] /\ extra' = [extra EXCEPT ![t] = nextPtr[succ[t]]]
        /\ key' = key /\ op' = op /\ arg' = arg /\ pred' = pred /\ succ' = succ /\ res' = res
    BY <1>8 DEF ReadAfter, Searched, At, Goto, memory, fields
  <2>2. succ[t] \in Nodes /\ Safe(t, succ[t])
    BY <1>0, <2>1, Distinct DEF Present, TypeOK, Searching, Held
  <2>3. nextPtr[succ[t]] # Null
    BY <2>2, Follow, Distinct
  <2> QED BY <1>0, <2>1, <2>3 DEF Searching, TypeOK, Present
<1>9. ASSUME Erase(t) PROVE Searching(t)'
  <2>1. CASE EraseMatches(pred[t], succ[t], extra[t])
    <3>1. /\ pc[t] = "erase" /\ pc' = [pc EXCEPT ![t] = IF reclaims THEN "retire" ELSE "return"]
          /\ res' = [res EXCEPT ![t] = "true"] /\ op' = op /\ arg' = arg /\ succ' = succ
      BY <1>9, <2>1 DEF Erase, EraseWith, Succeed, Goto, At
    <3>2. succ[t] \in Nodes /\ holders' = [holders EXCEPT ![succ[t]] = InGuard]
      BY <1>9, <2>1, EraseSucceeds, Distinct
    <3>3. t \in holders'[succ[t]]
      BY <1>0, <3>1, <3>2 DEF TypeOK, InGuard
    <3> QED BY <1>0, <3>1, <3>2, <3>3 DEF Searching, TypeOK
  <2>2. CASE ~EraseMatches(pred[t], succ[t], extra[t])
    <3>1. /\ pc[t] = "erase" /\ pc' = [pc EXCEPT ![t] = "first"] /\ res' = res
          /\ pred' = [pred EXCEPT ![t] = Null] /\ succ' = [succ EXCEPT ![t] = Null]
          /\ extra' = [extra EXCEPT ![t] = Null]
          /\ op' = op /\ arg' = arg
      BY <1>9, <2>2 DEF Erase, EraseWith, Retry, Goto, At
    <3> QED BY <1>0, <3>1 DEF Searching, TypeOK
  <2> QED BY <2>1, <2>2
<1>10. ASSUME Retire(t) PROVE Searching(t)'
  <2>1. /\ pc[t] = "retire" /\ pc' = [pc EXCEPT ![t] = "return"]
        /\ res' = res /\ op' = op /\ arg' = arg
    BY <1>10 DEF Retire, Goto, At
  <2>2. res[t] # "pending"
    BY <1>0, <2>1 DEF Searching
  <2> QED BY <1>0, <2>1, <2>2 DEF Searching, TypeOK
<1>11. ASSUME Return(t) PROVE Searching(t)'
  BY <1>0, <1>11 DEF Return, Goto, Searching, TypeOK
<1>12. CASE \E u \in Threads : Call(u) \/ Work(u)
  <2>1. PICK u \in Threads : Call(u) \/ Work(u)
    BY <1>12
  <2>2. CASE u = t
    BY <1>2, <1>3, <1>4, <1>5, <1>6, <1>7, <1>8, <1>9, <1>10, <1>11, <2>1, <2>2 DEF Work
  <2>3. CASE u # t
    BY <1>0, <1>1, <2>1, <2>3, OtherCalls
  <2> QED BY <2>2, <2>3
<1>13. CASE UNCHANGED <<pc, op, arg, pred, succ, extra, res>>
  BY <1>1, <1>13
<1> QED BY <1>12, <1>13 DEF Next, CallStep, WorkStep, FreeStep, Free, vars

\* The nodes a call holds after a step: those it held, and what these lead to.
LEMMA PointersStep ==
    ASSUME IInv, [Next]_vars, NEW t \in Threads, pc'[t] \notin {"idle", "first"}
    PROVE  /\ pred'[t] # Null => Safe(t, pred'[t])
           /\ succ'[t] # Null => Safe(t, succ'[t])
           /\ op'[t] = "erase" /\ extra'[t] # Null => Safe(t, extra'[t])
           /\ pc[t] # "idle"
<1> DEFINE Goal == /\ pred'[t] # Null => Safe(t, pred'[t])
                   /\ succ'[t] # Null => Safe(t, succ'[t])
                   /\ op'[t] = "erase" /\ extra'[t] # Null => Safe(t, extra'[t])
                   /\ pc[t] # "idle"
<1>0. TypeOK /\ Searching(t) /\ Held
  BY DEF IInv, Searches
<1>1. ASSUME /\ pc[t] # "idle" /\ op'[t] = op[t]
             /\ pred'[t] = pred[t] /\ succ'[t] = succ[t] /\ (op[t] = "erase" => extra'[t] = extra[t])
      PROVE  Goal
  BY <1>0, <1>1 DEF Held
<1>2. ASSUME Call(t) \/ Return(t) PROVE FALSE
  BY <1>0, <1>2 DEF Call, Return, Goto, TypeOK
<1>3. ASSUME ReadFirst(t) PROVE Goal
  <2>1. /\ pc[t] = "first" /\ op' = op /\ extra' = extra
        /\ pred' = [pred EXCEPT ![t] = Head] /\ succ' = [succ EXCEPT ![t] = nextPtr[Head]]
    BY <1>3 DEF ReadFirst, At
  <2>2. Safe(t, Head) /\ Safe(t, nextPtr[Head])
    BY Follow DEF Safe
  <2> QED BY <1>0, <2>1, <2>2 DEF Held, TypeOK
<1>4. ASSUME Advance(t) PROVE Goal
  <2>1. /\ pc[t] = "search" /\ op' = op /\ extra' = extra /\ succ[t] # Tail
        /\ pred' = [pred EXCEPT ![t] = succ[t]] /\ succ' = [succ EXCEPT ![t] = nextPtr[succ[t]]]
    BY <1>4 DEF Advance, At, Found
  <2>2. succ[t] \in Nodes /\ Safe(t, succ[t])
    BY <1>0, <2>1 DEF TypeOK, Searching, Held
  <2>3. Safe(t, nextPtr[succ[t]])
    BY <2>2, Follow
  <2> QED BY <1>0, <2>1, <2>2, <2>3 DEF Held, TypeOK
<1>5. ASSUME ReadAfter(t) PROVE Goal
  <2>1. /\ pc[t] = "search" /\ op' = op /\ pred' = pred /\ succ' = succ /\ succ[t] # Tail
        /\ extra' = [extra EXCEPT ![t] = nextPtr[succ[t]]]
    BY <1>5 DEF ReadAfter, Searched, Present, At
  <2>2. succ[t] \in Nodes /\ Safe(t, succ[t])
    BY <1>0, <2>1 DEF TypeOK, Searching, Held
  <2>3. Safe(t, nextPtr[succ[t]])
    BY <2>2, Follow
  <2> QED BY <1>0, <2>1, <2>3 DEF Held, TypeOK
<1>6. ASSUME Contains(t) \/ InsertFindsKey(t) \/ EraseFindsNone(t) \/ NewNode(t) PROVE Goal
  BY <1>1, <1>6 DEF Contains, InsertFindsKey, EraseFindsNone, NewNode, Searched, Answer, At
<1>7. ASSUME Insert(t) PROVE Goal
  <2>1. CASE InsertMatches(pred[t], succ[t])
    BY <1>1, <1>7, <2>1 DEF Insert, InsertWith, Succeed, At
  <2> QED BY <1>0, <1>7, <2>1, InsertFails DEF TypeOK
<1>8. ASSUME Erase(t) PROVE Goal
  <2>1. CASE EraseMatches(pred[t], succ[t], extra[t])
    BY <1>1, <1>8, <2>1 DEF Erase, EraseWith, Succeed, At
  <2> QED BY <1>0, <1>8, <2>1, EraseFails DEF TypeOK
<1>9. ASSUME Retire(t) PROVE Goal
  BY <1>1, <1>9 DEF Retire, At
<1>10. CASE \E u \in Threads : Call(u) \/ Work(u)
  <2>1. PICK u \in Threads : Call(u) \/ Work(u)
    BY <1>10
  <2>2. CASE u = t
    BY <1>2, <1>3, <1>4, <1>5, <1>6, <1>7, <1>8, <1>9, <2>1, <2>2 DEF Work
  <2>3. CASE u # t
    BY <1>0, <1>1, <2>1, <2>3, OtherCalls
  <2> QED BY <2>2, <2>3
<1>11. CASE UNCHANGED <<pc, op, arg, pred, succ, extra, res>>
  BY <1>1, <1>11
<1> QED BY <1>10, <1>11 DEF Next, CallStep, WorkStep, FreeStep, Free, vars

LEMMA HeldStep == IInv /\ [Next]_vars => Held'
<1> SUFFICES ASSUME IInv, [Next]_vars, NEW t \in Threads
             PROVE  /\ pred'[t] # Null => Safe(t, pred[t])'
                    /\ succ'[t] # Null => Safe(t, succ[t])'
                    /\ op'[t] = "erase" /\ extra'[t] # Null => Safe(t, extra[t])'
  BY DEF Held
<1>1. CASE pc'[t] \in {"idle", "first"}
  BY <1>1, SearchesStep DEF Searches, Searching
<1>2. CASE pc'[t] \notin {"idle", "first"}
  <2>1. ASSUME NEW n, Safe(t, n) PROVE Safe(t, n)'
    BY <1>2, <2>1, PointersStep, KeptByCall
  <2> QED BY <1>2, <2>1, PointersStep DEF Safe
<1> QED BY <1>1, <1>2

LEMMA NewsStep == IInv /\ [Next]_vars => News'
<1> SUFFICES ASSUME IInv, [Next]_vars, NEW t \in Threads, pc'[t] = "insert"
             PROVE  /\ extra'[t] \in Nodes /\ where'[extra'[t]] = "private"
                    /\ key'[extra'[t]] = arg'[t] /\ ~marked'[extra'[t]]
                    /\ nextPtr'[extra'[t]] = succ'[t] /\ prevPtr'[extra'[t]] = pred'[t]
                    /\ \A u \in Threads : pc'[u] = "insert" /\ extra'[u] = extra'[t] => u = t
  BY DEF News
<1> DEFINE Private(u) == /\ extra'[u] \in Nodes /\ where'[extra'[u]] = "private"
                         /\ key'[extra'[u]] = arg'[u] /\ ~marked'[extra'[u]]
                         /\ nextPtr'[extra'[u]] = succ'[u] /\ prevPtr'[extra'[u]] = pred'[u]
<1>0. TypeOK /\ News /\ Guards
  BY DEF IInv
\* The nodes of the inserts that have one and keep it.
<1>1. ASSUME NEW u \in Threads, pc[u] = "insert", pc'[u] = "insert"
      PROVE  Private(u) /\ extra'[u] = extra[u]
  <2>1. /\ extra[u] \in Nodes /\ where[extra[u]] = "private"
        /\ key[extra[u]] = arg[u] /\ ~marked[extra[u]]
        /\ nextPtr[extra[u]] = succ[u] /\ prevPtr[extra[u]] = pred[u]
        /\ extra[u] \in Places /\ extra[u] \notin Linked /\ extra[u] \notin {Head, Tail}
    BY <1>0, <1>1, Distinct DEF News, Linked
  <2>2. ASSUME NEW v \in Threads, Work(v) PROVE v # u
    <3> SUFFICES ASSUME v = u PROVE FALSE
      OBVIOUS
    <3>1. Insert(u)
      BY <1>1, <2>2 DEF Work, ReadFirst, Advance, Contains, InsertFindsKey, EraseFindsNone,
           NewNode, ReadAfter, Erase, EraseWith, Retire, Return, Searched, At
    <3>2. CASE InsertMatches(pred[u], succ[u])
      BY <1>0, <1>1, <3>1, <3>2 DEF Insert, InsertWith, Succeed, Goto, TypeOK
    <3> QED BY <1>0, <1>1, <3>1, <3>2, InsertFails DEF TypeOK
  <2>3. /\ extra'[u] = extra[u] /\ arg'[u] = arg[u] /\ succ'[u] = succ[u] /\ pred'[u] = pred[u]
    <3>1. CASE \E v \in Threads : Call(v) \/ Work(v)
      <4>1. PICK v \in Threads : Call(v) \/ Work(v)
        BY <3>1
      <4>2. v # u
        BY <1>1, <2>2, <4>1 DEF Call, At
      <4> QED BY <1>0, <4>1, <4>2, OtherCalls
    <3>2. CASE UNCHANGED <<pc, op, arg, pred, succ, extra, res>>
      BY <3>2
    <3> QED BY <3>1, <3>2 DEF Next, CallStep, WorkStep, FreeStep, Free, vars
  <2> SUFFICES /\ where'[extra[u]] = where[extra[u]] /\ key'[extra[u]] = key[extra[u]]
               /\ marked'[extra[u]] = marked[extra[u]] /\ nextPtr'[extra[u]] = nextPtr[extra[u]]
               /\ prevPtr'[extra[u]] = prevPtr[extra[u]]
    BY <2>1, <2>3
  <2>4. ASSUME NEW v \in Threads, NewNode(v)
        PROVE  /\ where'[extra[u]] = where[extra[u]] /\ key'[extra[u]] = key[extra[u]]
               /\ marked'[extra[u]] = marked[extra[u]] /\ nextPtr'[extra[u]] = nextPtr[extra[u]]
               /\ prevPtr'[extra[u]] = prevPtr[extra[u]]
    <3>1. PICK n \in Nodes :
             /\ where[n] = "free" /\ where' = [where EXCEPT ![n] = "private"]
             /\ key' = [key EXCEPT ![n] = arg[v]]
             /\ prevPtr' = [prevPtr EXCEPT ![n] = pred[v]]
             /\ nextPtr' = [nextPtr EXCEPT ![n] = succ[v]]
             /\ marked' = [marked EXCEPT ![n] = FALSE]
      BY <1>0, <2>4, NewNodeSteps
    <3> QED BY <1>0, <2>1, <3>1 DEF TypeOK
  <2>5. ASSUME NEW v \in Threads, Insert(v)
        PROVE  /\ where'[extra[u]] = where[extra[u]] /\ key'[extra[u]] = key[extra[u]]
               /\ marked'[extra[u]] = marked[extra[u]] /\ nextPtr'[extra[u]] = nextPtr[extra[u]]
               /\ prevPtr'[extra[u]] = prevPtr[extra[u]]
    <3>1. v # u /\ pc[v] = "insert"
      BY <2>2, <2>5 DEF Work, Insert, InsertWith, At
    <3>2. extra[v] # extra[u]
      BY <1>0, <1>1, <3>1 DEF News
    <3>3. CASE InsertMatches(pred[v], succ[v])
      BY <1>0, <2>1, <2>5, <3>2, <3>3, InsertSucceeds DEF TypeOK
    <3> QED BY <1>0, <2>1, <2>5, <3>2, <3>3, InsertFails DEF TypeOK, fields
  <2>6. ASSUME NEW v \in Threads, Erase(v)
        PROVE  /\ where'[extra[u]] = where[extra[u]] /\ key'[extra[u]] = key[extra[u]]
               /\ marked'[extra[u]] = marked[extra[u]] /\ nextPtr'[extra[u]] = nextPtr[extra[u]]
               /\ prevPtr'[extra[u]] = prevPtr[extra[u]]
    <3>1. CASE EraseMatches(pred[v], succ[v], extra[v])
      BY <1>0, <2>1, <2>6, <3>1, EraseSucceeds DEF TypeOK
    <3> QED BY <2>6, <3>1, EraseFails DEF fields
  <2>7. ASSUME NEW v \in Threads, Retire(v) \/ Return(v)
        PROVE  UNCHANGED fields /\ where'[extra[u]] = where[extra[u]]
    BY <1>0, <2>1, <2>7, RetireSteps, ReturnSteps DEF TypeOK
  <2>8. ASSUME NEW n \in Nodes, Free(n)
        PROVE  UNCHANGED fields /\ where'[extra[u]] = where[extra[u]]
    BY <1>0, <2>1, <2>8, FreeSteps DEF TypeOK
  <2> QED BY <2>4, <2>5, <2>6, <2>7, <2>8, MemoryStep DEF fields, memory
\* A new one.
<1>2. ASSUME NEW u \in Threads, pc[u] # "insert", pc'[u] = "insert"
      PROVE  /\ NewNode(u) /\ Private(u) /\ where[extra'[u]] = "free"
  <2>1. PICK v \in Threads : Call(v) \/ Work(v)
    BY <1>2 DEF Next, CallStep, WorkStep, FreeStep, Free, vars
  <2>2. v = u
    BY <1>0, <1>2, <2>1, OtherCalls
  <2>3. ~Call(u) /\ ~ReadFirst(u) /\ ~Advance(u) /\ ~ReadAfter(u) /\ ~Retire(u) /\ ~Return(u)
    BY <1>0, <1>2 DEF Call, ReadFirst, Advance, ReadAfter, Retire, Return, Goto, TypeOK
  <2>4. ~Contains(u) /\ ~InsertFindsKey(u) /\ ~EraseFindsNone(u)
    BY <1>0, <1>2 DEF Contains, InsertFindsKey, EraseFindsNone, Answer, Goto, TypeOK
  <2>5. ~Insert(u)
    BY <1>2 DEF Insert, InsertWith, At
  <2>6. ~Erase(u)
    <3> SUFFICES ASSUME Erase(u) PROVE FALSE
      OBVIOUS
    <3>1. CASE EraseMatches(pred[u], succ[u], extra[u])
      BY <1>0, <1>2, <3>1 DEF Erase, EraseWith, Succeed, Goto, TypeOK
    <3> QED BY <1>0, <1>2, <3>1, EraseFails DEF TypeOK
  <2>7. NewNode(u)
    BY <2>1, <2>2, <2>3, <2>4, <2>5, <2>6 DEF Work
  <2>8. PICK n \in Nodes :
           /\ where[n] = "free" /\ where' = [where EXCEPT ![n] = "private"]
           /\ extra' = [extra EXCEPT ![u] = n]
           /\ key' = [key EXCEPT ![n] = arg[u]]
           /\ prevPtr' = [prevPtr EXCEPT ![n] = pred[u]]
           /\ nextPtr' = [nextPtr EXCEPT ![n] = succ[u]]
           /\ marked' = [marked EXCEPT ![n] = FALSE]
    BY <1>0, <2>7, NewNodeSteps
  <2>9. arg' = arg /\ pred' = pred /\ succ' = succ
    BY <2>7 DEF NewNode
  <2> QED BY <1>0, <2>7, <2>8, <2>9, Distinct DEF TypeOK
<1>3. Private(t)
  BY <1>1, <1>2
<1>4. ASSUME NEW u \in Threads, pc'[u] = "insert", extra'[u] = extra'[t] PROVE u = t
  <2>1. CASE pc[u] = "insert" /\ pc[t] = "insert"
    BY <1>0, <1>1, <1>4, <2>1 DEF News
  <2>2. CASE pc[u] # "insert" /\ pc[t] # "insert"
    <3>1. NewNode(u) /\ NewNode(t)
      BY <1>2, <1>4, <2>2
    <3> QED BY <1>0, <1>4, <2>2, <3>1, OtherCalls DEF Work
  <2>3. CASE pc[u] = "insert" /\ pc[t] # "insert"
    BY <1>0, <1>1, <1>2, <1>4, <2>3 DEF News
  <2>4. CASE pc[u] # "insert" /\ pc[t] = "insert"
    BY <1>0, <1>1, <1>2, <1>4, <2>4 DEF News
  <2> QED BY <2>1, <2>2, <2>3, <2>4
<1> QED BY <1>3, <1>4

LEMMA RecordStep ==
    ASSUME Next
    PROVE  Record /\ ((\E t \in Threads : Call(t) \/ Work(t)) \/ (\E n \in Nodes : Free(n)))
  BY DEF Next, CallStep, WorkStep, FreeStep

LEMMA ResType ==
    ASSUME TypeOK, [Next]_vars
    PROVE  res' \in [Threads -> {"pending", "true", "false"}]
<1> USE DEF TypeOK
<1>1. CASE res' = res
  BY <1>1
<1>2. ASSUME NEW t \in Threads, Work(t) PROVE res' \in [Threads -> {"pending", "true", "false"}]
  <2>1. CASE ReadFirst(t) \/ Advance(t) \/ NewNode(t) \/ ReadAfter(t) \/ Retire(t) \/ Return(t)
    BY <2>1 DEF ReadFirst, Advance, NewNode, ReadAfter, Retire, Return
  <2>2. CASE Contains(t) \/ InsertFindsKey(t) \/ EraseFindsNone(t)
    <3>1. PICK r \in {"true", "false"} : Answer(t, r)
      BY <2>2 DEF Contains, InsertFindsKey, EraseFindsNone
    <3> QED BY <3>1 DEF Answer
  <2>3. CASE Insert(t) \/ Erase(t)
    BY <2>3 DEF Insert, InsertWith, Erase, EraseWith, Succeed, Retry
  <2> QED BY <1>2, <2>1, <2>2, <2>3 DEF Work
<1> QED BY <1>1, <1>2 DEF Next, CallStep, WorkStep, FreeStep, Call, Free, vars

\* seen collects whether the key of the call is in the list.
LEMMA SeenStep ==
    ASSUME IInv, [Next]_vars, NEW t \in Threads
    PROVE  /\ seen'[t] \in SUBSET BOOLEAN
           /\ pc'[t] # "idle" => (arg'[t] \in Contents') \in seen'[t]
           /\ pc[t] # "idle" /\ pc'[t] # "idle" => seen[t] \subseteq seen'[t]
<1>0. TypeOK /\ Knows
  BY DEF IInv
<1>1. CASE Next
  <2>1. /\ seen' = [u \in Threads |-> Set!Observe(u)]
        /\ Status' = [u \in Threads |-> IF pc'[u] = "idle" THEN "idle" ELSE res'[u]]
        /\ Status = [u \in Threads |-> IF pc[u] = "idle" THEN "idle" ELSE res[u]]
    BY <1>1, RecordStep DEF Record, Status
  <2>2. seen'[t] = IF Status'[t] = "idle" THEN {}
                   ELSE (IF Status[t] = "idle" THEN {} ELSE seen[t]) \cup {arg'[t] \in Contents'}
    BY <2>1 DEF Set!Observe
  <2>3. (Status'[t] = "idle" <=> pc'[t] = "idle") /\ (Status[t] = "idle" <=> pc[t] = "idle")
    BY <1>0, <2>1, ResType DEF TypeOK
  <2>4. (arg'[t] \in Contents') \in BOOLEAN /\ seen[t] \in SUBSET BOOLEAN
    BY <1>0 DEF TypeOK
  <2>5. (arg'[t] \in Contents') \in {arg'[t] \in Contents'}
    OBVIOUS
  <2> QED BY <2>2, <2>3, <2>4, <2>5
<1>2. CASE UNCHANGED vars
  <2>1. Contents' = Contents
    BY <1>2 DEF Contents, Linked, vars, memory, fields
  <2> QED BY <1>0, <1>2, <2>1 DEF Knows, TypeOK, vars
<1> QED BY <1>1, <1>2

LEMMA TypeStep == IInv /\ [Next]_vars => TypeOK'
<1> SUFFICES ASSUME IInv, [Next]_vars PROVE TypeOK'
  OBVIOUS
<1>0. /\ TypeOK /\ Searches /\ Held
      /\ Head \in Places /\ Tail \in Places /\ Null \in Pointers /\ Places \subseteq Pointers
      /\ nextPtr[Head] \in Nodes \cup {Tail}
  BY Distinct DEF IInv, Pointers, WellLinked
<1> DEFINE Memory ==
              /\ key \in [Places -> Keys \cup {-1}] /\ marked \in [Places -> BOOLEAN]
              /\ nextPtr \in [Places -> Pointers] /\ prevPtr \in [Places -> Pointers]
              /\ where \in [Nodes -> {"free", "private", "linked", "erased", "retired"}]
              /\ graced \in [Nodes -> SUBSET Threads] /\ holders \in [Nodes -> SUBSET Threads]
           Calls ==
              /\ pc \in [Threads -> {"idle", "first", "search", "insert", "erase", "retire", "return"}]
              /\ op \in [Threads -> {"none", "insert", "erase", "contains"}]
              /\ arg \in [Threads -> Keys \cup {0}]
              /\ pred \in [Threads -> Nodes \cup {Head, Null}]
              /\ succ \in [Threads -> Nodes \cup {Tail, Null}]
              /\ extra \in [Threads -> Nodes \cup {Tail, Null}]
<1>1. Memory /\ Calls
  BY <1>0 DEF TypeOK
<1>2. ASSUME NEW t \in Threads, Call(t) PROVE Memory' /\ Calls'
  <2>1. PICK o \in {"insert", "erase", "contains"}, k \in Keys :
           op' = [op EXCEPT ![t] = o] /\ arg' = [arg EXCEPT ![t] = k]
    BY <1>2 DEF Call
  <2>2. /\ pc' = [pc EXCEPT ![t] = "first"] /\ UNCHANGED <<memory, pred, succ, extra>>
    BY <1>2 DEF Call, Goto
  <2> QED BY <1>1, <2>1, <2>2 DEF memory, fields
<1>3. ASSUME NEW t \in Threads, ReadFirst(t) PROVE Memory' /\ Calls'
  BY <1>0, <1>1, <1>3 DEF ReadFirst, Goto, memory, fields
<1>4. ASSUME NEW t \in Threads, Advance(t) PROVE Memory' /\ Calls'
  <2>1. succ[t] \in Nodes /\ Safe(t, succ[t])
    BY <1>0, <1>4, Distinct DEF Advance, Found, At, Searches, Searching, Held, TypeOK
  <2>2. nextPtr[succ[t]] \in Nodes \cup {Tail}
    BY <2>1, Follow
  <2> QED BY <1>1, <1>4, <2>1, <2>2 DEF Advance, memory, fields
<1>5. ASSUME NEW t \in Threads, Contains(t) \/ InsertFindsKey(t) \/ EraseFindsNone(t)
      PROVE Memory' /\ Calls'
  <2>1. pc' = [pc EXCEPT ![t] = "return"] /\ UNCHANGED <<memory, op, arg, pred, succ, extra>>
    BY <1>5 DEF Contains, InsertFindsKey, EraseFindsNone, Answer, Goto
  <2> QED BY <1>1, <2>1 DEF memory, fields
<1>6. ASSUME NEW t \in Threads, NewNode(t) PROVE Memory' /\ Calls'
  <2>1. PICK n \in Nodes :
           /\ where' = [where EXCEPT ![n] = "private"]
           /\ extra' = [extra EXCEPT ![t] = n]
           /\ key' = [key EXCEPT ![n] = arg[t]]
           /\ prevPtr' = [prevPtr EXCEPT ![n] = pred[t]]
           /\ nextPtr' = [nextPtr EXCEPT ![n] = succ[t]]
           /\ marked' = [marked EXCEPT ![n] = FALSE]
    BY <1>0, <1>6, NewNodeSteps
  <2>2. arg[t] \in Keys
    BY <1>0, <1>6 DEF NewNode, Searched, At, Searches, Searching
  <2>3. pred[t] \in Pointers /\ succ[t] \in Pointers
    BY <1>1, Distinct DEF Pointers
  <2>4. /\ pc' = [pc EXCEPT ![t] = "insert"]
        /\ UNCHANGED <<graced, holders, op, arg, pred, succ>>
    BY <1>6 DEF NewNode, Goto
  <2> QED BY <1>1, <2>1, <2>2, <2>3, <2>4
<1>7. ASSUME NEW t \in Threads, EndGuard(t), where' \in [Nodes -> {"free", "private", "linked", "erased", "retired"}],
             UNCHANGED fields, Retry(t), UNCHANGED <<op, arg>>
      PROVE  Memory' /\ Calls'
  BY <1>1, <1>7 DEF EndGuard, Retry, Goto, fields
<1>8. ASSUME NEW t \in Threads, Insert(t) PROVE Memory' /\ Calls'
  <2>1. CASE InsertMatches(pred[t], succ[t])
    <3>1. /\ pred[t] \in Places /\ succ[t] \in Places /\ extra[t] \in Nodes
          /\ extra[t] \in Pointers
          /\ nextPtr' = [nextPtr EXCEPT ![pred[t]] = extra[t]]
          /\ prevPtr' = [prevPtr EXCEPT ![succ[t]] = extra[t]]
          /\ where' = [where EXCEPT ![extra[t]] = "linked"]
          /\ UNCHANGED <<key, marked, graced, holders>>
      BY <1>8, <2>1, InsertSucceeds, Distinct DEF Pointers
    <3>2. pc' = [pc EXCEPT ![t] = "return"] /\ UNCHANGED <<op, arg, pred, succ, extra>>
      BY <1>8, <2>1 DEF Insert, InsertWith, Succeed, Goto
    <3> QED BY <1>1, <3>1, <3>2
  <2>2. CASE ~InsertMatches(pred[t], succ[t])
    BY <1>1, <1>7, <1>8, <2>2, InsertFails DEF Insert, InsertWith
  <2> QED BY <2>1, <2>2
<1>9. ASSUME NEW t \in Threads, ReadAfter(t) PROVE Memory' /\ Calls'
  <2>1. succ[t] \in Nodes /\ Safe(t, succ[t])
    BY <1>0, <1>9, Distinct DEF ReadAfter, Searched, Present, At, Searches, Searching, Held, TypeOK
  <2>2. nextPtr[succ[t]] \in Nodes \cup {Tail}
    BY <2>1, Follow
  <2> QED BY <1>1, <1>9, <2>1, <2>2 DEF ReadAfter, Goto, memory, fields
<1>10. ASSUME NEW t \in Threads, Erase(t) PROVE Memory' /\ Calls'
  <2>1. CASE EraseMatches(pred[t], succ[t], extra[t])
    <3>1. /\ pred[t] \in Places /\ succ[t] \in Nodes /\ extra[t] \in Places
          /\ extra[t] \in Pointers /\ pred[t] \in Pointers /\ InGuard \subseteq Threads
          /\ nextPtr' = [nextPtr EXCEPT ![pred[t]] = extra[t]]
          /\ prevPtr' = [prevPtr EXCEPT ![extra[t]] = pred[t]]
          /\ marked' = [marked EXCEPT ![succ[t]] = TRUE]
          /\ where' = [where EXCEPT ![succ[t]] = "erased"]
          /\ holders' = [holders EXCEPT ![succ[t]] = InGuard]
          /\ UNCHANGED <<key, graced>>
      BY <1>10, <2>1, EraseSucceeds, Distinct DEF Pointers, InGuard
    <3>2. /\ pc' = [pc EXCEPT ![t] = IF reclaims THEN "retire" ELSE "return"]
          /\ UNCHANGED <<op, arg, pred, succ, extra>>
      BY <1>10, <2>1 DEF Erase, EraseWith, Succeed, Goto
    <3>3. Calls'
      BY <1>1, <3>2
    <3> QED BY <1>1, <3>1, <3>3
  <2>2. CASE ~EraseMatches(pred[t], succ[t], extra[t])
    BY <1>1, <1>7, <1>10, <2>2, EraseFails DEF Erase, EraseWith
  <2> QED BY <2>1, <2>2
<1>11. ASSUME NEW t \in Threads, Retire(t) PROVE Memory' /\ Calls'
  <2>1. InGuard \subseteq Threads
    BY DEF InGuard
  <2> QED BY <1>1, <1>11, <2>1 DEF Retire, Goto, fields
<1>12. ASSUME NEW t \in Threads, Return(t) PROVE Memory' /\ Calls'
  BY <1>1, <1>12 DEF Return, Goto, EndGuard, fields
<1>13. ASSUME NEW n \in Nodes, Free(n) PROVE Memory' /\ Calls'
  BY <1>1, <1>13 DEF Free, fields
<1>14. ASSUME UNCHANGED vars PROVE Memory' /\ Calls'
  BY <1>1, <1>14 DEF vars, memory, fields
<1>15. Memory' /\ Calls'
  BY <1>2, <1>3, <1>4, <1>5, <1>6, <1>8, <1>9, <1>10, <1>11, <1>12, <1>13, <1>14, RecordStep DEF Work
<1>16. seen' \in [Threads -> SUBSET BOOLEAN]
  <2>1. CASE Next
    <3>1. seen' = [t \in Threads |-> Set!Observe(t)]
      BY <2>1, RecordStep DEF Record
    <3> QED BY <3>1, SeenStep
  <2>2. CASE UNCHANGED vars
    BY <1>0, <2>2 DEF TypeOK, vars
  <2> QED BY <2>1, <2>2
<1>17. \A t \in Threads : pc'[t] = "search" => succ'[t] # Null
  BY SearchesStep DEF Searches, Searching
<1>18. reclaims' \in BOOLEAN
  BY <1>0, RecordStep DEF TypeOK, Record, vars
<1> QED BY <1>0, <1>15, <1>16, <1>17, <1>18, ResType DEF TypeOK, At

\* A key that is passed at a node of the list is not in the list.
LEMMA PassesLinked ==
    ASSUME IInv, NEW n \in Linked \cup {Head}, NEW k \in Keys, Passes(n, k)
    PROVE  k \notin Contents
<1> SUFFICES ASSUME NEW m \in Linked, k = key[m] PROVE FALSE
  BY DEF Contents
<1>1. TypeOK /\ Ordered /\ WellLinked /\ n \in Places /\ m \in Places
  BY Distinct DEF IInv
<1>2. nextPtr[n] # Tail /\ key[nextPtr[n]] <= key[m] /\ nextPtr[n] \in Linked
  BY <1>1 DEF Ordered, WellLinked, Passes
<1> QED BY <1>1, <1>2, KeyType, Distinct DEF Passes

\* The answers, in terms of truth values.
LEMMA Truth ==
    /\ \A S, k, C : (k \in C) \in S /\ k \in C => TRUE \in S
    /\ \A S, k, C : (k \in C) \in S /\ k \notin C => FALSE \in S
<1>1. ASSUME NEW S, NEW k, NEW C, (k \in C) \in S, k \in C PROVE TRUE \in S
  <2>1. (k \in C) = TRUE
    BY <1>1
  <2> QED BY <1>1, <2>1
<1>2. ASSUME NEW S, NEW k, NEW C, (k \in C) \in S, k \notin C PROVE FALSE \in S
  <2>1. (k \in C) = FALSE
    BY <1>2
  <2> QED BY <1>2, <2>1
<1> QED BY <1>1, <1>2

\* What a call knows of the nodes it can reach.
LEMMA Known ==
    ASSUME IInv, NEW t \in Threads, pc[t] # "idle", NEW n \in Nodes \cup {Head}, Safe(t, n)
    PROVE  /\ key[n] = arg[t] /\ n # Head => TRUE \in seen[t]
           /\ Passes(n, arg[t]) => FALSE \in seen[t]
<1>1. /\ (arg[t] \in Contents) \in seen[t] /\ arg[t] \in Keys
      /\ n \in Nodes /\ t \in holders[n] =>
            (key[n] = arg[t] => TRUE \in seen[t]) /\ (Passes(n, arg[t]) => FALSE \in seen[t])
  BY DEF IInv, Knows, Searches, Searching
<1>2. CASE n \in Linked \cup {Head}
  <2>1. key[n] = arg[t] /\ n # Head => arg[t] \in Contents
    BY <1>2 DEF Contents
  <2>2. Passes(n, arg[t]) => arg[t] \notin Contents
    BY <1>1, <1>2, PassesLinked
  <2> QED BY <1>1, <2>1, <2>2, Truth
<1> QED BY <1>1, <1>2, Distinct DEF Safe

LEMMA CallStaysStep ==
    ASSUME TypeOK, [Next]_vars, NEW t \in Threads, pc[t] # "idle", pc'[t] # "idle"
    PROVE  arg'[t] = arg[t] /\ op'[t] = op[t]
<1>1. ASSUME Call(t) \/ Return(t) PROVE FALSE
  BY <1>1 DEF Call, Return, At, Goto, TypeOK
<1>2. ASSUME Work(t), ~Return(t) PROVE arg' = arg /\ op' = op
  BY <1>2 DEF Work, ReadFirst, Advance, Contains, InsertFindsKey, EraseFindsNone, NewNode, Insert,
       InsertWith, ReadAfter, Erase, EraseWith, Retire, Answer
<1>3. ASSUME NEW u \in Threads, Call(u) \/ Work(u) PROVE arg'[t] = arg[t] /\ op'[t] = op[t]
  <2>1. CASE u = t
    BY <1>1, <1>2, <1>3, <2>1
  <2>2. CASE u # t
    BY <1>3, <2>2, OtherCalls
  <2> QED BY <2>1, <2>2
<1> QED BY <1>3, RecordStep DEF Free, vars

\* If the key is not at the node that the search has reached, it was absent on the way there.
LEMMA PassedStep ==
    ASSUME IInv, [Next]_vars, NEW t \in Threads, pc'[t] \in {"search", "insert"},
           succ'[t] = Tail \/ arg'[t] < key'[succ'[t]]
    PROVE  FALSE \in seen[t] /\ pc[t] # "idle"
<1>0. TypeOK /\ Knows /\ Searching(t) /\ Held
  BY DEF IInv, Searches
<1>1. pc[t] # "idle" /\ arg'[t] = arg[t]
  BY <1>0, PointersStep, CallStaysStep
<1>2. ASSUME pc[t] \in {"search", "insert"}, succ'[t] = succ[t]
      PROVE  FALSE \in seen[t]
  <2>1. Safe(t, succ[t])
    BY <1>0, <1>2 DEF Searching, Held
  <2>2. key'[succ[t]] = key[succ[t]]
    BY <1>1, <2>1, KeptByCall
  <2> QED BY <1>0, <1>1, <1>2, <2>2 DEF Knows
<1>3. ASSUME NEW n \in Nodes \cup {Head}, Safe(t, n), key[n] < arg[t],
             succ'[t] = nextPtr[n], key' = key
      PROVE  FALSE \in seen[t]
  BY <1>1, <1>3, Known DEF Passes
<1>4. ASSUME ReadFirst(t) PROVE FALSE \in seen[t]
  <2>1. /\ pc[t] = "first" /\ key' = key /\ succ' = [succ EXCEPT ![t] = nextPtr[Head]]
    BY <1>4 DEF ReadFirst, At, memory, fields
  <2>2. key[Head] < arg[t]
    BY <1>0, <2>1, KeyType DEF Searching, IInv, Sentinels
  <2> QED BY <1>0, <1>3, <2>1, <2>2 DEF Safe, TypeOK
<1>5. ASSUME Advance(t) PROVE FALSE \in seen[t]
  <2>1. /\ pc[t] = "search" /\ ~Found(t) /\ key' = key
        /\ succ' = [succ EXCEPT ![t] = nextPtr[succ[t]]]
    BY <1>5 DEF Advance, At, memory, fields
  <2>2. succ[t] \in Nodes /\ Safe(t, succ[t]) /\ arg[t] \in Keys
    BY <1>0, <2>1, Distinct DEF Found, TypeOK, Searching, Held
  <2>3. key[succ[t]] < arg[t]
    BY <1>0, <2>1, <2>2, KeyType, Distinct DEF Found
  <2> QED BY <1>0, <1>3, <2>1, <2>2, <2>3 DEF TypeOK
<1>6. ASSUME NewNode(t) PROVE FALSE \in seen[t]
  BY <1>2, <1>6 DEF NewNode, Searched, At
<1>7. ASSUME ~ReadFirst(t), ~Advance(t), ~NewNode(t), Call(t) \/ Work(t) PROVE FALSE
  <2>1. ~Contains(t) /\ ~InsertFindsKey(t) /\ ~EraseFindsNone(t)
    BY <1>0 DEF Contains, InsertFindsKey, EraseFindsNone, Answer, Goto, TypeOK
  <2>2. ~Call(t) /\ ~ReadAfter(t) /\ ~Retire(t) /\ ~Return(t)
    BY <1>0 DEF Call, ReadAfter, Retire, Return, Goto, TypeOK
  <2>3. ~Insert(t)
    BY <1>0, InsertFails DEF Insert, InsertWith, Succeed, Goto, TypeOK
  <2>4. ~Erase(t)
    <3> SUFFICES ASSUME Erase(t) PROVE FALSE
      OBVIOUS
    <3>1. CASE EraseMatches(pred[t], succ[t], extra[t])
      <4>1. pc'[t] = IF reclaims THEN "retire" ELSE "return"
        BY <1>0, <3>1 DEF Erase, EraseWith, Succeed, Goto, TypeOK
      <4> QED BY <4>1
    <3> QED BY <1>0, <3>1, EraseFails DEF TypeOK
  <2> QED BY <1>7, <2>1, <2>2, <2>3, <2>4 DEF Work
<1>8. ASSUME pc'[t] = pc[t], succ'[t] = succ[t] PROVE FALSE \in seen[t]
  BY <1>2, <1>8
<1>9. ASSUME NEW u \in Threads, Call(u) \/ Work(u) PROVE FALSE \in seen[t]
  <2>1. CASE u = t
    BY <1>4, <1>5, <1>6, <1>7, <1>9, <2>1
  <2>2. CASE u # t
    BY <1>0, <1>8, <1>9, <2>2, OtherCalls
  <2> QED BY <2>1, <2>2
<1> QED BY <1>1, <1>8, <1>9, RecordStep DEF Free, vars

LEMMA KnowsStep == IInv /\ [Next]_vars => Knows'
<1> SUFFICES ASSUME IInv, [Next]_vars, NEW t \in Threads, pc'[t] # "idle"
             PROVE  /\ (arg'[t] \in Contents') \in seen'[t]
                    /\ \A n \in Nodes : t \in holders'[n] =>
                          /\ key'[n] = arg'[t] => TRUE \in seen'[t]
                          /\ Passes(n, arg[t])' => FALSE \in seen'[t]
                    /\ /\ pc'[t] \in {"search", "insert"}
                       /\ succ'[t] = Tail \/ arg'[t] < key'[succ'[t]]
                       => FALSE \in seen'[t]
  BY DEF Knows
<1>1. (arg'[t] \in Contents') \in seen'[t]
  BY SeenStep
<1>2. ASSUME NEW n \in Nodes, t \in holders'[n]
      PROVE  /\ key'[n] = arg'[t] => TRUE \in seen'[t]
             /\ Passes(n, arg[t])' => FALSE \in seen'[t]
  <2>1. /\ t \in InGuard /\ Safe(t, n)
        /\ nextPtr'[n] = nextPtr[n] /\ key'[n] = key[n]
        /\ \A m \in Nodes : t \in holders[m] => t \in holders'[m]
    BY <1>2, FrozenStep DEF Safe
  <2>2. Safe(t, nextPtr[n])
    BY <2>1, Follow
  <2>3. key'[nextPtr[n]] = key[nextPtr[n]]
    BY <2>1, <2>2, KeptStep
  <2>4. pc[t] # "idle" /\ arg'[t] = arg[t] /\ seen[t] \subseteq seen'[t]
    BY <2>1, CallStaysStep, SeenStep DEF InGuard, IInv
  <2>5. /\ key[n] = arg[t] => TRUE \in seen[t]
        /\ Passes(n, arg[t]) => FALSE \in seen[t]
    BY <2>1, <2>4, Known, Distinct
  <2> QED BY <2>1, <2>3, <2>4, <2>5 DEF Passes
<1>3. ASSUME pc'[t] \in {"search", "insert"}, succ'[t] = Tail \/ arg'[t] < key'[succ'[t]]
      PROVE  FALSE \in seen'[t]
  BY <1>3, PassedStep, SeenStep
<1> QED BY <1>1, <1>2, <1>3

-----------------------------------------------------------------------------
\* The invariant.

LEMMA InitInvariant == Init => IInv
<1> SUFFICES ASSUME Init PROVE IInv
  OBVIOUS
<1>1. /\ Linked = {} /\ Contents = {}
      /\ nextPtr[Head] = Tail /\ prevPtr[Tail] = Head /\ key[Head] = -1
      /\ ~marked[Head] /\ ~marked[Tail]
  BY Distinct DEF Init, Linked, Contents
<1>2. TypeOK
  BY Distinct DEF Init, TypeOK, Pointers, At
<1>3. WellLinked /\ Ordered /\ Sentinels
  BY <1>1, Distinct DEF WellLinked, Ordered, Sentinels
<1>4. Guards /\ Paths /\ Held /\ Searches /\ News /\ Knows
  BY DEF Init, Guards, Paths, Held, Searches, Searching, News, Knows
<1> QED BY <1>2, <1>3, <1>4 DEF IInv

LEMMA Invariance == Spec => []IInv
<1>1. IInv /\ [Next]_vars => IInv'
  BY TypeStep, WellLinkedStep, OrderedStep, SentinelsStep, GuardsStep, PathsStep, HeldStep,
     SearchesStep, NewsStep, KnowsStep DEF IInv
<1> QED BY InitInvariant, <1>1, PTL DEF Spec

\* The variables keep their types: in particular, no search runs off the end of the list
\* (doubly_linked_list_kcas.h:221-231).
THEOREM TypeCorrect == Spec => []TypeOK
  BY Invariance, PTL DEF IInv

\* Whatever inserts and erases overlap, the list is one sorted chain, the same in both
\* directions, of unmarked nodes (doubly_linked_list_kcas.h:122-126, 162-169).
THEOREM ListIsWellLinked == Spec => []WellLinked
  BY Invariance, PTL DEF IInv

\* As long as the reclaimer waits for the guards that are older than a node's retirement, no
\* call meets a node that has been freed (doubly_linked_list_kcas_reclaim.h:106, 147, 177).
THEOREM PointersAreSafe == Spec => []NoDanglingPointer
<1>1. IInv => NoDanglingPointer
  <2> SUFFICES ASSUME IInv, NEW t \in Threads, NEW n \in Nodes, Safe(t, n)
               PROVE  where[n] \notin {"free", "private"}
    BY Distinct DEF NoDanglingPointer, IInv, Held
  <2> QED BY Distinct DEF Safe, IInv, Guards, Linked
<1> QED BY Invariance, <1>1, PTL

\* The next pointer and the mark of an erased node do not change until it is freed, so that a
\* thread that stands on it finds its way (doubly_linked_list_kcas.h:123, 163-168, 227).
THEOREM ErasedNodesAreFrozen == Spec => ErasedIsFrozen
<1> DEFINE Frozen == \A n \in Nodes :
                        where[n] \in {"erased", "retired"} => nextPtr'[n] = nextPtr[n] /\ marked'[n]
<1>1. IInv /\ [Next]_vars => [Frozen]_vars
  <2> SUFFICES ASSUME IInv, [Next]_vars, NEW n \in Nodes, where[n] \in {"erased", "retired"}
               PROVE  nextPtr'[n] = nextPtr[n] /\ marked'[n]
    OBVIOUS
  <2>0. TypeOK /\ marked[n] /\ n \notin Linked \cup {Head, Tail} /\ n \in Places
    BY Distinct DEF IInv, Guards, Linked
  <2>1. CASE UNCHANGED fields
    BY <2>0, <2>1 DEF fields
  <2>2. ASSUME NEW t \in Threads, NewNode(t) PROVE nextPtr'[n] = nextPtr[n] /\ marked'[n]
    <3>1. PICK m \in Nodes :
             /\ where[m] = "free" /\ nextPtr' = [nextPtr EXCEPT ![m] = succ[t]]
             /\ marked' = [marked EXCEPT ![m] = FALSE]
      BY <2>0, <2>2, NewNodeSteps
    <3> QED BY <2>0, <3>1 DEF TypeOK
  <2>3. ASSUME NEW t \in Threads, Insert(t) PROVE nextPtr'[n] = nextPtr[n] /\ marked'[n]
    <3>1. CASE InsertMatches(pred[t], succ[t])
      BY <2>0, <2>3, <3>1, InsertSucceeds DEF TypeOK
    <3> QED BY <2>1, <2>3, <3>1, InsertFails
  <2>4. ASSUME NEW t \in Threads, Erase(t) PROVE nextPtr'[n] = nextPtr[n] /\ marked'[n]
    <3>1. CASE EraseMatches(pred[t], succ[t], extra[t])
      BY <2>0, <2>4, <3>1, EraseSucceeds DEF TypeOK
    <3> QED BY <2>1, <2>4, <3>1, EraseFails
  <2> QED BY <2>1, <2>2, <2>3, <2>4, MemoryStep, RetireSteps, ReturnSteps, FreeSteps DEF memory
<1> QED BY Invariance, <1>1, PTL DEF Spec, ErasedIsFrozen

-----------------------------------------------------------------------------
\* The lists implement the set.

LEMMA SameContents ==
    ASSUME Linked' = Linked, \A n \in Linked : key'[n] = key[n]
    PROVE  Contents' = Contents
  BY DEF Contents

LEMMA InsertAdds ==
    ASSUME IInv, NEW t \in Threads, Insert(t), InsertMatches(pred[t], succ[t])
    PROVE  arg[t] \notin Contents /\ Contents' = Contents \cup {arg[t]}
<1>1. /\ pred[t] \in Linked \cup {Head} /\ nextPtr[pred[t]] = succ[t]
      /\ key[pred[t]] < arg[t] /\ (succ[t] # Tail => arg[t] < key[succ[t]])
      /\ arg[t] \in Keys /\ key[extra[t]] = arg[t]
      /\ Linked' = Linked \cup {extra[t]} /\ key' = key
  BY InsertSucceeds
<1>2. arg[t] \notin Contents
  BY <1>1, PassesLinked DEF Passes
<1>3. Contents' = Contents \cup {arg[t]}
  BY <1>1 DEF Contents
<1> QED BY <1>2, <1>3

LEMMA EraseRemoves ==
    ASSUME IInv, NEW t \in Threads, Erase(t), EraseMatches(pred[t], succ[t], extra[t])
    PROVE  arg[t] \in Contents /\ Contents' = Contents \ {arg[t]}
<1>1. /\ succ[t] \in Linked /\ key[succ[t]] = arg[t]
      /\ Linked' = Linked \ {succ[t]} /\ key' = key
  BY EraseSucceeds
<1>2. \A n \in Linked : n # succ[t] => key[n] # key[succ[t]]
  BY <1>1 DEF IInv, Ordered
<1>3. Contents' = {key[n] : n \in Linked \ {succ[t]}}
  BY <1>1 DEF Contents
<1> QED BY <1>1, <1>2, <1>3 DEF Contents

\* Status, seen from one thread.
LEMMA StatusIs ==
    /\ Status = [t \in Threads |-> IF pc[t] = "idle" THEN "idle" ELSE res[t]]
    /\ Status' = [t \in Threads |-> IF pc'[t] = "idle" THEN "idle" ELSE res'[t]]
  BY DEF Status

LEMMA StatusStays ==
    ASSUME TypeOK, NEW t \in Threads, NEW label, label # "idle", pc[t] # "idle",
           pc' = [pc EXCEPT ![t] = label], res' = res
    PROVE  Status' = Status
  BY StatusIs DEF TypeOK

LEMMA StatusAnswers ==
    ASSUME TypeOK, NEW t \in Threads, NEW label, label # "idle", pc[t] # "idle",
           pc' = [pc EXCEPT ![t] = label], NEW r, res' = [res EXCEPT ![t] = r]
    PROVE  Status' = [Status EXCEPT ![t] = r] /\ Status[t] = res[t]
  BY StatusIs DEF TypeOK

LEMMA RefinementStep == IInv /\ [Next]_vars => [Set!Next]_(Set!objVars)
<1> SUFFICES ASSUME IInv, [Next]_vars PROVE [Set!Next]_(Set!objVars)
  OBVIOUS
<1>0. TypeOK /\ Searches /\ Held /\ Knows
  BY DEF IInv
<1> DEFINE Move == \/ \E t \in Threads : Set!Invoke(t) \/ Set!Add(t) \/ Set!Remove(t)
                                           \/ Set!Decline(t) \/ Set!Confirm(t) \/ Set!Return(t)
                   \/ UNCHANGED <<Contents, op, arg, Status>>
<1>1. ASSUME NEW t \in Threads, Call(t) PROVE Set!Invoke(t)
  <2>1. PICK o \in {"insert", "erase", "contains"}, k \in Keys :
           op' = [op EXCEPT ![t] = o] /\ arg' = [arg EXCEPT ![t] = k]
    BY <1>1 DEF Call
  <2>2. /\ pc[t] = "idle" /\ pc' = [pc EXCEPT ![t] = "first"] /\ res' = res /\ UNCHANGED memory
    BY <1>1 DEF Call, At, Goto
  <2>3. res[t] = "pending"
    BY <1>0, <2>2 DEF Searches, Searching
  <2>4. Status[t] = "idle" /\ Status' = [Status EXCEPT ![t] = "pending"]
    BY <1>0, <2>2, <2>3, StatusIs DEF TypeOK
  <2>5. Contents' = Contents
    BY <2>2, SameContents DEF memory, fields, Linked
  <2> QED BY <2>1, <2>4, <2>5 DEF Set!Invoke, Set!Ops
<1>2. ASSUME NEW t \in Threads, ReadFirst(t) \/ Advance(t) \/ ReadAfter(t)
      PROVE  UNCHANGED <<Contents, op, arg, Status>>
  <2>1. UNCHANGED <<memory, op, arg, res>>
    BY <1>2 DEF ReadFirst, Advance, ReadAfter
  <2>2. Contents' = Contents
    BY <2>1, SameContents DEF memory, fields, Linked
  <2>3. Status' = Status
    <3>1. CASE Advance(t)
      BY <3>1, StatusIs DEF Advance
    <3>2. CASE ReadFirst(t)
      BY <1>0, <3>2, StatusStays DEF ReadFirst, At, Goto
    <3>3. CASE ReadAfter(t)
      BY <1>0, <3>3, StatusStays DEF ReadAfter, Searched, At, Goto
    <3> QED BY <1>2, <3>1, <3>2, <3>3
  <2> QED BY <2>1, <2>2, <2>3
<1>3. ASSUME NEW t \in Threads, NewNode(t) PROVE UNCHANGED <<Contents, op, arg, Status>>
  <2>1. PICK n \in Nodes : key' = [key EXCEPT ![n] = arg[t]] /\ Linked' = Linked /\ n \notin Linked
    BY <1>0, <1>3, NewNodeSteps
  <2>2. Contents' = Contents
    BY <1>0, <2>1, SameContents, Distinct DEF TypeOK
  <2>3. op' = op /\ arg' = arg /\ Status' = Status
    BY <1>0, <1>3, StatusStays DEF NewNode, Searched, At, Goto
  <2> QED BY <2>2, <2>3
<1>4. ASSUME NEW t \in Threads, Contains(t) \/ InsertFindsKey(t) \/ EraseFindsNone(t)
      PROVE  Set!Confirm(t) \/ Set!Decline(t)
  <2>1. PICK r \in {"true", "false"} :
           /\ pc[t] = "search" /\ Found(t)
           /\ pc' = [pc EXCEPT ![t] = "return"] /\ res' = [res EXCEPT ![t] = r]
           /\ UNCHANGED <<memory, op, arg>>
           /\ \/ op[t] = "contains" /\ (r = "true" <=> Present(t))
              \/ op[t] = "insert" /\ r = "false" /\ Present(t)
              \/ op[t] = "erase" /\ r = "false" /\ ~Present(t)
    <3>1. CASE Contains(t)
      <4>1. CASE Present(t)
        BY <3>1, <4>1 DEF Contains, Searched, Answer, At, Goto
      <4>2. CASE ~Present(t)
        BY <3>1, <4>2 DEF Contains, Searched, Answer, At, Goto
      <4> QED BY <4>1, <4>2
    <3>2. CASE InsertFindsKey(t)
      BY <3>2 DEF InsertFindsKey, Searched, Answer, At, Goto
    <3>3. CASE EraseFindsNone(t)
      BY <3>3 DEF EraseFindsNone, Searched, Answer, At, Goto
    <3> QED BY <1>4, <3>1, <3>2, <3>3
  <2>2. Contents' = Contents
    BY <2>1, SameContents DEF memory, fields, Linked
  <2>3. Status[t] = "pending" /\ Status' = [Status EXCEPT ![t] = r]
    <3>1. res[t] = "pending"
      BY <1>0, <2>1 DEF Searches, Searching
    <3> QED BY <1>0, <2>1, <3>1, StatusAnswers
  <2>4. succ[t] \in Nodes \cup {Tail} /\ Safe(t, succ[t]) /\ arg[t] \in Keys
    BY <1>0, <2>1, Distinct DEF TypeOK, Searches, Searching, Held
  <2>5. Present(t) => TRUE \in seen[t]
    BY <2>1, <2>4, Known, Distinct DEF Present
  <2>6. ~Present(t) => FALSE \in seen[t]
    <3>1. ~Present(t) => succ[t] = Tail \/ arg[t] < key[succ[t]]
      BY <1>0, <2>1, <2>4, KeyType, Distinct DEF Found, Present
    <3> QED BY <1>0, <2>1, <3>1 DEF Knows
  <2> QED BY <2>1, <2>2, <2>3, <2>5, <2>6 DEF Set!Confirm, Set!Decline
<1>5. ASSUME NEW t \in Threads, Insert(t)
      PROVE  Set!Add(t) \/ UNCHANGED <<Contents, op, arg, Status>>
  <2>1. CASE InsertMatches(pred[t], succ[t])
    <3>1. /\ pc[t] = "insert" /\ pc' = [pc EXCEPT ![t] = "return"]
          /\ res' = [res EXCEPT ![t] = "true"] /\ op' = op /\ arg' = arg
      BY <1>5, <2>1 DEF Insert, InsertWith, Succeed, Goto, At
    <3>2. op[t] = "insert" /\ res[t] = "pending"
      BY <1>0, <3>1 DEF Searches, Searching
    <3>3. Status[t] = "pending" /\ Status' = [Status EXCEPT ![t] = "true"]
      BY <1>0, <3>1, <3>2, StatusAnswers
    <3> QED BY <1>5, <2>1, <3>1, <3>2, <3>3, InsertAdds DEF Set!Add
  <2>2. CASE ~InsertMatches(pred[t], succ[t])
    <3>1. /\ pc[t] = "insert" /\ pc' = [pc EXCEPT ![t] = "first"]
          /\ res' = res /\ op' = op /\ arg' = arg
      BY <1>5, <2>2 DEF Insert, InsertWith, Retry, Goto, At
    <3>2. Contents' = Contents
      BY <1>5, <2>2, InsertFails, SameContents DEF fields
    <3> QED BY <1>0, <3>1, <3>2, StatusStays
  <2> QED BY <2>1, <2>2
<1>6. ASSUME NEW t \in Threads, Erase(t)
      PROVE  Set!Remove(t) \/ UNCHANGED <<Contents, op, arg, Status>>
  <2>1. CASE EraseMatches(pred[t], succ[t], extra[t])
    <3>1. /\ pc[t] = "erase" /\ pc' = [pc EXCEPT ![t] = IF reclaims THEN "retire" ELSE "return"]
          /\ res' = [res EXCEPT ![t] = "true"] /\ op' = op /\ arg' = arg
      BY <1>6, <2>1 DEF Erase, EraseWith, Succeed, Goto, At
    <3>2. op[t] = "erase" /\ res[t] = "pending" /\ (IF reclaims THEN "retire" ELSE "return") # "idle"
      BY <1>0, <3>1 DEF Searches, Searching
    <3>3. Status[t] = "pending" /\ Status' = [Status EXCEPT ![t] = "true"]
      BY <1>0, <3>1, <3>2, StatusAnswers
    <3> QED BY <1>6, <2>1, <3>1, <3>2, <3>3, EraseRemoves DEF Set!Remove
  <2>2. CASE ~EraseMatches(pred[t], succ[t], extra[t])
    <3>1. /\ pc[t] = "erase" /\ pc' = [pc EXCEPT ![t] = "first"]
          /\ res' = res /\ op' = op /\ arg' = arg
      BY <1>6, <2>2 DEF Erase, EraseWith, Retry, Goto, At
    <3>2. Contents' = Contents
      BY <1>6, <2>2, EraseFails, SameContents DEF fields, Linked
    <3> QED BY <1>0, <3>1, <3>2, StatusStays
  <2> QED BY <2>1, <2>2
<1>7. ASSUME NEW t \in Threads, Retire(t) PROVE UNCHANGED <<Contents, op, arg, Status>>
  <2>1. Contents' = Contents
    BY <1>7, RetireSteps, SameContents DEF fields
  <2> QED BY <1>0, <1>7, <2>1, StatusStays DEF Retire, At, Goto
<1>8. ASSUME NEW t \in Threads, Return(t) PROVE Set!Return(t)
  <2>1. /\ pc[t] = "return" /\ pc' = [pc EXCEPT ![t] = "idle"]
        /\ op' = [op EXCEPT ![t] = "none"] /\ arg' = [arg EXCEPT ![t] = 0]
        /\ res' = [res EXCEPT ![t] = "pending"]
    BY <1>8 DEF Return, At, Goto
  <2>2. res[t] \in {"true", "false"}
    BY <1>0, <2>1 DEF Searches, Searching, TypeOK
  <2>3. Status[t] \in {"true", "false"} /\ Status' = [Status EXCEPT ![t] = "idle"]
    BY <1>0, <2>1, <2>2, StatusIs DEF TypeOK
  <2>4. Contents' = Contents
    BY <1>8, ReturnSteps, SameContents DEF fields
  <2> QED BY <2>1, <2>3, <2>4 DEF Set!Return, Set!Answered
<1>9. ASSUME NEW n \in Nodes, Free(n) PROVE UNCHANGED <<Contents, op, arg, Status>>
  BY <1>9, FreeSteps, SameContents, StatusIs DEF fields
<1>10. CASE Next
  <2>1. Move
    BY <1>1, <1>2, <1>3, <1>4, <1>5, <1>6, <1>7, <1>8, <1>9, <1>10, RecordStep DEF Work
  <2>2. seen' = [t \in Threads |-> Set!Observe(t)]
    BY <1>10, RecordStep DEF Record
  <2> QED BY <2>1, <2>2 DEF Set!Next
<1>11. CASE UNCHANGED vars
  BY <1>11, SameContents, StatusIs DEF vars, memory, fields, Linked, Set!objVars
<1> QED BY <1>10, <1>11

\* Every call takes effect, or is right about what it reports, at an instant between call and
\* return: both lists are linearizable sets, for every number of threads, keys and nodes
\* (doubly_linked_list_kcas.h:82-180, doubly_linked_list_kcas_reclaim.h:91-183).
THEOREM ListsAreLinearizable == Spec => Linearizable
<1>1. Init => Set!Init
  BY DEF Init, Set!Init, Contents, Linked, Status
<1> QED BY Invariance, <1>1, RefinementStep, PTL DEF Spec, Linearizable, Set!Spec
=============================================================================
