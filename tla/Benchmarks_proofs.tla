--------------------------- MODULE Benchmarks_proofs ---------------------------
(***************************************************************************)
(* The structures of a7, for any number of threads and keys.  The hash     *)
(* table that grows, with any hash function and any sizes: its counters    *)
(* agree with its contents, however the keys come to lie in a new array,   *)
(* its loops end, its calls are linearizable.  The two search trees:       *)
(* nobody meets a deleted node and none that is linked is lost, though     *)
(* transactions come between the steps of the thread that holds the lock;  *)
(* the calls on tree.h are linearizable.                                   *)
(***************************************************************************)
EXTENDS Benchmarks, FiniteSetTheorems, FunctionTheorems, TLAPS

-----------------------------------------------------------------------------
\* Keys, slots and probes.
Counted == Nat \ {0}
Slots(cap) == 0 .. cap - 1

LEMMA KeyFacts ==
    /\ \A k \in Keys : k \in Counted /\ k # EMPTY /\ k # TOMBSTONE
    /\ EMPTY = 0 /\ TOMBSTONE = -1 /\ EMPTY # TOMBSTONE
    /\ Full \in Counted /\ Hash \in [Keys -> Nat]
    /\ IsFiniteSet(Keys)
  <1>1. MinKey \in Counted /\ MaxKey \in Nat
    BY DrawnKeys DEF Counted
  <1>2. IsFiniteSet(MinKey .. MaxKey)
    BY <1>1, FS_Interval DEF Counted
  <1> QED BY <1>1, <1>2, ElidedTableAssumption DEF Keys, Counted, EMPTY, TOMBSTONE

LEMMA Remainder ==
    ASSUME NEW cap \in Counted, NEW q \in Int, NEW r \in Slots(cap)
    PROVE  (cap * q + r) % cap = r
  BY DEF Counted, Slots

LEMMA IndexType ==
    ASSUME NEW k \in Keys, NEW j \in Nat, NEW cap \in Counted
    PROVE  Index(k, j, cap) \in Slots(cap)
  <1>1. Hash[k] + j \in Nat
    BY KeyFacts
  <1> QED BY <1>1 DEF Index, Slots, Counted

\* A probe of cap slots comes to each of them.
LEMMA EverySlotIsProbed ==
    ASSUME NEW k \in Keys, NEW cap \in Counted, NEW s \in Slots(cap)
    PROVE  \E j \in Slots(cap) : Index(k, j, cap) = s
  <1> DEFINE h == Hash[k]
             q == h \div cap
             r == h % cap
  <1>1. h \in Nat
    BY KeyFacts
  <1>2. q \in Int /\ r \in Slots(cap) /\ h = cap * q + r
    BY <1>1 DEF Slots, Counted
  <1> HIDE DEF h, q, r
  <1>3. CASE s >= r
    <2>1. s - r \in Slots(cap) /\ h + (s - r) = cap * q + s
      BY <1>1, <1>2, <1>3 DEF Slots, Counted
    <2>2. (h + (s - r)) % cap = s
      BY <1>2, <2>1, Remainder
    <2> QED BY <2>1, <2>2 DEF Index, h
  <1>4. CASE s < r
    <2>1. s - r + cap \in Slots(cap) /\ h + (s - r + cap) = cap * q + cap + s
      BY <1>1, <1>2, <1>4 DEF Slots, Counted
    <2>2. cap * (q + 1) = cap * q + cap
      BY <1>2 DEF Counted
    <2>3. (h + (s - r + cap)) % cap = s
      <3>1. q + 1 \in Int /\ h + (s - r + cap) = cap * (q + 1) + s
        BY <1>2, <2>1, <2>2
      <3> QED BY <3>1, Remainder
    <2> QED BY <2>1, <2>3 DEF Index, h
  <1> QED BY <1>2, <1>3, <1>4 DEF Slots, Counted

-----------------------------------------------------------------------------
\* The counters.
Subcounts == [Threads -> 0 .. Full - 1]

LEMMA UnitsOf ==
    ASSUME NEW sub \in Subcounts
    PROVE  /\ IsFiniteSet(Unflushed(sub)) /\ Cardinality(Unflushed(sub)) \in Nat
           /\ Cardinality(Unflushed(sub)) <= Cardinality(Threads) * (Full - 1)
           /\ Cardinality(Threads) \in Nat /\ Cardinality(Threads) * (Full - 1) \in Nat
  <1>1. IsFiniteSet(1 .. Full - 1) /\ Cardinality(1 .. Full - 1) = Full - 1
    BY KeyFacts, FS_Interval DEF Counted
  <1>2. IsFiniteSet(Threads)
    BY BenchmarkThreads
  <1>3. /\ IsFiniteSet(Threads \X (1 .. Full - 1))
        /\ Cardinality(Threads \X (1 .. Full - 1)) = Cardinality(Threads) * (Full - 1)
    BY <1>1, <1>2, FS_Product
  <1>4. Unflushed(sub) \in SUBSET (Threads \X (1 .. Full - 1))
    BY DEF Unflushed
  <1>5. IsFiniteSet(Unflushed(sub)) /\ Cardinality(Unflushed(sub)) <= Cardinality(Threads) * (Full - 1)
    BY <1>3, <1>4, FS_Subset
  <1> QED BY <1>2, <1>3, <1>5, FS_CardinalityType

LEMMA NothingUnflushed == NoSubcounts \in Subcounts /\ \A g \in Int : Accurate(g, NoSubcounts) = g
  <1>1. NoSubcounts \in Subcounts
    BY KeyFacts DEF NoSubcounts, Subcounts, Counted
  <1>2. Unflushed(NoSubcounts) = {}
    BY DEF Unflushed, NoSubcounts
  <1> QED BY <1>1, <1>2, FS_EmptySet DEF Accurate

\* An increment adds one, whether the subcounter is flushed or not.
LEMMA IncCounts ==
    ASSUME NEW t \in Threads, NEW g \in Nat, NEW sub \in Subcounts
    PROVE  /\ Inc(g, sub, t)[1] \in Nat /\ Inc(g, sub, t)[2] \in Subcounts
           /\ Accurate(g, sub) \in Nat
           /\ Accurate(Inc(g, sub, t)[1], Inc(g, sub, t)[2]) = Accurate(g, sub) + 1
  <1>1. Full \in Counted /\ sub[t] \in Nat /\ sub[t] <= Full - 1
    BY KeyFacts DEF Subcounts, Counted
  <1>2. IsFiniteSet(Unflushed(sub)) /\ Cardinality(Unflushed(sub)) \in Nat
    BY UnitsOf
  <1>3. CASE sub[t] + 1 >= Full
    <2> DEFINE none == [sub EXCEPT ![t] = 0]
               mine == {t} \X (1 .. sub[t])
    <2>1. Inc(g, sub, t)[1] = g + sub[t] + 1 /\ Inc(g, sub, t)[2] = none
      BY <1>3 DEF Inc
    <2>2. none \in Subcounts
      BY <1>1 DEF Subcounts, Counted
    <2>3. Unflushed(none) = Unflushed(sub) \ mine /\ Unflushed(sub) \cap mine = mine
      BY <1>1 DEF Unflushed, Subcounts, Counted
    <2>4. IsFiniteSet({t}) /\ Cardinality({t}) = 1
      BY FS_Singleton
    <2>5. IsFiniteSet(1 .. sub[t]) /\ Cardinality(1 .. sub[t]) = sub[t]
      BY <1>1, FS_Interval
    <2>6. Cardinality(mine) = sub[t]
      <3>1. Cardinality({t} \X (1 .. sub[t])) = Cardinality({t}) * Cardinality(1 .. sub[t])
        BY <2>4, <2>5, FS_Product
      <3>2. 1 * sub[t] = sub[t]
        BY <1>1
      <3> QED BY <2>4, <2>5, <3>1, <3>2
    <2> HIDE DEF none, mine
    <2>7. Cardinality(Unflushed(none)) = Cardinality(Unflushed(sub)) - sub[t]
      <3>1. Cardinality(Unflushed(sub) \ mine)
              = Cardinality(Unflushed(sub)) - Cardinality(Unflushed(sub) \cap mine)
        BY <1>2, FS_Difference
      <3> QED BY <2>3, <2>6, <3>1
    <2> QED BY <1>1, <1>2, <2>1, <2>2, <2>7 DEF Accurate
  <1>4. CASE ~(sub[t] + 1 >= Full)
    <2> DEFINE more == [sub EXCEPT ![t] = sub[t] + 1]
               unit == <<t, sub[t] + 1>>
    <2>1. Inc(g, sub, t)[1] = g /\ Inc(g, sub, t)[2] = more
      BY <1>4 DEF Inc
    <2>2. more \in Subcounts
      BY <1>1, <1>4 DEF Subcounts, Counted
    <2>3. Unflushed(more) = Unflushed(sub) \cup {unit} /\ unit \notin Unflushed(sub)
      <3>1. unit \in Unflushed(more) /\ unit \notin Unflushed(sub)
        BY <1>1, <1>4 DEF Unflushed, Subcounts, Counted
      <3>2. \A u \in Threads \X (1 .. Full - 1) : u[2] <= more[u[1]] <=> u[2] <= sub[u[1]] \/ u = unit
        <4> SUFFICES ASSUME NEW s \in Threads, NEW i \in 1 .. Full - 1
                     PROVE  i <= more[s] <=> i <= sub[s] \/ (s = t /\ i = sub[t] + 1)
          BY DEF unit
        <4> QED BY <1>1, <1>4 DEF Subcounts, Counted
      <3> QED BY <3>1, <3>2 DEF Unflushed
    <2> HIDE DEF more, unit
    <2>4. Cardinality(Unflushed(more)) = Cardinality(Unflushed(sub)) + 1
      BY <1>2, <2>3, FS_AddElement
    <2> QED BY <1>1, <1>2, <2>1, <2>2, <2>4 DEF Accurate
  <1> QED BY <1>3, <1>4

-----------------------------------------------------------------------------
\* What an array of cap slots is like, its keys where a search finds them.
Used(d) == {s \in DOMAIN d : d[s] # EMPTY}
Put(d, at, x) == [d EXCEPT ![at] = x]

Fits(d, cap) ==
    /\ cap \in Counted /\ d \in [Slots(cap) -> Keys \cup {EMPTY, TOMBSTONE}]
    /\ \A s, u \in Slots(cap) : d[s] \in Keys /\ d[s] = d[u] => s = u
    /\ \A s \in Slots(cap) : d[s] \in Keys =>
          \E j \in Slots(cap) : /\ Index(d[s], j, cap) = s
                                /\ \A i \in 0 .. j - 1 : d[Index(d[s], i, cap)] # EMPTY

LEMMA FiniteTable ==
    ASSUME NEW d, NEW cap, Fits(d, cap)
    PROVE  /\ Cardinality(DOMAIN d) = cap /\ DOMAIN d = Slots(cap)
           /\ IsFiniteSet(Held(d)) /\ Cardinality(Held(d)) \in Nat
           /\ IsFiniteSet(Used(d)) /\ Cardinality(Used(d)) \in Nat
           /\ Cardinality(Used(d)) = cap => \A s \in Slots(cap) : d[s] # EMPTY
  <1>1. DOMAIN d = Slots(cap) /\ cap \in Counted
    BY DEF Fits
  <1>2. IsFiniteSet(Slots(cap)) /\ Cardinality(Slots(cap)) = cap
    BY <1>1, FS_Interval DEF Slots, Counted
  <1>3. Used(d) \in SUBSET Slots(cap)
    BY <1>1 DEF Used
  <1>4. IsFiniteSet(Used(d)) /\ (Cardinality(Used(d)) = cap => Slots(cap) = Used(d))
    BY <1>2, <1>3, FS_Subset
  <1>5. Held(d) \in SUBSET Keys
    BY DEF Held, Fits
  <1>6. IsFiniteSet(Held(d))
    BY <1>5, KeyFacts, FS_Subset
  <1> QED BY <1>1, <1>2, <1>4, <1>6, FS_CardinalityType DEF Used

\* A search that comes to an empty slot has missed nothing.
LEMMA Absent ==
    ASSUME NEW d, NEW cap, Fits(d, cap), NEW k \in Keys, NEW j \in Slots(cap),
           \A i \in 0 .. j - 1 : d[Index(k, i, cap)] \notin {k, EMPTY},
           d[Index(k, j, cap)] = EMPTY
    PROVE  k \notin Held(d)
  <1> SUFFICES ASSUME NEW s \in Slots(cap), d[s] = k PROVE FALSE
    BY DEF Held, Fits
  <1>1. PICK x \in Slots(cap) : /\ Index(k, x, cap) = s
                                /\ \A i \in 0 .. x - 1 : d[Index(k, i, cap)] # EMPTY
    BY DEF Fits
  <1>2. x # j /\ ~(x \in 0 .. j - 1) /\ ~(j \in 0 .. x - 1)
    BY <1>1, KeyFacts
  <1> QED BY <1>2 DEF Slots, Fits, Counted

LEMMA KeyAdded ==
    ASSUME NEW d, NEW cap, Fits(d, cap), NEW k \in Keys, NEW j \in Slots(cap),
           \A i \in 0 .. j - 1 : d[Index(k, i, cap)] \notin {k, EMPTY},
           d[Index(k, j, cap)] = EMPTY,
           NEW e, e = Put(d, Index(k, j, cap), k)
    PROVE  /\ Fits(e, cap) /\ Held(e) = Held(d) \cup {k} /\ k \notin Held(d)
           /\ Used(e) = Used(d) \cup {Index(k, j, cap)} /\ Index(k, j, cap) \notin Used(d)
  <1> DEFINE at == Index(k, j, cap)
  <1>1. at \in Slots(cap) /\ cap \in Counted /\ DOMAIN d = Slots(cap)
    BY IndexType DEF Fits, Slots, Counted
  <1>2. k \notin Held(d)
    BY Absent
  <1>3. \A s \in Slots(cap) : d[s] # k
    BY <1>1, <1>2, KeyFacts DEF Held
  <1> HIDE DEF at
  <1>4. /\ e \in [Slots(cap) -> Keys \cup {EMPTY, TOMBSTONE}] /\ e[at] = k
        /\ \A s \in Slots(cap) : s # at => e[s] = d[s]
    BY <1>1 DEF at, Fits, Put
  <1>5. d[at] = EMPTY /\ k # EMPTY /\ k # TOMBSTONE
    BY KeyFacts DEF at
  <1>6. \A s, u \in Slots(cap) : e[s] \in Keys /\ e[s] = e[u] => s = u
    BY <1>3, <1>4 DEF Fits
  <1>7. ASSUME NEW s \in Slots(cap), e[s] \in Keys
        PROVE  \E x \in Slots(cap) : /\ Index(e[s], x, cap) = s
                                     /\ \A i \in 0 .. x - 1 : e[Index(e[s], i, cap)] # EMPTY
    <2>1. \A l \in Keys, i \in Nat : Index(l, i, cap) \in Slots(cap)
      BY <1>1, IndexType
    <2>2. CASE s = at
      <3>1. \A i \in 0 .. j - 1 : e[Index(k, i, cap)] # EMPTY
        <4>1. 0 .. j - 1 \subseteq Nat
          BY DEF Slots
        <4>2. \A i \in 0 .. j - 1 : Index(k, i, cap) \in Slots(cap)
          BY <2>1, <4>1
        <4> QED BY <1>4, <1>5, <4>2
      <3> QED BY <1>4, <2>2, <3>1 DEF at
    <2>3. CASE s # at
      <3>1. PICK x \in Slots(cap) : /\ Index(d[s], x, cap) = s
                                    /\ \A i \in 0 .. x - 1 : d[Index(d[s], i, cap)] # EMPTY
        BY <1>4, <1>7, <2>3 DEF Fits
      <3>2. \A i \in 0 .. x - 1 : Index(d[s], i, cap) \in Slots(cap)
        <4>1. 0 .. x - 1 \subseteq Nat /\ d[s] \in Keys
          BY <1>4, <1>7, <2>3 DEF Slots
        <4> QED BY <2>1, <4>1
      <3>3. \A i \in 0 .. x - 1 : e[Index(d[s], i, cap)] # EMPTY
        BY <1>4, <1>5, <3>1, <3>2
      <3> QED BY <1>4, <2>3, <3>1, <3>3
    <2> QED BY <2>2, <2>3
  <1>8. Fits(e, cap)
    BY <1>1, <1>4, <1>6, <1>7 DEF Fits
  <1>9. DOMAIN e = Slots(cap)
    BY <1>4
  <1>10. Held(e) = Held(d) \cup {k}
    BY <1>1, <1>4, <1>5, <1>9 DEF Held
  <1>11. Used(e) = Used(d) \cup {at} /\ at \notin Used(d)
    BY <1>1, <1>4, <1>5, <1>9 DEF Used
  <1> QED BY <1>2, <1>8, <1>10, <1>11 DEF at

LEMMA KeyDropped ==
    ASSUME NEW d, NEW cap, Fits(d, cap), NEW k \in Keys, NEW at \in Slots(cap), d[at] = k,
           NEW e, e = Put(d, at, TOMBSTONE)
    PROVE  Fits(e, cap) /\ Held(e) = Held(d) \ {k} /\ k \in Held(d) /\ Used(e) = Used(d)
  <1>1. cap \in Counted /\ DOMAIN d = Slots(cap) /\ k # EMPTY /\ k # TOMBSTONE /\ EMPTY # TOMBSTONE
    BY KeyFacts DEF Fits
  <1>2. /\ e \in [Slots(cap) -> Keys \cup {EMPTY, TOMBSTONE}] /\ e[at] = TOMBSTONE
        /\ \A s \in Slots(cap) : s # at => e[s] = d[s]
    BY <1>1 DEF Fits, Put
  <1>3. \A s \in Slots(cap) : s # at => d[s] # k
    BY DEF Fits
  <1>4. TOMBSTONE \notin Keys
    BY KeyFacts
  <1>5. \A s, u \in Slots(cap) : e[s] \in Keys /\ e[s] = e[u] => s = u
    BY <1>2, <1>4 DEF Fits
  <1>6. ASSUME NEW s \in Slots(cap), e[s] \in Keys
        PROVE  \E x \in Slots(cap) : /\ Index(e[s], x, cap) = s
                                     /\ \A i \in 0 .. x - 1 : e[Index(e[s], i, cap)] # EMPTY
    <2>1. e[s] = d[s]
      BY <1>2, <1>4, <1>6
    <2>2. PICK x \in Slots(cap) : /\ Index(d[s], x, cap) = s
                                  /\ \A i \in 0 .. x - 1 : d[Index(d[s], i, cap)] # EMPTY
      BY <1>6, <2>1 DEF Fits
    <2>3. \A i \in 0 .. x - 1 : Index(d[s], i, cap) \in Slots(cap)
      <3>1. 0 .. x - 1 \subseteq Nat /\ d[s] \in Keys
        BY <1>6, <2>1 DEF Slots
      <3> QED BY <1>1, <3>1, IndexType
    <2> QED BY <1>1, <1>2, <2>1, <2>2, <2>3
  <1>7. Fits(e, cap)
    BY <1>1, <1>2, <1>5, <1>6 DEF Fits
  <1>8. DOMAIN e = Slots(cap)
    BY <1>2
  <1>9. Held(e) = Held(d) \ {k} /\ k \in Held(d)
    BY <1>1, <1>2, <1>3, <1>8 DEF Held
  <1>10. Used(e) = Used(d)
    BY <1>1, <1>2, <1>8 DEF Used
  <1> QED BY <1>7, <1>9, <1>10

\* However the threads of the migration place the keys.
LEMMA KeysMoved ==
    ASSUME NEW keys \in SUBSET Keys, NEW cap \in Counted, NEW last \in Migrations(keys, cap),
           NEW e, e = Migrated(last, cap)
    PROVE  Fits(e, cap) /\ Held(e) = keys /\ Cardinality(Used(e)) = Cardinality(keys)
  <1> DEFINE at(k) == Index(k, last[k], cap)
  <1>1. /\ last \in [keys -> Slots(cap)]
        /\ \A k, o \in keys : at(o) = at(k) => o = k
        /\ \A k \in keys : \A j \in 0 .. last[k] - 1 : \E o \in keys : at(o) = Index(k, j, cap)
    BY DEF Migrations, Slots
  <1>2. \A k \in keys : at(k) \in Slots(cap)
    BY <1>1, IndexType DEF Slots
  <1> HIDE DEF at
  <1>3. e = [s \in Slots(cap) |-> IF \E k \in keys : at(k) = s THEN CHOOSE k \in keys : at(k) = s
                                  ELSE EMPTY]
    BY <1>1 DEF Migrated, Slots, at
  <1>4. \A k \in keys : e[at(k)] = k
    BY <1>1, <1>2, <1>3
  <1>5. \A s \in Slots(cap) : \/ e[s] \in keys /\ at(e[s]) = s
                              \/ e[s] = EMPTY /\ \A k \in keys : at(k) # s
    BY <1>3
  <1>6. DOMAIN e = Slots(cap) /\ e \in [Slots(cap) -> Keys \cup {EMPTY, TOMBSTONE}]
    BY <1>3, <1>5
  <1>7. EMPTY \notin Keys /\ TOMBSTONE \notin Keys
    BY KeyFacts
  <1>8. ASSUME NEW s \in Slots(cap), e[s] \in Keys
        PROVE  \E x \in Slots(cap) : /\ Index(e[s], x, cap) = s
                                     /\ \A i \in 0 .. x - 1 : e[Index(e[s], i, cap)] # EMPTY
    <2>1. e[s] \in keys /\ at(e[s]) = s /\ last[e[s]] \in Slots(cap)
      BY <1>1, <1>5, <1>7, <1>8
    <2>2. \A i \in 0 .. last[e[s]] - 1 : e[Index(e[s], i, cap)] # EMPTY
      BY <1>1, <1>4, <1>7, <2>1
    <2> QED BY <2>1, <2>2 DEF at
  <1>9. \A s, u \in Slots(cap) : e[s] \in Keys /\ e[s] = e[u] => s = u
    BY <1>5, <1>7
  <1>10. Fits(e, cap)
    BY <1>6, <1>8, <1>9 DEF Fits
  <1>11. Held(e) = keys
    BY <1>2, <1>4, <1>5, <1>6, <1>7 DEF Held
  <1>12. Used(e) = {at(k) : k \in keys}
    BY <1>2, <1>4, <1>5, <1>6, <1>7 DEF Used
  <1>13. Cardinality(Used(e)) = Cardinality(keys)
    <2> DEFINE f == [k \in keys |-> at(k)]
    <2>1. /\ f \in [keys -> Used(e)] /\ \A k, o \in keys : f[k] = f[o] => k = o
          /\ \A u \in Used(e) : \E k \in keys : f[k] = u
      BY <1>1, <1>12
    <2> HIDE DEF f
    <2>2. IsFiniteSet(keys)
      BY KeyFacts, FS_Subset
    <2>3. ExistsBijection(keys, Used(e))
      BY <2>1, Fun_IsBij, Fun_ExistsBij
    <2> QED BY <2>2, <2>3, FS_Bijection
  <1> QED BY <1>10, <1>11, <1>13

-----------------------------------------------------------------------------
\* The table and its counters: no more slots are in use than make a call expand it.
Ceiling(cap) == cap \div 3 + Cardinality(Threads) * (Full - 1) + 1

CountersFit(d, i, iOf, x, xOf) ==
    LET cap == Cardinality(DOMAIN d)
    IN  /\ Fits(d, cap)
        /\ i \in Nat /\ iOf \in Subcounts /\ x \in Nat /\ xOf \in Subcounts
        /\ Accurate(i, iOf) - Accurate(x, xOf) = Cardinality(Held(d))
        /\ Accurate(i, iOf) = Cardinality(Used(d))
        /\ Accurate(i, iOf) <= Ceiling(cap)

TableInv == CountersFit(data, inserts, insertsOf, deletes, deletesOf)

LEMMA Capacity == TableInv => /\ Fits(data, capacity) /\ capacity \in Counted
                              /\ DOMAIN data = Slots(capacity)
  <1> SUFFICES ASSUME TableInv PROVE Fits(data, capacity)
    BY DEF Fits
  <1> QED BY DEF TableInv, CountersFit, capacity

LEMMA InvCounts == TableInv => CountersAgree
  BY DEF TableInv, CountersFit, CountersAgree, AccurateInserts, AccurateDeletes, Used

LEMMA EmptyTable ==
    ASSUME NEW cap \in Counted, NEW d, d = [s \in 0 .. cap - 1 |-> EMPTY]
    PROVE  CountersFit(d, 0, NoSubcounts, 0, NoSubcounts)
  <1>1. EMPTY \notin Keys /\ TOMBSTONE \notin Keys /\ DOMAIN d = Slots(cap)
    BY KeyFacts DEF Slots
  <1>2. Fits(d, cap)
    BY <1>1 DEF Fits, Slots
  <1>3. Cardinality(DOMAIN d) = cap
    BY <1>2, FiniteTable
  <1>4. Held(d) = {} /\ Used(d) = {}
    BY DEF Held, Used
  <1>5. Cardinality(Held(d)) = 0 /\ Cardinality(Used(d)) = 0
    BY <1>4, FS_EmptySet
  <1>6. NoSubcounts \in Subcounts /\ Accurate(0, NoSubcounts) = 0
    BY NothingUnflushed
  <1>7. 0 <= Ceiling(cap)
    <2>1. cap \div 3 \in Nat /\ Cardinality(Threads) * (Full - 1) \in Nat
      BY <1>6, UnitsOf DEF Counted
    <2> QED BY <2>1 DEF Ceiling
  <1> QED BY <1>2, <1>3, <1>5, <1>6, <1>7 DEF CountersFit

\* While an insert does not expand the table, the counter that get returns is small.
LEMMA BelowCeiling ==
    ASSUME NEW cap \in Counted, NEW g \in Nat, NEW sub \in Subcounts, g <= cap \div 3
    PROVE  Accurate(g, sub) + 1 <= Ceiling(cap)
  <1>1. /\ Cardinality(Unflushed(sub)) <= Cardinality(Threads) * (Full - 1)
        /\ Cardinality(Unflushed(sub)) \in Nat /\ Cardinality(Threads) * (Full - 1) \in Nat
    BY UnitsOf
  <1>2. cap \div 3 \in Nat
    BY DEF Counted
  <1> QED BY <1>1, <1>2 DEF Accurate, Ceiling

LEMMA InsertCounts ==
    ASSUME NEW d, NEW g, NEW gOf, NEW x, NEW xOf, CountersFit(d, g, gOf, x, xOf),
           NEW t \in Threads, NEW k \in Keys, NEW cap, cap = Cardinality(DOMAIN d),
           g <= cap \div 3, NEW j \in Slots(cap),
           \A i \in 0 .. j - 1 : d[Index(k, i, cap)] \notin {k, EMPTY},
           d[Index(k, j, cap)] = EMPTY,
           NEW e, e = Put(d, Index(k, j, cap), k)
    PROVE  /\ CountersFit(e, Inc(g, gOf, t)[1], Inc(g, gOf, t)[2], x, xOf)
           /\ Held(e) = Held(d) \cup {k} /\ k \notin Held(d)
  <1>1. /\ Fits(d, cap) /\ g \in Nat /\ gOf \in Subcounts /\ x \in Nat /\ xOf \in Subcounts
        /\ Accurate(g, gOf) - Accurate(x, xOf) = Cardinality(Held(d))
        /\ Accurate(g, gOf) = Cardinality(Used(d))
    BY DEF CountersFit
  <1>2. /\ Fits(e, cap) /\ Held(e) = Held(d) \cup {k} /\ k \notin Held(d)
        /\ Used(e) = Used(d) \cup {Index(k, j, cap)} /\ Index(k, j, cap) \notin Used(d)
    BY <1>1, KeyAdded
  <1>3. /\ IsFiniteSet(Held(d)) /\ Cardinality(Held(d)) \in Nat
        /\ IsFiniteSet(Used(d)) /\ Cardinality(Used(d)) \in Nat
    BY <1>1, FiniteTable
  <1>4. Cardinality(Held(e)) = Cardinality(Held(d)) + 1
    BY <1>2, <1>3, FS_AddElement
  <1>5. Cardinality(Used(e)) = Cardinality(Used(d)) + 1
    BY <1>2, <1>3, FS_AddElement
  <1>6. /\ Inc(g, gOf, t)[1] \in Nat /\ Inc(g, gOf, t)[2] \in Subcounts
        /\ Accurate(g, gOf) \in Nat
        /\ Accurate(Inc(g, gOf, t)[1], Inc(g, gOf, t)[2]) = Accurate(g, gOf) + 1
    BY <1>1, IncCounts
  <1>7. Accurate(x, xOf) \in Nat
    BY <1>1, IncCounts
  <1>8. Accurate(g, gOf) + 1 <= Ceiling(cap)
    BY <1>1, BelowCeiling DEF Fits
  <1>9. Cardinality(DOMAIN e) = cap
    BY <1>2, FiniteTable
  <1>10. Accurate(g, gOf) + 1 - Accurate(x, xOf) = Cardinality(Held(e))
    BY <1>1, <1>3, <1>4, <1>6, <1>7
  <1>11. CountersFit(e, Inc(g, gOf, t)[1], Inc(g, gOf, t)[2], x, xOf)
    <2> DEFINE c == Inc(g, gOf, t)[1]
               cOf == Inc(g, gOf, t)[2]
    <2>1. /\ c \in Nat /\ cOf \in Subcounts
          /\ Accurate(c, cOf) = Accurate(g, gOf) + 1
      BY <1>6
    <2> HIDE DEF c, cOf
    <2>2. /\ Accurate(c, cOf) - Accurate(x, xOf) = Cardinality(Held(e))
          /\ Accurate(c, cOf) = Cardinality(Used(e)) /\ Accurate(c, cOf) <= Ceiling(cap)
      BY <1>1, <1>3, <1>5, <1>6, <1>7, <1>8, <1>10, <2>1
    <2>3. Fits(e, Cardinality(DOMAIN e)) /\ Ceiling(cap) = Ceiling(Cardinality(DOMAIN e))
      BY <1>2, <1>9
    <2>4. CountersFit(e, c, cOf, x, xOf)
      BY <1>1, <2>1, <2>2, <2>3 DEF CountersFit
    <2> QED BY <2>4 DEF c, cOf
  <1> QED BY <1>2, <1>11

LEMMA EraseCounts ==
    ASSUME NEW d, NEW g, NEW gOf, NEW x, NEW xOf, CountersFit(d, g, gOf, x, xOf),
           NEW t \in Threads, NEW k \in Keys, NEW cap, cap = Cardinality(DOMAIN d),
           NEW at \in Slots(cap), d[at] = k,
           NEW e, e = Put(d, at, TOMBSTONE)
    PROVE  /\ CountersFit(e, g, gOf, Inc(x, xOf, t)[1], Inc(x, xOf, t)[2])
           /\ Held(e) = Held(d) \ {k} /\ k \in Held(d)
  <1>1. /\ Fits(d, cap) /\ g \in Nat /\ gOf \in Subcounts /\ x \in Nat /\ xOf \in Subcounts
        /\ Accurate(g, gOf) - Accurate(x, xOf) = Cardinality(Held(d))
        /\ Accurate(g, gOf) = Cardinality(Used(d)) /\ Accurate(g, gOf) <= Ceiling(cap)
    BY DEF CountersFit
  <1>2. Fits(e, cap) /\ Held(e) = Held(d) \ {k} /\ k \in Held(d) /\ Used(e) = Used(d)
    BY <1>1, KeyDropped
  <1>3. IsFiniteSet(Held(d)) /\ Cardinality(Held(d)) \in Nat
    BY <1>1, FiniteTable
  <1>4. Cardinality(Held(e)) = Cardinality(Held(d)) - 1
    BY <1>2, <1>3, FS_RemoveElement
  <1>5. /\ Inc(x, xOf, t)[1] \in Nat /\ Inc(x, xOf, t)[2] \in Subcounts
        /\ Accurate(x, xOf) \in Nat
        /\ Accurate(Inc(x, xOf, t)[1], Inc(x, xOf, t)[2]) = Accurate(x, xOf) + 1
    BY <1>1, IncCounts
  <1>6. Accurate(g, gOf) \in Nat
    BY <1>1, IncCounts
  <1>7. Cardinality(DOMAIN e) = cap
    BY <1>2, FiniteTable
  <1>8. Accurate(g, gOf) - (Accurate(x, xOf) + 1) = Cardinality(Held(e))
    BY <1>1, <1>3, <1>4, <1>5, <1>6
  <1> QED BY <1>1, <1>2, <1>5, <1>7, <1>8 DEF CountersFit

\* The new array has room for the keys eight times over.
LEMMA ExpandCounts ==
    ASSUME NEW d, NEW g, NEW gOf, NEW x, NEW xOf, CountersFit(d, g, gOf, x, xOf),
           NEW size, size = Accurate(g, gOf) - Accurate(x, xOf),
           NEW room, room = Larger(Larger(size, 1) * 8, Cardinality(DOMAIN d)),
           NEW last \in Migrations(Held(d), room),
           NEW e, e = Migrated(last, room)
    PROVE  CountersFit(e, size, NoSubcounts, 0, NoSubcounts) /\ Held(e) = Held(d)
  <1> DEFINE cap == Cardinality(DOMAIN d)
  <1>1. Fits(d, cap) /\ size = Cardinality(Held(d))
    BY DEF CountersFit
  <1>2. size \in Nat /\ Held(d) \in SUBSET Keys /\ cap \in Counted
    <2>1. cap \in Counted
      BY <1>1 DEF Fits
    <2>2. Held(d) \in SUBSET Keys
      BY <1>1 DEF Fits, Held
    <2>3. Cardinality(Held(d)) \in Nat
      BY <1>1, FiniteTable
    <2> QED BY <1>1, <2>1, <2>2, <2>3
  <1>3. room \in Counted /\ size <= room \div 3
    <2> HIDE DEF cap
    <2>1. room = Larger(Larger(size, 1) * 8, cap)
      BY DEF cap
    <2> QED BY <1>2, <2>1 DEF Larger, Counted
  <1>4. Fits(e, room) /\ Held(e) = Held(d) /\ Cardinality(Used(e)) = Cardinality(Held(d))
    BY <1>2, <1>3, KeysMoved
  <1>5. Cardinality(DOMAIN e) = room
    BY <1>4, FiniteTable
  <1>6. /\ NoSubcounts \in Subcounts
        /\ Accurate(size, NoSubcounts) = size /\ Accurate(0, NoSubcounts) = 0
    BY <1>2, NothingUnflushed
  <1>7. size <= Ceiling(room)
    <2>1. room \div 3 \in Nat /\ Cardinality(Threads) * (Full - 1) \in Nat
      BY <1>3, <1>6, UnitsOf DEF Counted
    <2> QED BY <1>2, <1>3, <2>1 DEF Ceiling
  <1> QED BY <1>1, <1>2, <1>4, <1>5, <1>6, <1>7 DEF CountersFit

-----------------------------------------------------------------------------
\* The calls that are made on the hash table.
Draws == {"insert", "erase"} \X Keys
HashPlaces == {"idle", "begin", "return", "assert"}

PlansOf(D) == [script : Seq(D), calls : SUBSET D, more : Nat]

CallsFit ==
    /\ plan \in PlansOf(Draws)
    /\ pc \in [Threads -> HashPlaces] /\ op \in [Threads -> {"none", "insert", "erase"}]
    /\ arg \in [Threads -> Keys \cup {0}] /\ res \in [Threads -> {"pending", "true", "false"}]
    /\ \A t \in Threads :
          /\ pc[t] \in {"begin", "assert"} => /\ op[t] \in {"insert", "erase"} /\ arg[t] \in Keys
                                              /\ res[t] = "pending"
          /\ pc[t] = "return" => res[t] \in {"true", "false"}
          /\ pc[t] = "idle" => res[t] = "pending"

HashInv == program = "hash" => CallsFit

LEMMA InitCalls == Init => HashInv
  <1> SUFFICES ASSUME Init, program = "hash" PROVE CallsFit
    BY DEF HashInv
  <1>1. plan \in Plans("hash") /\ "hash" \in Programs
    BY DEF Init
  <1>2. plan \in PlansOf(Draws)
    BY <1>1, ProgramsAssumption DEF Draws, PlansOf
  <1> QED BY <1>2 DEF Init, CallsInit, CallsFit, HashPlaces

\* A call of one of D by t begins.
Called(D, t) ==
    /\ plan' \in PlansOf(D)
    /\ pc[t] = "idle" /\ pc' = [pc EXCEPT ![t] = "begin"]
    /\ UNCHANGED <<res, tableVars>> /\ TreeCall(t)
    /\ \E c \in D : op' = [op EXCEPT ![t] = c[1]] /\ arg' = [arg EXCEPT ![t] = c[2]]

LEMMA CallDraws == ASSUME NEW D, plan \in PlansOf(D), NEW t \in Threads, Start(t) PROVE Called(D, t)
  <1>1. /\ plan' \in PlansOf(D)
        /\ \E calls \in SUBSET D : Call(t, calls)
    <2>1. CASE /\ plan.script # <<>> /\ Call(t, {Head(plan.script)})
               /\ plan' = [plan EXCEPT !.script = Tail(@)]
      <3>1. Head(plan.script) \in D /\ Tail(plan.script) \in Seq(D)
        BY <2>1 DEF PlansOf
      <3>2. plan' \in PlansOf(D)
        BY <2>1, <3>1 DEF PlansOf
      <3> QED BY <2>1, <3>1, <3>2
    <2>2. CASE /\ plan.script = <<>> /\ plan.more > 0 /\ Call(t, plan.calls)
               /\ plan' = [plan EXCEPT !.more = IF program = "avl" THEN @ - 1 ELSE @]
      <3>1. plan.more \in Nat /\ plan.more - 1 \in Nat
        BY <2>2 DEF PlansOf
      <3>2. plan' \in PlansOf(D)
        BY <2>2, <3>1 DEF PlansOf
      <3> QED BY <2>2, <3>2 DEF PlansOf
    <2> QED BY <2>1, <2>2 DEF Start
  <1>2. PICK c \in D : op' = [op EXCEPT ![t] = c[1]] /\ arg' = [arg EXCEPT ![t] = c[2]]
    BY <1>1 DEF Call
  <1>3. pc[t] = "idle" /\ pc' = [pc EXCEPT ![t] = "begin"] /\ res' = res
    BY <1>1 DEF Call, At, Goto
  <1> QED BY <1>1, <1>2, <1>3 DEF Start, Called

LEMMA StartFits ==
    ASSUME CallsFit, NEW t \in Threads, Start(t)
    PROVE  /\ CallsFit' /\ pc[t] = "idle" /\ pc' = [pc EXCEPT ![t] = "begin"]
           /\ UNCHANGED <<res, tableVars>>
           /\ \E c \in Draws : op' = [op EXCEPT ![t] = c[1]] /\ arg' = [arg EXCEPT ![t] = c[2]]
  <1>1. /\ plan \in PlansOf(Draws)
        /\ pc \in [Threads -> HashPlaces] /\ op \in [Threads -> {"none", "insert", "erase"}]
        /\ arg \in [Threads -> Keys \cup {0}] /\ res \in [Threads -> {"pending", "true", "false"}]
    BY DEF CallsFit
  <1>2. /\ plan' \in PlansOf(Draws)
        /\ pc[t] = "idle" /\ pc' = [pc EXCEPT ![t] = "begin"]
        /\ UNCHANGED <<res, tableVars>>
        /\ \E c \in Draws : op' = [op EXCEPT ![t] = c[1]] /\ arg' = [arg EXCEPT ![t] = c[2]]
    <2>1. Called(Draws, t)
      BY <1>1, CallDraws
    <2> QED BY <2>1 DEF Called
  <1>3. PICK c \in Draws : op' = [op EXCEPT ![t] = c[1]] /\ arg' = [arg EXCEPT ![t] = c[2]]
    BY <1>2
  <1>4. pc[t] = "idle" /\ pc' = [pc EXCEPT ![t] = "begin"] /\ res' = res
    BY <1>2
  <1>5. c[1] \in {"insert", "erase"} /\ c[2] \in Keys
    BY DEF Draws
  <1>6. /\ pc' \in [Threads -> HashPlaces] /\ op' \in [Threads -> {"none", "insert", "erase"}]
        /\ arg' \in [Threads -> Keys \cup {0}]
    BY <1>1, <1>3, <1>4, <1>5 DEF HashPlaces
  <1>7. ASSUME NEW u \in Threads
        PROVE  /\ pc'[u] \in {"begin", "assert"} => /\ op'[u] \in {"insert", "erase"} /\ arg'[u] \in Keys
                                                    /\ res'[u] = "pending"
               /\ pc'[u] = "return" => res'[u] \in {"true", "false"}
               /\ pc'[u] = "idle" => res'[u] = "pending"
    <2>1. CASE u = t
      BY <1>1, <1>3, <1>4, <1>5, <2>1 DEF CallsFit
    <2>2. CASE u # t
      <3>1. pc'[u] = pc[u] /\ op'[u] = op[u] /\ arg'[u] = arg[u] /\ res'[u] = res[u]
        BY <1>1, <1>3, <1>4, <2>2
      <3> QED BY <3>1 DEF CallsFit
    <2> QED BY <2>1, <2>2
  <1>8. CallsFit'
    BY <1>1, <1>2, <1>4, <1>6, <1>7 DEF CallsFit
  <1> QED BY <1>2, <1>3, <1>4, <1>8

LEMMA AnswerFits ==
    ASSUME CallsFit, NEW t \in Threads, NEW r \in {"true", "false"}, Answer(t, r, "return"), plan' = plan
    PROVE  /\ CallsFit' /\ res' = [res EXCEPT ![t] = r] /\ pc' = [pc EXCEPT ![t] = "return"]
           /\ UNCHANGED <<op, arg>>
  <1>1. /\ pc \in [Threads -> HashPlaces] /\ res \in [Threads -> {"pending", "true", "false"}]
    BY DEF CallsFit
  <1>2. /\ res' = [res EXCEPT ![t] = r] /\ pc' = [pc EXCEPT ![t] = "return"]
        /\ op' = op /\ arg' = arg
    BY DEF Answer, Goto
  <1>3. pc' \in [Threads -> HashPlaces] /\ res' \in [Threads -> {"pending", "true", "false"}]
    BY <1>1, <1>2 DEF HashPlaces
  <1>4. /\ pc'[t] = "return" /\ res'[t] = r
        /\ \A u \in Threads : u # t => pc'[u] = pc[u] /\ res'[u] = res[u]
    BY <1>1, <1>2
  <1> QED BY <1>2, <1>3, <1>4 DEF CallsFit

LEMMA ReturnFits ==
    ASSUME CallsFit, NEW t \in Threads, Return(t), plan' = plan
    PROVE  CallsFit'
  <1>1. /\ pc \in [Threads -> HashPlaces] /\ op \in [Threads -> {"none", "insert", "erase"}]
        /\ arg \in [Threads -> Keys \cup {0}] /\ res \in [Threads -> {"pending", "true", "false"}]
    BY DEF CallsFit
  <1>2. /\ res' = [res EXCEPT ![t] = "pending"] /\ pc' = [pc EXCEPT ![t] = "idle"]
        /\ op' = [op EXCEPT ![t] = "none"] /\ arg' = [arg EXCEPT ![t] = 0]
    BY DEF Return, Goto
  <1>3. /\ pc' \in [Threads -> HashPlaces] /\ op' \in [Threads -> {"none", "insert", "erase"}]
        /\ arg' \in [Threads -> Keys \cup {0}] /\ res' \in [Threads -> {"pending", "true", "false"}]
    BY <1>1, <1>2 DEF HashPlaces
  <1>4. /\ pc'[t] = "idle" /\ res'[t] = "pending"
        /\ \A u \in Threads : u # t => /\ pc'[u] = pc[u] /\ res'[u] = res[u]
                                       /\ op'[u] = op[u] /\ arg'[u] = arg[u]
    BY <1>1, <1>2
  <1> QED BY <1>3, <1>4 DEF CallsFit

LEMMA AssertFits ==
    ASSUME CallsFit, NEW t \in Threads, TableAssertFails(t), plan' = plan
    PROVE  CallsFit'
  <1>1. pc \in [Threads -> HashPlaces] /\ pc[t] = "begin"
    BY DEF CallsFit, TableAssertFails, Section, At
  <1>2. pc' = [pc EXCEPT ![t] = "assert"] /\ UNCHANGED <<op, arg, res>>
    BY DEF TableAssertFails, Goto
  <1>3. pc' \in [Threads -> HashPlaces]
    BY <1>1, <1>2 DEF HashPlaces
  <1>4. pc'[t] = "assert" /\ \A u \in Threads : u # t => pc'[u] = pc[u]
    BY <1>1, <1>2
  <1> QED BY <1>1, <1>2, <1>3, <1>4 DEF CallsFit

LEMMA HashWorkFits ==
    ASSUME CallsFit, NEW t \in Threads, HashWork(t)
    PROVE  CallsFit'
  <1>1. plan' = plan
    BY DEF HashWork
  <1>2. CASE TableExpand(t)
    BY <1>1, <1>2 DEF TableExpand, callVars, CallsFit
  <1>3. CASE TableInsertFindsKey(t) \/ TableEraseFindsNone(t)
    BY <1>1, <1>3, AnswerFits DEF TableInsertFindsKey, TableEraseFindsNone
  <1>4. CASE TableInsert(t) \/ TableErase(t)
    BY <1>1, <1>4, AnswerFits DEF TableInsert, TableErase
  <1>5. CASE TableAssertFails(t)
    BY <1>1, <1>5, AssertFits
  <1>6. CASE Return(t)
    BY <1>1, <1>6, ReturnFits
  <1> QED BY <1>2, <1>3, <1>4, <1>5, <1>6 DEF HashWork, TableWork

-----------------------------------------------------------------------------
\* What the calls do to the table.
LEMMA ExpandStep ==
    ASSUME TableInv, Expand
    PROVE  TableInv' /\ Held(data)' = Held(data)
  <1> DEFINE size == AccurateInserts - AccurateDeletes
             room == Larger(Larger(size, 1) * 8, capacity)
  <1>1. /\ \E last \in Migrations(Held(data), room) : data' = Migrated(last, room)
        /\ inserts' = size /\ insertsOf' = NoSubcounts
        /\ deletes' = 0 /\ deletesOf' = NoSubcounts
    BY DEF Expand, ExpandTo
  <1>2. CountersFit(data, inserts, insertsOf, deletes, deletesOf)
    BY DEF TableInv
  <1>3. /\ size = Accurate(inserts, insertsOf) - Accurate(deletes, deletesOf)
        /\ room = Larger(Larger(size, 1) * 8, Cardinality(DOMAIN data))
    BY DEF AccurateInserts, AccurateDeletes, capacity
  <1> HIDE DEF size, room
  <1>4. CountersFit(data', size, NoSubcounts, 0, NoSubcounts) /\ Held(data') = Held(data)
    BY <1>1, <1>2, <1>3, ExpandCounts
  <1> QED BY <1>1, <1>4 DEF TableInv

LEMMA InsertStep ==
    ASSUME TableInv, NEW t \in Threads, arg[t] \in Keys, TableInsert(t)
    PROVE  TableInv' /\ Held(data)' = Held(data) \cup {arg[t]} /\ arg[t] \notin Held(data)
  <1>1. PICK j \in Probes : /\ InsertLeavesOff(t, j, EMPTY)
                            /\ data' = [data EXCEPT ![Index(arg[t], j, capacity)] = arg[t]]
    BY DEF TableInsert
  <1>2. /\ inserts' = Inc(inserts, insertsOf, t)[1] /\ insertsOf' = Inc(inserts, insertsOf, t)[2]
        /\ deletes' = deletes /\ deletesOf' = deletesOf
    BY DEF TableInsert
  <1>3. data' = Put(data, Index(arg[t], j, capacity), arg[t])
    BY <1>1 DEF Put
  <1>4. CountersFit(data, inserts, insertsOf, deletes, deletesOf)
    BY DEF TableInv
  <1>5. inserts \in Nat /\ capacity \in Counted /\ capacity \div 3 \in Nat /\ j \in Slots(capacity)
    BY <1>4, Capacity DEF CountersFit, Counted, Probes, Slots
  <1>6. inserts <= capacity \div 3
    BY <1>1, <1>5 DEF InsertLeavesOff, isExpandNeeded
  <1>7. /\ \A i \in 0 .. j - 1 : data[Index(arg[t], i, capacity)] \notin {arg[t], EMPTY}
        /\ data[Index(arg[t], j, capacity)] = EMPTY
    BY <1>1 DEF InsertLeavesOff, InsertReaches, Probed
  <1>8. /\ CountersFit(data', Inc(inserts, insertsOf, t)[1], Inc(inserts, insertsOf, t)[2],
                       deletes, deletesOf)
        /\ Held(data') = Held(data) \cup {arg[t]} /\ arg[t] \notin Held(data)
    BY <1>3, <1>4, <1>5, <1>6, <1>7, InsertCounts DEF capacity
  <1> QED BY <1>2, <1>8 DEF TableInv

LEMMA EraseStep ==
    ASSUME TableInv, NEW t \in Threads, arg[t] \in Keys, TableErase(t)
    PROVE  TableInv' /\ Held(data)' = Held(data) \ {arg[t]} /\ arg[t] \in Held(data)
  <1>1. PICK j \in Probes : /\ EraseLeavesOff(t, j, arg[t])
                            /\ data' = [data EXCEPT ![Index(arg[t], j, capacity)] = TOMBSTONE]
    BY DEF TableErase
  <1>2. /\ deletes' = Inc(deletes, deletesOf, t)[1] /\ deletesOf' = Inc(deletes, deletesOf, t)[2]
        /\ inserts' = inserts /\ insertsOf' = insertsOf
    BY DEF TableErase
  <1>3. data' = Put(data, Index(arg[t], j, capacity), TOMBSTONE)
    BY <1>1 DEF Put
  <1>4. CountersFit(data, inserts, insertsOf, deletes, deletesOf)
    BY DEF TableInv
  <1>5. capacity \in Counted /\ j \in Nat
    BY <1>4, Capacity DEF Probes
  <1>6. Index(arg[t], j, capacity) \in Slots(capacity)
    BY <1>5, IndexType
  <1>7. data[Index(arg[t], j, capacity)] = arg[t]
    BY <1>1 DEF EraseLeavesOff, Probed
  <1>8. /\ CountersFit(data', inserts, insertsOf,
                       Inc(deletes, deletesOf, t)[1], Inc(deletes, deletesOf, t)[2])
        /\ Held(data') = Held(data) \ {arg[t]} /\ arg[t] \in Held(data)
    BY <1>3, <1>4, <1>6, <1>7, EraseCounts DEF capacity
  <1> QED BY <1>2, <1>8 DEF TableInv

\* A key that is found is there, and one that is not found is not.
LEMMA Found ==
    ASSUME TableInv, NEW t \in Threads, arg[t] \in Keys
    PROVE  /\ TableInsertFindsKey(t) => arg[t] \in Held(data)
           /\ TableEraseFindsNone(t) => arg[t] \notin Held(data)
  <1>1. /\ Fits(data, capacity) /\ capacity \in Counted /\ DOMAIN data = Slots(capacity)
        /\ Probes = Slots(capacity)
    BY Capacity DEF Probes, Slots
  <1>2. ASSUME TableInsertFindsKey(t) PROVE arg[t] \in Held(data)
    <2>1. PICK j \in Probes : data[Index(arg[t], j, capacity)] = arg[t]
      BY <1>2 DEF TableInsertFindsKey, InsertLeavesOff, Probed
    <2>2. j \in Nat
      BY DEF Probes
    <2>3. Index(arg[t], j, capacity) \in DOMAIN data
      BY <1>1, <2>2, IndexType
    <2> QED BY <2>1, <2>3, KeyFacts DEF Held
  <1>3. ASSUME TableEraseFindsNone(t) PROVE arg[t] \notin Held(data)
    <2>1. PICK j \in Probes : /\ \A i \in 0 .. j - 1 : data[Index(arg[t], i, capacity)] \notin {arg[t], EMPTY}
                              /\ data[Index(arg[t], j, capacity)] = EMPTY
      BY <1>3 DEF TableEraseFindsNone, EraseLeavesOff, EraseReaches, Probed
    <2> QED BY <1>1, <2>1, Absent
  <1> QED BY <1>2, <1>3

\* A loop that has been all the way round has seen every slot in use.
LEMMA LoopsEnd ==
    ASSUME TableInv, Ample, NEW t \in Threads, arg[t] \in Keys
    PROVE  ~TableAssertFails(t)
  <1> SUFFICES ASSUME TableAssertFails(t) PROVE FALSE
    OBVIOUS
  <1>1. Fits(data, capacity) /\ capacity \in Counted /\ DOMAIN data = Slots(capacity)
    BY Capacity
  <1>2. \A i \in Slots(capacity) : data[Index(arg[t], i, capacity)] # EMPTY
    BY DEF TableAssertFails, InsertReaches, EraseReaches, Probed, Slots
  <1>3. \A s \in Slots(capacity) : data[s] # EMPTY
    BY <1>1, <1>2, EverySlotIsProbed
  <1>4. Used(data) = DOMAIN data
    BY <1>1, <1>3 DEF Used
  <1>5. Cardinality(Used(data)) = capacity
    BY <1>4 DEF capacity
  <1>6. Cardinality(Used(data)) <= Ceiling(capacity)
    BY DEF TableInv, CountersFit, capacity
  <1>7. Ceiling(capacity) < capacity
    BY DEF Ample, Ceiling
  <1>8. capacity \in Int /\ Ceiling(capacity) \in Int
    <2>1. capacity \div 3 \in Int
      BY <1>1 DEF Counted
    <2>2. Cardinality(Threads) * (Full - 1) \in Nat
      BY NothingUnflushed, UnitsOf
    <2> QED BY <1>1, <2>1, <2>2 DEF Ceiling, Counted
  <1> QED BY <1>5, <1>6, <1>7, <1>8

-----------------------------------------------------------------------------
\* The invariant.
TInv == TableInv /\ HashInv /\ (program = "hash" /\ Ample => Running)

LEMMA InitTInv == Init => TInv
  <1> SUFFICES ASSUME Init PROVE TInv
    OBVIOUS
  <1>1. TableInv
    <2>1. PICK size \in Counted : data = [s \in 0 .. size - 1 |-> EMPTY]
      <3>1. TableSizes \subseteq Counted /\ {1} \subseteq Counted
        BY ElidedTableAssumption DEF Counted
      <3> QED BY <3>1 DEF Init, TableInit
    <2>2. inserts = 0 /\ insertsOf = NoSubcounts /\ deletes = 0 /\ deletesOf = NoSubcounts
      BY DEF Init, TableInit
    <2> QED BY <2>1, <2>2, EmptyTable DEF TableInv
  <1>2. HashInv
    BY InitCalls
  <1>3. Running
    BY DEF Init, CallsInit, Running, At
  <1> QED BY <1>1, <1>2, <1>3 DEF TInv

LEMMA HashWorkTInv ==
    ASSUME TInv, NEW t \in Threads, program = "hash", Running, HashWork(t)
    PROVE  TableInv' /\ CallsFit' /\ (Ample' => Running')
  <1>1. TableInv /\ CallsFit /\ pc \in [Threads -> HashPlaces]
    BY DEF TInv, HashInv, CallsFit
  <1>2. CallsFit'
    BY <1>1, HashWorkFits
  <1>3. ASSUME NEW l \in HashPlaces, l # "assert", pc' = [pc EXCEPT ![t] = l]
        PROVE  Running'
    BY <1>1, <1>3 DEF Running, At
  <1>4. ASSUME NEW o, Section(t, o) PROVE arg[t] \in Keys
    BY <1>1, <1>4 DEF Section, At, CallsFit
  <1>5. CASE TableExpand(t)
    <2>1. TableInv'
      BY <1>1, <1>5, ExpandStep DEF TableExpand
    <2>2. Running'
      BY <1>5 DEF TableExpand, callVars, Running, At
    <2> QED BY <1>2, <2>1, <2>2
  <1>6. CASE TableInsertFindsKey(t) \/ TableEraseFindsNone(t) \/ (Return(t) /\ UNCHANGED tableVars)
    <2>1. TableInv'
      <3>1. UNCHANGED tableVars
        BY <1>6 DEF TableInsertFindsKey, TableEraseFindsNone
      <3> QED BY <1>1, <3>1 DEF tableVars, counterVars, TableInv
    <2>2. \E l \in {"return", "idle"} : pc' = [pc EXCEPT ![t] = l]
      BY <1>6 DEF TableInsertFindsKey, TableEraseFindsNone, Return, Answer, Goto
    <2>3. Running'
      BY <1>3, <2>2 DEF HashPlaces
    <2> QED BY <1>2, <2>1, <2>3
  <1>7. CASE TableInsert(t)
    <2>1. arg[t] \in Keys
      BY <1>4, <1>7 DEF TableInsert, InsertLeavesOff
    <2>2. TableInv'
      BY <1>1, <1>7, <2>1, InsertStep
    <2>3. Running'
      BY <1>3, <1>7 DEF TableInsert, Answer, Goto, HashPlaces
    <2> QED BY <1>2, <2>2, <2>3
  <1>8. CASE TableErase(t)
    <2>1. arg[t] \in Keys
      BY <1>4, <1>8 DEF TableErase, EraseLeavesOff
    <2>2. TableInv'
      BY <1>1, <1>8, <2>1, EraseStep
    <2>3. Running'
      BY <1>3, <1>8 DEF TableErase, Answer, Goto, HashPlaces
    <2> QED BY <1>2, <2>2, <2>3
  <1>9. CASE TableAssertFails(t)
    <2>1. arg[t] \in Keys
      BY <1>4, <1>9 DEF TableAssertFails
    <2>2. ~Ample /\ data' = data
      BY <1>1, <1>9, <2>1, LoopsEnd DEF TableAssertFails, tableVars
    <2>3. TableInv'
      BY <1>1, <1>9 DEF TableAssertFails, tableVars, counterVars, TableInv
    <2>4. ~Ample'
      BY <2>2 DEF Ample, capacity
    <2> QED BY <1>2, <2>3, <2>4
  <1> QED BY <1>5, <1>6, <1>7, <1>8, <1>9 DEF HashWork, TableWork

LEMMA StartTInv ==
    ASSUME TInv, NEW t \in Threads, program = "hash", Running, Start(t)
    PROVE  TableInv' /\ CallsFit' /\ Running'
  <1>1. TableInv /\ CallsFit /\ pc \in [Threads -> HashPlaces]
    BY DEF TInv, HashInv, CallsFit
  <1>2. CallsFit' /\ pc' = [pc EXCEPT ![t] = "begin"] /\ UNCHANGED tableVars
    BY <1>1, StartFits
  <1>3. TableInv'
    BY <1>1, <1>2 DEF tableVars, counterVars, TableInv
  <1>4. Running'
    BY <1>1, <1>2 DEF Running, At
  <1> QED BY <1>2, <1>3, <1>4

LEMMA Moves ==
    ASSUME Next
    PROVE  \/ program = "hash" /\ \E t \in Threads : StartStep(t) \/ HashStep(t)
           \/ program # "hash" /\ program' = program /\ UNCHANGED tableVars
  <1>1. CASE program = "hash"
    BY <1>1 DEF Next, TreeStep, AvlStep, FreeStep
  <1>2. CASE program # "hash"
    <2>1. ASSUME NEW t \in Threads, StartStep(t) \/ TreeStep(t) \/ AvlStep(t)
          PROVE  program' = program /\ UNCHANGED tableVars
      BY <2>1 DEF StartStep, Start, TreeStep, TreesWork, AvlStep, Record
    <2>2. ASSUME NEW m \in Cells, FreeStep(m)
          PROVE  program' = program /\ UNCHANGED tableVars
      BY <2>2 DEF FreeStep, Record
    <2> QED BY <1>2, <2>1, <2>2 DEF Next, HashStep
  <1> QED BY <1>1, <1>2

LEMMA NextTInv == TInv /\ [Next]_vars => TInv'
  <1>1. ASSUME TInv, NEW t \in Threads, program = "hash", StartStep(t) \/ HashStep(t)
        PROVE  TInv'
    <2>1. TableInv' /\ CallsFit' /\ (Ample' => Running') /\ program' = program
      BY <1>1, StartTInv, HashWorkTInv DEF StartStep, HashStep, Record
    <2> QED BY <2>1 DEF TInv, HashInv
  <1>2. ASSUME TInv, program # "hash", program' = program, UNCHANGED tableVars
        PROVE  TInv'
    BY <1>2 DEF TInv, HashInv, TableInv, tableVars, counterVars
  <1>3. ASSUME TInv, UNCHANGED vars PROVE TInv'
    <2>1. UNCHANGED <<data, inserts, insertsOf, deletes, deletesOf, plan, pc, op, arg, res, program>>
      BY <1>3 DEF vars, callVars, tableVars, counterVars
    <2>2. TableInv' /\ HashInv'
      BY <1>3, <2>1 DEF TInv, TableInv, HashInv, CallsFit
    <2>3. (program = "hash" /\ Ample => Running)'
      BY <1>3, <2>1 DEF TInv, Ample, capacity, Running, At
    <2> QED BY <2>2, <2>3 DEF TInv
  <1> QED BY <1>1, <1>2, <1>3, Moves

\* The counters, which expand trusts for the new capacity, agree with the table, whatever the
\* threads, the keys, the hash function, the sizes and the calls.
THEOREM CountersAgreeAlways == Spec => []CountersAgree
  <1>1. TInv => CountersAgree
    BY InvCounts DEF TInv
  <1> QED BY <1>1, InitTInv, NextTInv, PTL DEF Spec

-----------------------------------------------------------------------------
\* The calls on the hash table are those of a set.
SeenInv == \A t \in Threads : Status[t] # "idle" => (arg[t] \in Contents) \in seen[t]

LEMMA SeenRecorded == ASSUME Record PROVE SeenInv'
  <1> SUFFICES ASSUME NEW t \in Threads, Status'[t] # "idle"
               PROVE  (arg'[t] \in Contents') \in seen'[t]
    BY DEF SeenInv
  <1>1. seen'[t] = Set!Observe(t)
    BY DEF Record
  <1> QED BY <1>1 DEF Set!Observe

LEMMA SeenStep == SeenInv /\ [Next]_vars => SeenInv'
  <1>1. ASSUME Next PROVE SeenInv'
    BY <1>1, SeenRecorded DEF Next, StartStep, HashStep, TreeStep, AvlStep, FreeStep
  <1>2. ASSUME SeenInv, UNCHANGED vars PROVE SeenInv'
    <2>1. Contents' = Contents /\ Status' = Status /\ arg' = arg /\ seen' = seen
      BY <1>2 DEF vars, callVars, tableVars, treeVars, nodeVars, avlVars, Contents, Status, Held,
                  AvlKeys, TreeKeys, isLeaf
    <2> QED BY <1>2, <2>1 DEF SeenInv
  <1> QED BY <1>1, <1>2

LEMMA InitSeen == Init => SeenInv
  BY DEF Init, CallsInit, SeenInv, Status

\* The set's moves.
SetMoves(t) == \/ Set!Invoke(t) \/ Set!Add(t) \/ Set!Remove(t)
               \/ Set!Decline(t) \/ Set!Confirm(t) \/ Set!Return(t)

LEMMA SetNext ==
    ASSUME Record,
           \/ \E t \in Threads : SetMoves(t)
           \/ Contents' = Contents /\ op' = op /\ arg' = arg /\ Status' = Status
    PROVE  Set!Next
  <1>1. seen' = [t \in Threads |-> Set!Observe(t)]
    BY DEF Record
  <1> QED BY <1>1 DEF Set!Next, SetMoves

LEMMA HashMoves ==
    ASSUME TInv, SeenInv, program = "hash", program' = program, NEW t \in Threads, HashWork(t)
    PROVE  SetMoves(t) \/ (Contents' = Contents /\ op' = op /\ arg' = arg /\ Status' = Status)
  <1>1. /\ TableInv /\ CallsFit /\ pc \in [Threads -> HashPlaces]
        /\ res \in [Threads -> {"pending", "true", "false"}]
    BY DEF TInv, HashInv, CallsFit
  <1>2. Contents = Held(data) /\ Contents' = Held(data)'
    BY DEF Contents
  <1>3. ASSUME NEW o, Section(t, o)
        PROVE  /\ arg[t] \in Keys /\ Status[t] = "pending" /\ op[t] = o /\ pc[t] = "begin"
               /\ (arg[t] \in Contents) \in seen[t]
    <2>1. pc[t] = "begin" /\ op[t] = o
      BY <1>3 DEF Section, At
    <2>2. arg[t] \in Keys /\ Status[t] = "pending"
      BY <1>1, <2>1 DEF CallsFit, Status
    <2> QED BY <2>1, <2>2 DEF SeenInv
  <1>4. ASSUME NEW r \in {"true", "false"}, Answer(t, r, "return"), pc[t] = "begin"
        PROVE  Status' = [Status EXCEPT ![t] = r] /\ op' = op /\ arg' = arg
    <2>1. res' = [res EXCEPT ![t] = r] /\ pc' = [pc EXCEPT ![t] = "return"] /\ op' = op /\ arg' = arg
      BY <1>4 DEF Answer, Goto
    <2>2. ASSUME NEW u \in Threads PROVE Status'[u] = IF u = t THEN r ELSE Status[u]
      BY <1>1, <2>1 DEF Status
    <2> QED BY <2>1, <2>2 DEF Status
  <1>5. CASE TableExpand(t)
    <2>1. Held(data)' = Held(data) /\ callVars' = callVars
      BY <1>1, <1>5, ExpandStep DEF TableExpand
    <2> QED BY <1>2, <2>1 DEF callVars, Status
  <1>6. CASE TableInsertFindsKey(t)
    <2>1. Section(t, "insert") /\ Answer(t, "false", "return") /\ data' = data
      BY <1>6 DEF TableInsertFindsKey, InsertLeavesOff, tableVars
    <2>2. arg[t] \in Held(data)
      BY <1>1, <1>3, <1>6, <2>1, Found
    <2>3. TRUE \in seen[t]
      BY <1>2, <1>3, <2>1, <2>2, Zenon
    <2>4. /\ Contents' = Contents /\ Status' = [Status EXCEPT ![t] = "false"] /\ op' = op /\ arg' = arg
          /\ Status[t] = "pending" /\ op[t] = "insert"
      BY <1>2, <1>3, <1>4, <2>1 DEF Held
    <2>5. Set!Decline(t)
      BY <2>3, <2>4 DEF Set!Decline
    <2> QED BY <2>5 DEF SetMoves
  <1>7. CASE TableInsert(t)
    <2>1. Section(t, "insert") /\ Answer(t, "true", "return")
      BY <1>7 DEF TableInsert, InsertLeavesOff
    <2>2. Held(data)' = Held(data) \cup {arg[t]} /\ arg[t] \notin Held(data)
      BY <1>1, <1>3, <1>7, <2>1, InsertStep
    <2>3. Set!Add(t)
      BY <1>2, <1>3, <1>4, <2>1, <2>2 DEF Set!Add
    <2> QED BY <2>3 DEF SetMoves
  <1>8. CASE TableEraseFindsNone(t)
    <2>1. Section(t, "erase") /\ Answer(t, "false", "return") /\ data' = data
      BY <1>8 DEF TableEraseFindsNone, EraseLeavesOff, tableVars
    <2>2. arg[t] \notin Held(data)
      BY <1>1, <1>3, <1>8, <2>1, Found
    <2>3. FALSE \in seen[t]
      <3>1. (arg[t] \in Contents) = FALSE
        BY <1>2, <2>2
      <3> QED BY <1>3, <2>1, <3>1
    <2>4. /\ Contents' = Contents /\ Status' = [Status EXCEPT ![t] = "false"] /\ op' = op /\ arg' = arg
          /\ Status[t] = "pending" /\ op[t] = "erase"
      BY <1>2, <1>3, <1>4, <2>1 DEF Held
    <2>5. Set!Decline(t)
      BY <2>3, <2>4 DEF Set!Decline
    <2> QED BY <2>5 DEF SetMoves
  <1>9. CASE TableErase(t)
    <2>1. Section(t, "erase") /\ Answer(t, "true", "return")
      BY <1>9 DEF TableErase, EraseLeavesOff
    <2>2. Held(data)' = Held(data) \ {arg[t]} /\ arg[t] \in Held(data)
      BY <1>1, <1>3, <1>9, <2>1, EraseStep
    <2>3. Set!Remove(t)
      BY <1>2, <1>3, <1>4, <2>1, <2>2 DEF Set!Remove
    <2> QED BY <2>3 DEF SetMoves
  <1>10. CASE TableAssertFails(t)
    <2>1. /\ pc[t] = "begin" /\ pc' = [pc EXCEPT ![t] = "assert"]
          /\ op' = op /\ arg' = arg /\ res' = res /\ data' = data
      BY <1>10 DEF TableAssertFails, Goto, tableVars, Section, At
    <2>2. \A u \in Threads : pc'[u] = "idle" <=> pc[u] = "idle"
      BY <1>1, <2>1
    <2> QED BY <1>2, <2>1, <2>2 DEF Status, Held
  <1>11. CASE Return(t) /\ UNCHANGED tableVars
    <2>1. /\ pc[t] = "return" /\ pc' = [pc EXCEPT ![t] = "idle"]
          /\ res' = [res EXCEPT ![t] = "pending"] /\ data' = data
          /\ op' = [op EXCEPT ![t] = "none"] /\ arg' = [arg EXCEPT ![t] = 0]
      BY <1>11 DEF Return, Goto, At, tableVars
    <2>2. Status[t] \in {"true", "false"}
      BY <1>1, <2>1 DEF CallsFit, Status
    <2>3. ASSUME NEW u \in Threads PROVE Status'[u] = IF u = t THEN "idle" ELSE Status[u]
      BY <1>1, <2>1 DEF Status
    <2>4. Status' = [Status EXCEPT ![t] = "idle"]
      BY <2>3 DEF Status
    <2>5. Set!Return(t)
      BY <1>2, <2>1, <2>2, <2>4 DEF Set!Return, Set!Answered, Held
    <2> QED BY <2>5 DEF SetMoves
  <1> QED BY <1>5, <1>6, <1>7, <1>8, <1>9, <1>10, <1>11 DEF HashWork, TableWork

LEMMA HashInvokes ==
    ASSUME TInv, program = "hash", program' = program, NEW t \in Threads, Start(t)
    PROVE  Set!Invoke(t)
  <1>1. /\ CallsFit /\ pc \in [Threads -> HashPlaces]
        /\ res \in [Threads -> {"pending", "true", "false"}]
    BY DEF TInv, HashInv, CallsFit
  <1>2. /\ pc[t] = "idle" /\ pc' = [pc EXCEPT ![t] = "begin"] /\ res' = res /\ data' = data
        /\ \E c \in Draws : op' = [op EXCEPT ![t] = c[1]] /\ arg' = [arg EXCEPT ![t] = c[2]]
    BY <1>1, StartFits DEF tableVars
  <1>3. Contents' = Contents
    BY <1>2 DEF Contents, Held
  <1>4. res[t] = "pending"
    BY <1>1, <1>2 DEF CallsFit
  <1>5. ASSUME NEW u \in Threads PROVE Status'[u] = IF u = t THEN "pending" ELSE Status[u]
    BY <1>1, <1>2, <1>4 DEF Status
  <1>6. Status' = [Status EXCEPT ![t] = "pending"] /\ Status[t] = "idle"
    BY <1>2, <1>5 DEF Status
  <1>7. \E o \in Set!Ops, k \in Keys : op' = [op EXCEPT ![t] = o] /\ arg' = [arg EXCEPT ![t] = k]
    <2>1. PICK c \in Draws : op' = [op EXCEPT ![t] = c[1]] /\ arg' = [arg EXCEPT ![t] = c[2]]
      BY <1>2
    <2>2. c[1] \in Set!Ops /\ c[2] \in Keys
      BY DEF Draws, Set!Ops
    <2> QED BY <2>1, <2>2
  <1> QED BY <1>3, <1>6, <1>7 DEF Set!Invoke

-----------------------------------------------------------------------------
\* The trees of tree.h and tree_prealloc_internal.h: their shape.
Inner == {m \in linked : ~isLeaf(m)} \cup {Root}
Outer == {m \in linked : isLeaf(m)} \cup {Low, High}
Tree == linked \cup {Root, Low, High}
Sides == {0, 1}
child(m, d) == IF d = 0 THEN left[m] ELSE right[m]

FieldsFit ==
    /\ key \in [Places -> Int]
    /\ left \in [Places -> Places \cup {NULL}] /\ right \in [Places -> Places \cup {NULL}]
    /\ linked \subseteq used /\ used \subseteq Addresses

Closed(S, k) == \A m \in S \cap Inner : Child(m, k) \in S
On(l, k) == \A S \in SUBSET Places : Root \in S /\ Closed(S, k) => l \in S

\* Every node but the root has one place below another, and every leaf with a key a grandparent.
Shape ==
    /\ \A m \in Inner, d \in Sides : child(m, d) \in Tree \ {Root}
    /\ \A m, o \in Inner, d, e \in Sides : child(m, d) = child(o, e) => m = o /\ d = e
    /\ \A m \in Outer, d \in Sides : child(m, d) = NULL
    /\ left[Root] = Low /\ right[Root] \in Inner \cup {High}

KeysInOrder ==
    /\ \A m \in linked : key[m] \in MinKey .. MaxKey + 1
    /\ \A m \in linked : isLeaf(m) => key[m] \in Keys
    /\ key[Root] = MinKey - 1 /\ key[Low] = MinKey - 1 /\ key[High] = MaxKey + 1

\* Without cycles, and in one piece.
Grounded == \A S \in SUBSET Inner : S # {} => \E m \in S : \A d \in Sides : child(m, d) \notin S
Open(S) == \E m \in S \cap Inner, d \in Sides : child(m, d) \notin S
Whole == \A S \in SUBSET Places : Root \in S /\ ~Open(S) => Tree \subseteq S

\* A search for a key greater than all gets to High, and, as long as the new internal nodes have
\* the right keys, a search for the key of a leaf gets there.
Routed == /\ On(High, MaxKey + 1)
          /\ ~prealloc => \A l \in Outer \ {Low} : On(l, key[l])

TreeFit == FieldsFit /\ Shape /\ KeysInOrder /\ Grounded /\ Whole /\ Routed

\* What a search for k has found.
Path(k, g, q, m) ==
    /\ m \in Tree /\ On(m, k)
    /\ IF q = NULL THEN m = Root ELSE q \in Inner /\ On(q, k) /\ Child(q, k) = m
    /\ IF q \in {NULL, Root} THEN g = NULL ELSE g \in Inner /\ Child(g, k) = q

-----------------------------------------------------------------------------
LEMMA AtMostThree == \A a, b, c : Cardinality({a, b, c}) # 4
  <1> SUFFICES ASSUME NEW a, NEW b, NEW c PROVE Cardinality({a, b, c}) # 4
    OBVIOUS
  <1>1. IsFiniteSet({a}) /\ Cardinality({a}) = 1
    BY FS_Singleton
  <1>2. IsFiniteSet({a} \cup {b}) /\ Cardinality({a} \cup {b}) \in {1, 2}
    BY <1>1, FS_AddElement
  <1>3. Cardinality(({a} \cup {b}) \cup {c}) \in {1, 2, 3}
    BY <1>2, FS_AddElement
  <1>4. {a, b, c} = ({a} \cup {b}) \cup {c}
    OBVIOUS
  <1> QED BY <1>3, <1>4

LEMMA Distinct ==
    /\ Root # Low /\ Root # High /\ Root # NULL /\ Low # High /\ Low # NULL /\ High # NULL
    /\ {Root, Low, High, NULL} \cap Addresses = {}
    /\ Places = Addresses \cup {Root, Low, High} /\ NULL \notin Places
    /\ Addresses \subseteq Nat /\ IsFiniteSet(Addresses)
  <1> DEFINE four == {Root, Low, High, NULL}
  <1>1. Cardinality(four) = 4
    BY ElidedTreeAssumption
  <1>2. /\ Root = Low => four = {Root, High, NULL}
        /\ Root = High => four = {Root, Low, NULL}
        /\ Root = NULL => four = {Root, Low, High}
        /\ Low = High => four = {Root, Low, NULL}
        /\ Low = NULL => four = {Root, Low, High}
        /\ High = NULL => four = {Root, Low, High}
    OBVIOUS
  <1>3. Root # Low /\ Root # High /\ Root # NULL /\ Low # High /\ Low # NULL /\ High # NULL
    BY <1>1, <1>2, AtMostThree
  <1> QED BY <1>3, ElidedTreeAssumption DEF Places

LEMMA KeyBounds ==
    /\ MinKey \in Nat /\ MaxKey \in Nat /\ MinKey - 1 \in Int /\ MaxKey + 1 \in Int
    /\ \A k \in Keys : k \in Int /\ MinKey - 1 < k /\ k < MaxKey + 1
    /\ MinKey - 1 < MaxKey + 1
  BY DrawnKeys DEF Keys

LEMMA Parts ==
    ASSUME FieldsFit, Shape
    PROVE  /\ Tree = Inner \cup Outer /\ Inner \cap Outer = {} /\ Tree \subseteq Places
           /\ Root \in Inner /\ Low \in Outer /\ High \in Outer /\ NULL \notin Tree
           /\ Inner \subseteq linked \cup {Root} /\ Outer \subseteq linked \cup {Low, High}
           /\ linked \subseteq Addresses /\ linked = Tree \ {Root, Low, High}
           /\ \A m \in Inner : ~isLeaf(m)
           /\ \A m \in Outer : isLeaf(m)
  <1>1. Root \in Inner /\ Low \in Outer /\ High \in Outer
    BY DEF Inner, Outer
  <1>2. ~isLeaf(Root)
    BY Distinct DEF Shape, isLeaf
  <1>3. isLeaf(Low) /\ isLeaf(High)
    BY <1>1 DEF Shape, isLeaf, child, Sides
  <1>4. linked \subseteq Addresses
    BY DEF FieldsFit
  <1> QED BY <1>1, <1>2, <1>3, <1>4, Distinct DEF Inner, Outer, Tree

LEMMA ChildSide == \A m, k : \E d \in Sides : Child(m, k) = child(m, d)
  BY DEF Child, child, Sides

-----------------------------------------------------------------------------
\* Ways.
LEMMA WayStarts == \A k : On(Root, k)
  BY DEF On

LEMMA WayGoesOn ==
    ASSUME NEW k, NEW m \in Inner, On(m, k)
    PROVE  On(Child(m, k), k)
  BY DEF On, Closed

\* A leaf that a search gets to is the only one.
LEMMA OneLeaf ==
    ASSUME FieldsFit, Shape, NEW k, NEW l \in Outer, NEW m \in Outer, On(l, k), On(m, k)
    PROVE  l = m
  <1> DEFINE Leads(x) == \A S \in SUBSET Places : x \in S /\ Closed(S, k) => l \in S
             T == {x \in Places : Leads(x)}
  <1>1. ASSUME NEW x \in T, x \in Inner PROVE Child(x, k) \in T
    <2>1. Child(x, k) \in Places
      BY <1>1, ChildSide, Parts DEF Shape
    <2>2. ASSUME NEW S \in SUBSET Places, Child(x, k) \in S, Closed(S, k) PROVE l \in S
      <3>1. S \cup {x} \in SUBSET Places /\ Closed(S \cup {x}, k)
        BY <2>2, <1>1 DEF Closed
      <3>2. l \in S \cup {x}
        BY <1>1, <3>1
      <3> QED BY <1>1, <3>2, Parts
    <2> QED BY <2>1, <2>2
  <1>2. T \in SUBSET Places /\ Closed(T, k) /\ Root \in T
    BY <1>1, Parts DEF Closed, On
  <1>3. m \in T
    BY <1>2 DEF On
  <1>4. {m} \in SUBSET Places /\ Closed({m}, k)
    BY Parts DEF Closed
  <1> QED BY <1>3, <1>4

\* It tells whether the set has the key.
LEMMA LeafTells ==
    ASSUME TreeFit, ~prealloc, NEW k \in Keys, NEW m \in Outer, On(m, k)
    PROVE  key[m] = k <=> k \in TreeKeys
  <1>1. FieldsFit /\ Shape /\ KeysInOrder /\ \A l \in Outer \ {Low} : On(l, key[l])
    BY DEF TreeFit, Routed
  <1>2. ASSUME key[m] = k PROVE k \in TreeKeys
    <2>1. m # Low /\ m # High
      BY <1>1, <1>2, KeyBounds DEF KeysInOrder
    <2> QED BY <1>2, <2>1 DEF TreeKeys, Outer
  <1>3. ASSUME NEW l \in linked, isLeaf(l), key[l] = k PROVE m = l
    <2>1. l \in Outer \ {Low}
      BY <1>1, <1>3, Parts DEF Outer
    <2> QED BY <1>1, <1>3, <2>1, OneLeaf
  <1> QED BY <1>2, <1>3 DEF TreeKeys

LEMMA PathStarts == ASSUME FieldsFit, Shape, NEW k PROVE Path(k, NULL, NULL, Root)
  BY WayStarts, Parts DEF Path

LEMMA PathGoesOn ==
    ASSUME FieldsFit, Shape, NEW k, NEW g, NEW q, NEW m, Path(k, g, q, m), m \in Inner
    PROVE  Path(k, q, m, Child(m, k))
  <1>1. Child(m, k) \in Tree \ {Root} /\ On(m, k) /\ m # NULL
    BY ChildSide, Parts DEF Shape, Path
  <1>2. On(Child(m, k), k)
    BY <1>1, WayGoesOn
  <1>3. CASE q = NULL
    BY <1>1, <1>2, <1>3 DEF Path
  <1>4. CASE q # NULL
    <2>1. q \in Inner /\ Child(q, k) = m
      BY <1>4 DEF Path
    <2>2. m # Root
      BY <2>1, ChildSide DEF Shape
    <2> QED BY <1>1, <1>2, <2>1, <2>2 DEF Path
  <1> QED BY <1>3, <1>4

LEMMA PathEnds ==
    ASSUME TreeFit, NEW k \in Keys, NEW g, NEW q, NEW m, Path(k, g, q, m), m \in Outer
    PROVE  /\ q \in Inner /\ On(q, k) /\ Child(q, k) = m /\ m # Low
           /\ m \in linked => q # Root /\ g \in Inner /\ Child(g, k) = q
  <1>0. FieldsFit /\ Shape /\ KeysInOrder
    BY DEF TreeFit
  <1>1. m # Root /\ q # NULL
    BY <1>0, Parts DEF Path
  <1>2. q \in Inner /\ On(q, k) /\ Child(q, k) = m
    BY <1>1 DEF Path
  <1>3. Child(Root, k) = right[Root]
    BY <1>0, KeyBounds DEF KeysInOrder, Child
  <1>4. q = Root => m = High
    BY <1>0, <1>2, <1>3, Parts DEF Shape
  <1>5. m # Low
    <2>1. PICK d \in Sides : Low = child(Root, d) /\ d = 0
      BY <1>0 DEF Shape, child, Sides
    <2>2. CASE q = Root
      BY <1>4, <2>2, Distinct
    <2>3. CASE q # Root
      BY <1>0, <1>2, <2>1, <2>3, ChildSide, Parts DEF Shape
    <2> QED BY <2>2, <2>3
  <1>6. m \in linked => q # Root
    BY <1>0, <1>4, Parts, Distinct
  <1> QED BY <1>1, <1>2, <1>5, <1>6 DEF Path

-----------------------------------------------------------------------------
\* Searches that nobody interferes with, and the nodes that can be reached.
LEMMA Least == \A S \in SUBSET Nat : S # {} => \E x \in S : \A y \in S : x <= y
  <1> SUFFICES ASSUME NEW S \in SUBSET Nat, S # {} PROVE \E x \in S : \A y \in S : x <= y
    OBVIOUS
  <1>1. PICK x \in S : \A y \in S : ~(<<y, x>> \in OpToRel(<, Nat))
    BY NatLessThanWellFounded, WFMin
  <1>2. \A y \in S : ~(y < x)
    BY <1>1 DEF OpToRel
  <1> QED BY <1>2

LEMMA DepthType ==
    /\ Depth \in Nat /\ Depth # 0
    /\ FieldsFit /\ Shape => IsFiniteSet(Inner) /\ Cardinality(Inner) <= Depth
  <1>1. IsFiniteSet(Addresses) /\ Cardinality(Addresses) \in Nat
    BY Distinct, FS_CardinalityType
  <1>2. /\ IsFiniteSet(Addresses \cup {Root})
        /\ Cardinality(Addresses \cup {Root}) = Cardinality(Addresses) + 1
    BY <1>1, Distinct, FS_AddElement
  <1>3. FieldsFit /\ Shape => Inner \in SUBSET (Addresses \cup {Root})
    BY Parts
  <1>4. FieldsFit /\ Shape =>
            IsFiniteSet(Inner) /\ Cardinality(Inner) <= Cardinality(Addresses \cup {Root})
    BY <1>2, <1>3, FS_Subset
  <1> QED BY <1>1, <1>2, <1>4 DEF Depth

Deeper(k) == [rec \in SearchRecords |->
                 IF isLeaf(rec[3]) THEN rec ELSE <<rec[2], rec[3], Child(rec[3], k)>>]

First == <<NULL, NULL, Root>>
After(k, rec) == Deeper(k)[rec]
IsWalk(walk, k, j) == walk = [i \in 0 .. j |-> IF i = 0 THEN First ELSE After(k, walk[i - 1])]

LEMMA WalkExists == ASSUME NEW k, NEW j \in Nat PROVE \E walk : IsWalk(walk, k, j)
  <1> DEFINE Bad == {i \in Nat : ~\E walk : IsWalk(walk, k, i)}
  <1> SUFFICES ASSUME Bad # {} PROVE FALSE
    OBVIOUS
  <1>1. PICK x \in Bad : \A y \in Bad : x <= y
    BY Least
  <1>2. x # 0
    <2> DEFINE walk == [i \in 0 .. 0 |-> First]
    <2>1. IsWalk(walk, k, 0)
      BY DEF IsWalk
    <2> QED BY <1>1, <2>1
  <1>3. x \in Nat /\ x - 1 \in Nat /\ x - 1 \notin Bad
    BY <1>1, <1>2
  <1>4. PICK v : IsWalk(v, k, x - 1)
    BY <1>3
  <1> DEFINE walk == [i \in 0 .. x |-> IF i = 0 THEN First ELSE After(k, v[i - 1])]
  <1>5. \A i \in 0 .. x - 1 : walk[i] = v[i]
    BY <1>3, <1>4 DEF IsWalk
  <1>6. \A i \in 0 .. x : i # 0 => walk[i - 1] = v[i - 1]
    BY <1>3, <1>5
  <1>7. walk = [i \in 0 .. x |-> IF i = 0 THEN First ELSE After(k, walk[i - 1])]
    BY <1>6
  <1> HIDE DEF walk
  <1>8. IsWalk(walk, k, x)
    BY <1>7 DEF IsWalk
  <1> QED BY <1>1, <1>8

WalkOf(k) == CHOOSE walk : IsWalk(walk, k, Depth)

LEMMA WalkSteps ==
    ASSUME NEW k
    PROVE  /\ Search(k) = WalkOf(k)[Depth] /\ WalkOf(k)[0] = <<NULL, NULL, Root>>
           /\ \A i \in 0 .. Depth : i # 0 => WalkOf(k)[i] = Deeper(k)[WalkOf(k)[i - 1]]
  <1>1. Search(k) = WalkOf(k)[Depth]
    BY DEF Search, WalkOf, IsWalk, Deeper, First, After
  <1>2. IsWalk(WalkOf(k), k, Depth)
    BY WalkExists, DepthType DEF WalkOf
  <1> DEFINE walk == WalkOf(k)
  <1> HIDE DEF walk
  <1>3. walk = [i \in 0 .. Depth |-> IF i = 0 THEN First ELSE After(k, walk[i - 1])]
    BY <1>2 DEF IsWalk, walk
  <1>4. /\ walk[0] = First
        /\ \A i \in 0 .. Depth : i # 0 => walk[i] = After(k, walk[i - 1])
    BY <1>3, DepthType
  <1> QED BY <1>1, <1>4 DEF walk, First, After

LEMMA PathRecord ==
    ASSUME FieldsFit, Shape, NEW k, NEW g, NEW q, NEW m, Path(k, g, q, m)
    PROVE  <<g, q, m>> \in SearchRecords
  <1>1. m \in Places /\ q \in Places \cup {NULL} /\ g \in Places \cup {NULL}
    BY Parts DEF Path
  <1> QED BY <1>1 DEF SearchRecords

LEMMA WalkOnPath ==
    ASSUME FieldsFit, Shape, NEW k, NEW j \in 0 .. Depth
    PROVE  LET rec == WalkOf(k)[j]
           IN  rec = <<rec[1], rec[2], rec[3]>> /\ Path(k, rec[1], rec[2], rec[3])
  <1> DEFINE walk == WalkOf(k)
             Good(rec) == rec = <<rec[1], rec[2], rec[3]>> /\ Path(k, rec[1], rec[2], rec[3])
             Bad == {i \in 0 .. Depth : ~Good(walk[i])}
  <1> SUFFICES ASSUME Bad # {} PROVE FALSE
    OBVIOUS
  <1>1. PICK x \in Bad : \A y \in Bad : x <= y
    <2>1. Bad \in SUBSET Nat
      BY DepthType
    <2> HIDE DEF Bad
    <2> QED BY <2>1, Least
  <1>2. x # 0
    <2>1. Good(<<NULL, NULL, Root>>)
      BY PathStarts
    <2> QED BY <1>1, <2>1, WalkSteps
  <1>3. x - 1 \in 0 .. Depth /\ x - 1 \notin Bad /\ x \in 0 .. Depth
    BY <1>1, <1>2, DepthType
  <1>4. PICK g, q, m : walk[x - 1] = <<g, q, m>> /\ Path(k, g, q, m)
    BY <1>3
  <1>5. walk[x] = Deeper(k)[<<g, q, m>>]
    BY <1>2, <1>3, <1>4, WalkSteps
  <1>6. walk[x] = IF isLeaf(m) THEN <<g, q, m>> ELSE <<q, m, Child(m, k)>>
    BY <1>4, <1>5, PathRecord DEF Deeper
  <1>7. CASE isLeaf(m)
    BY <1>1, <1>4, <1>6, <1>7
  <1>8. CASE ~isLeaf(m)
    <2>1. m \in Inner
      BY <1>4, <1>8, Parts DEF Path
    <2>2. Path(k, q, m, Child(m, k))
      BY <1>4, <2>1, PathGoesOn
    <2> QED BY <1>1, <1>6, <1>8, <2>2
  <1> QED BY <1>7, <1>8

LEMMA WalkEnds ==
    ASSUME FieldsFit, Shape, Grounded, NEW k
    PROVE  Search(k)[3] \in Outer
  <1> DEFINE walk == WalkOf(k)
             v(i) == walk[i][3]
  <1>0. /\ Search(k) = walk[Depth] /\ Depth \in 0 .. Depth
        /\ \A i \in 0 .. Depth : v(i) \in Tree /\ walk[i] = <<walk[i][1], walk[i][2], v(i)>> /\ walk[i] \in SearchRecords
    <2>1. ASSUME NEW i \in 0 .. Depth
          PROVE  v(i) \in Tree /\ walk[i] = <<walk[i][1], walk[i][2], v(i)>> /\ walk[i] \in SearchRecords
      <3>1. walk[i] = <<walk[i][1], walk[i][2], v(i)>> /\ Path(k, walk[i][1], walk[i][2], v(i))
        BY WalkOnPath
      <3>2. <<walk[i][1], walk[i][2], v(i)>> \in SearchRecords
        BY <3>1, PathRecord
      <3>3. v(i) \in Tree
        BY <3>1 DEF Path
      <3> QED BY <3>1, <3>2, <3>3
    <2> QED BY <2>1, DepthType, WalkSteps
  <1> SUFFICES ASSUME ~isLeaf(v(Depth)) PROVE FALSE
    BY <1>0, Parts
  <1>1. \A i \in 0 .. Depth : i # 0 =>
            walk[i] = IF isLeaf(v(i - 1)) THEN walk[i - 1] ELSE <<walk[i - 1][2], v(i - 1), Child(v(i - 1), k)>>
    <2> SUFFICES ASSUME NEW i \in 0 .. Depth, i # 0
                 PROVE  walk[i] = IF isLeaf(v(i - 1)) THEN walk[i - 1]
                               ELSE <<walk[i - 1][2], v(i - 1), Child(v(i - 1), k)>>
      OBVIOUS
    <2>1. i - 1 \in 0 .. Depth
      BY DepthType
    <2>2. walk[i] = Deeper(k)[walk[i - 1]]
      BY WalkSteps
    <2> QED BY <1>0, <2>1, <2>2 DEF Deeper
  <1> HIDE DEF walk
  <1>2. \A i \in 0 .. Depth : v(i) \in Inner
    <2> DEFINE Bad == {d \in 0 .. Depth : isLeaf(v(Depth - d))}
    <2> SUFFICES ASSUME Bad # {} PROVE FALSE
      <3> SUFFICES ASSUME NEW i \in 0 .. Depth PROVE v(i) \in Inner
        OBVIOUS
      <3>1. Depth - i \in 0 .. Depth /\ Depth - (Depth - i) = i
        BY DepthType
      <3>2. ~isLeaf(v(i))
        BY <3>1
      <3> QED BY <1>0, <3>2, Parts
    <2>1. PICK x \in Bad : \A y \in Bad : x <= y
      <3>1. Bad \in SUBSET Nat
        BY DepthType
      <3> HIDE DEF Bad
      <3> QED BY <3>1, Least
    <2>2. x # 0
      BY <2>1, DepthType
    <2>3. /\ Depth - x \in 0 .. Depth /\ Depth - (x - 1) \in 0 .. Depth /\ Depth - (x - 1) # 0
          /\ (Depth - (x - 1)) - 1 = Depth - x /\ x - 1 \in 0 .. Depth /\ ~(x <= x - 1)
      BY <2>1, <2>2, DepthType
    <2>4. walk[Depth - (x - 1)] = walk[Depth - x]
      BY <1>1, <2>1, <2>3
    <2> QED BY <2>1, <2>3, <2>4
  <1>3. \A i \in 0 .. Depth : i # 0 => v(i) = Child(v(i - 1), k)
    <2> SUFFICES ASSUME NEW i \in 0 .. Depth, i # 0 PROVE v(i) = Child(v(i - 1), k)
      OBVIOUS
    <2>1. i - 1 \in 0 .. Depth
      BY DepthType
    <2>2. ~isLeaf(v(i - 1))
      BY <1>2, <2>1, Parts
    <2>3. walk[i] = <<walk[i - 1][2], v(i - 1), Child(v(i - 1), k)>>
      BY <1>1, <2>2
    <2> QED BY <2>3
  <1> HIDE DEF v
  <1>4. PICK a \in 0 .. Depth, b \in 0 .. Depth : a # b /\ v(a) = v(b)
    <2> DEFINE f == [i \in 0 .. Depth |-> v(i)]
    <2>1. f \in [0 .. Depth -> Inner]
      BY <1>2
    <2>2. IsFiniteSet(0 .. Depth) /\ Cardinality(0 .. Depth) = Depth + 1
      BY FS_Interval, DepthType
    <2>3. IsFiniteSet(Inner) /\ Cardinality(Inner) < Depth + 1
      <3>1. IsFiniteSet(Inner) /\ Cardinality(Inner) <= Depth /\ Depth \in Nat
        BY DepthType
      <3>2. Cardinality(Inner) \in Nat
        BY <3>1, FS_CardinalityType
      <3> QED BY <3>1, <3>2
    <2>4. PICK a \in 0 .. Depth, b \in 0 .. Depth : a # b /\ f[a] = f[b]
      <3> HIDE DEF f
      <3> QED BY <2>1, <2>2, <2>3, FS_PigeonHole
    <2> QED BY <2>4
  <1>5. ASSUME NEW c \in 0 .. Depth, NEW e \in 0 .. Depth, c < e, v(c) = v(e) PROVE FALSE
    <2> DEFINE S == {v(i) : i \in c .. e - 1}
    <2>1. c \in c .. e - 1 /\ \A i \in c .. e - 1 : i \in 0 .. Depth /\ i + 1 \in 0 .. Depth /\ i + 1 # 0
      BY <1>5, DepthType
    <2>2. S \in SUBSET Inner /\ S # {}
      BY <1>2, <2>1
    <2>3. PICK m \in S : \A d \in Sides : child(m, d) \notin S
      BY <2>2 DEF Grounded
    <2>4. PICK i \in c .. e - 1 : m = v(i)
      BY <2>3
    <2>5. v(i + 1) = Child(m, k)
      <3>1. (i + 1) - 1 = i
        BY <1>5
      <3> QED BY <1>3, <2>1, <2>4, <3>1
    <2>6. v(i + 1) \in S
      <3>1. CASE i + 1 = e
        BY <1>5, <2>1, <3>1
      <3>2. CASE i + 1 # e
        <4>1. i + 1 \in c .. e - 1
          BY <1>5, <3>2
        <4> QED BY <4>1
      <3> QED BY <3>1, <3>2
    <2> QED BY <2>3, <2>5, <2>6, ChildSide
  <1>6. a < b \/ b < a
    BY <1>4, DepthType
  <1> QED BY <1>4, <1>5, <1>6

LEMMA SearchFinds ==
    ASSUME TreeFit, NEW k
    PROVE  Search(k)[3] \in Outer /\ Path(k, Search(k)[1], Search(k)[2], Search(k)[3])
  <1>1. FieldsFit /\ Shape /\ Grounded
    BY DEF TreeFit
  <1>2. Depth \in 0 .. Depth
    BY DepthType
  <1> QED BY <1>1, <1>2, WalkSteps, WalkEnds, WalkOnPath

OnlyRoot == {Root}
IsSpread(ms, j) == ms = [i \in 0 .. j |-> IF i = 0 THEN OnlyRoot ELSE AndChildren(ms[i - 1])]

LEMMA SpreadExists == ASSUME NEW j \in Nat PROVE \E ms : IsSpread(ms, j)
  <1> DEFINE Bad == {i \in Nat : ~\E ms : IsSpread(ms, i)}
  <1> SUFFICES ASSUME Bad # {} PROVE FALSE
    OBVIOUS
  <1>1. PICK x \in Bad : \A y \in Bad : x <= y
    BY Least
  <1>2. x # 0
    <2> DEFINE ms == [i \in 0 .. 0 |-> OnlyRoot]
    <2>1. IsSpread(ms, 0)
      BY DEF IsSpread
    <2> QED BY <1>1, <2>1
  <1>3. x \in Nat /\ x - 1 \in Nat /\ x - 1 \notin Bad
    BY <1>1, <1>2
  <1>4. PICK v : IsSpread(v, x - 1)
    BY <1>3
  <1> DEFINE ms == [i \in 0 .. x |-> IF i = 0 THEN OnlyRoot ELSE AndChildren(v[i - 1])]
  <1>5. \A i \in 0 .. x - 1 : ms[i] = v[i]
    BY <1>3, <1>4 DEF IsSpread
  <1>6. \A i \in 0 .. x : i # 0 => ms[i - 1] = v[i - 1]
    BY <1>3, <1>5
  <1>7. ms = [i \in 0 .. x |-> IF i = 0 THEN OnlyRoot ELSE AndChildren(ms[i - 1])]
    BY <1>6
  <1> HIDE DEF ms
  <1>8. IsSpread(ms, x)
    BY <1>7 DEF IsSpread
  <1> QED BY <1>1, <1>8

Spread == CHOOSE ms : IsSpread(ms, Depth)

LEMMA SpreadSteps ==
    /\ Reachable = Spread[Depth] /\ Spread[0] = {Root}
    /\ \A i \in 0 .. Depth : i # 0 => Spread[i] = AndChildren(Spread[i - 1])
  <1>1. Reachable = Spread[Depth]
    BY DEF Reachable, Spread, IsSpread, OnlyRoot
  <1>2. IsSpread(Spread, Depth)
    BY SpreadExists, DepthType DEF Spread
  <1> DEFINE ms == Spread
  <1> HIDE DEF ms
  <1>3. ms = [i \in 0 .. Depth |-> IF i = 0 THEN OnlyRoot ELSE AndChildren(ms[i - 1])]
    BY <1>2 DEF IsSpread, ms
  <1>4. ms[0] = OnlyRoot /\ \A i \in 0 .. Depth : i # 0 => ms[i] = AndChildren(ms[i - 1])
    BY <1>3, DepthType
  <1> QED BY <1>1, <1>4 DEF ms, OnlyRoot

LEMMA WithChildren ==
    ASSUME FieldsFit, Shape, NEW ms \in SUBSET Tree, Root \in ms
    PROVE  /\ AndChildren(ms) \in SUBSET Tree /\ ms \subseteq AndChildren(ms)
           /\ \A m \in ms \cap Inner, d \in Sides : child(m, d) \in AndChildren(ms)
           /\ ~Open(ms) => AndChildren(ms) = ms
  <1>1. AndChildren(ms) = (ms \cup {child(m, d) : m \in ms, d \in Sides}) \ {NULL}
    BY DEF AndChildren, child, Sides
  <1>2. ASSUME NEW m \in ms, NEW d \in Sides
        PROVE  IF m \in Inner THEN child(m, d) \in Tree ELSE child(m, d) = NULL
    BY Parts DEF Shape
  <1> QED BY <1>1, <1>2, Parts DEF Open

\* Each step that does not come to an end finds an inner node more.
LEMMA SpreadGoesOn ==
    ASSUME FieldsFit, Shape, NEW j \in 0 .. Depth
    PROVE  /\ Spread[j] \in SUBSET Tree /\ Root \in Spread[j]
           /\ ~Open(Spread[j]) \/ Cardinality(Spread[j] \cap Inner) >= j + 1
  <1> DEFINE Good(i, ms) == /\ ms \in SUBSET Tree /\ Root \in ms
                            /\ ~Open(ms) \/ Cardinality(ms \cap Inner) >= i + 1
             Bad == {i \in 0 .. Depth : ~Good(i, Spread[i])}
  <1> SUFFICES ASSUME Bad # {} PROVE FALSE
    OBVIOUS
  <1>1. PICK x \in Bad : \A y \in Bad : x <= y
    <2>1. Bad \in SUBSET Nat
      BY DepthType
    <2> HIDE DEF Bad
    <2> QED BY <2>1, Least
  <1>2. x # 0
    <2>1. {Root} \cap Inner = {Root} /\ {Root} \in SUBSET Tree
      BY Parts
    <2>2. Cardinality({Root} \cap Inner) = 1
      BY <2>1, FS_Singleton
    <2>3. Good(0, {Root})
      BY <2>1, <2>2
    <2> QED BY <1>1, <2>3, SpreadSteps
  <1>3. x - 1 \in 0 .. Depth /\ x - 1 \notin Bad /\ x \in 0 .. Depth
    <2>1. x \in 0 .. Depth
      BY <1>1
    <2>2. x - 1 \in 0 .. Depth /\ ~(x <= x - 1)
      BY <1>2, <2>1, DepthType
    <2> HIDE DEF Bad
    <2> QED BY <1>1, <2>1, <2>2
  <1> DEFINE ms == Spread[x - 1]
             more == Spread[x]
  <1>4. /\ ms \in SUBSET Tree /\ Root \in ms /\ more = AndChildren(ms)
        /\ ~Open(ms) \/ Cardinality(ms \cap Inner) >= x
    BY <1>2, <1>3, DepthType, SpreadSteps
  <1>5. ~Good(x, more)
    BY <1>1
  <1> HIDE DEF ms, more
  <1>6. /\ more \in SUBSET Tree /\ ms \subseteq more
        /\ \A m \in ms \cap Inner, d \in Sides : child(m, d) \in more
        /\ ~Open(ms) => more = ms
    BY <1>4, WithChildren
  <1>7. Open(more) /\ Open(ms)
    BY <1>4, <1>5, <1>6
  <1>8. PICK m \in more \cap Inner, d \in Sides : child(m, d) \notin more
    BY <1>7 DEF Open
  <1>9. m \notin ms
    BY <1>6, <1>8
  <1>10. IsFiniteSet(more \cap Inner) /\ IsFiniteSet(ms \cap Inner)
    <2>1. IsFiniteSet(Inner)
      BY DepthType
    <2> QED BY <2>1, FS_Subset
  <1>11. Cardinality((ms \cap Inner) \cup {m}) = Cardinality(ms \cap Inner) + 1
    BY <1>9, <1>10, FS_AddElement
  <1>12. Cardinality((ms \cap Inner) \cup {m}) <= Cardinality(more \cap Inner)
    <2>1. (ms \cap Inner) \cup {m} \in SUBSET (more \cap Inner)
      BY <1>6, <1>8
    <2> QED BY <1>10, <2>1, FS_Subset
  <1>13. Cardinality(ms \cap Inner) \in Nat /\ Cardinality(more \cap Inner) \in Nat
    BY <1>10, FS_CardinalityType
  <1>14. Cardinality(more \cap Inner) >= x + 1
    BY <1>3, <1>4, <1>7, <1>11, <1>12, <1>13
  <1> QED BY <1>4, <1>5, <1>6, <1>14

LEMMA TreeIsReached == TreeFit => Reachable = Tree
  <1> SUFFICES ASSUME TreeFit PROVE Reachable = Tree
    OBVIOUS
  <1>1. FieldsFit /\ Shape /\ Whole
    BY DEF TreeFit
  <1>2. Depth \in 0 .. Depth /\ Depth \in Nat
    BY DepthType
  <1>3. /\ Reachable \in SUBSET Tree /\ Root \in Reachable
        /\ ~Open(Reachable) \/ Cardinality(Reachable \cap Inner) >= Depth + 1
    BY <1>1, <1>2, SpreadSteps, SpreadGoesOn
  <1>4. IsFiniteSet(Inner) /\ Cardinality(Inner) <= Depth
    BY <1>1, DepthType
  <1>5. Cardinality(Reachable \cap Inner) <= Cardinality(Inner)
    <2>1. Reachable \cap Inner \in SUBSET Inner
      OBVIOUS
    <2> QED BY <1>4, <2>1, FS_Subset
  <1>6. Cardinality(Reachable \cap Inner) \in Nat /\ Cardinality(Inner) \in Nat
    <2>1. IsFiniteSet(Reachable \cap Inner)
      BY <1>4, FS_Subset
    <2> QED BY <1>4, <2>1, FS_CardinalityType
  <1>7. ~Open(Reachable)
    BY <1>2, <1>3, <1>4, <1>5, <1>6
  <1>8. Reachable \in SUBSET Places
    BY <1>1, <1>3, Parts
  <1> QED BY <1>1, <1>3, <1>7, <1>8 DEF Whole

-----------------------------------------------------------------------------
\* The allocator returns two addresses that are not in use, if there are any.
LEMMA FreshPair ==
    ASSUME Cardinality(Unused) >= 2
    PROVE  Fresh[1] \in Unused /\ Fresh[2] \in Unused /\ Fresh[1] # Fresh[2]
  <1> DEFINE free == Unused
  <1>1. free \in SUBSET Nat /\ IsFiniteSet(free)
    BY Distinct, FS_Difference, FS_Subset DEF Unused
  <1>2. PICK a \in free : \A m \in free : a <= m
    <2>1. free # {}
      BY FS_EmptySet
    <2> HIDE DEF free
    <2> QED BY <1>1, <2>1, Least
  <1>3. PICK b \in free \ {a} : \A m \in free \ {a} : b <= m
    <2>1. free \ {a} # {}
      <3>1. ASSUME free = {a} PROVE FALSE
        <4>1. Cardinality(free) >= 2
          OBVIOUS
        <4>2. Cardinality({a}) = 1
          BY FS_Singleton
        <4> HIDE DEF free
        <4> QED BY <3>1, <4>1, <4>2
      <3> QED BY <1>2, <3>1
    <2>2. free \ {a} \in SUBSET Nat
      BY <1>1
    <2> HIDE DEF free
    <2> QED BY <2>1, <2>2, Least
  <1>4. \E two \in free \X free :
            /\ \A m \in free : two[1] <= m
            /\ two[1] # two[2] /\ \A m \in free : m # two[1] => two[2] <= m
    <2> DEFINE two == <<a, b>>
    <2>1. two \in free \X free /\ two[1] = a /\ two[2] = b
      BY <1>2, <1>3
    <2> HIDE DEF free
    <2> QED BY <1>2, <1>3, <2>1
  <1>5. /\ Fresh \in free \X free /\ Fresh[1] # Fresh[2]
    BY <1>4 DEF Fresh
  <1> QED BY <1>5

-----------------------------------------------------------------------------
\* What an insert and an erase do to the tree.

\* An insert of the prealloc tree that has not said yes has two nodes of its own, and nobody else has.
Bringing(t) == prealloc /\ op[t] = "insert" /\ res[t] # "true"

NewFit ==
    /\ newLeaf \in [Threads -> Addresses \cup {NULL}]
    /\ newInternal \in [Threads -> Addresses \cup {NULL}]
    /\ lost \subseteq Addresses \ used /\ (~prealloc => lost = {})
    /\ \A t \in Threads :
          /\ IF Bringing(t) THEN newLeaf[t] # NULL /\ newInternal[t] # NULL /\ newLeaf[t] # newInternal[t]
                            ELSE newLeaf[t] = NULL /\ newInternal[t] = NULL
          /\ Brought(t) \cap (used \cup lost) = {}
          /\ \A u \in Threads \ {t} : Brought(t) \cap Brought(u) = {}

\* The two nodes that t links: its own, or those that the allocator returns.
Nodes(t, l, i) ==
    /\ l = IF prealloc THEN newLeaf[t] ELSE Fresh[1]
    /\ i = IF prealloc THEN newInternal[t] ELSE Fresh[2]

LEMMA NodesNew ==
    ASSUME NewFit, NEW t \in Threads, prealloc => Bringing(t), ~prealloc => Cardinality(Unused) >= 2,
           NEW l, NEW i, Nodes(t, l, i)
    PROVE  /\ l \in Addresses \ (used \cup lost) /\ i \in Addresses \ (used \cup lost) /\ l # i
           /\ \A u \in Threads \ {t} : l \notin Brought(u) /\ i \notin Brought(u)
  <1>1. CASE prealloc
    <2>1. l = newLeaf[t] /\ i = newInternal[t]
      BY <1>1 DEF Nodes
    <2>2. /\ l # NULL /\ i # NULL /\ l # i /\ l \in Addresses /\ i \in Addresses
          /\ Brought(t) \cap (used \cup lost) = {}
          /\ \A u \in Threads \ {t} : Brought(t) \cap Brought(u) = {}
      BY <1>1, <2>1 DEF NewFit
    <2>3. Brought(t) = {l, i}
      BY <2>1, <2>2 DEF Brought
    <2> QED BY <2>2, <2>3
  <1>2. CASE ~prealloc
    <2>1. l = Fresh[1] /\ i = Fresh[2]
      BY <1>2 DEF Nodes
    <2>2. l \in Unused /\ i \in Unused /\ l # i
      BY <1>2, <2>1, FreshPair
    <2> QED BY <2>2 DEF Unused
  <1> QED BY <1>1, <1>2

\* The new leaf l and the new internal node i take the place of m below q.
Grows(k, q, m, l, i) ==
    /\ q \in Inner /\ m \in Outer \ {Low} /\ Child(q, k) = m /\ On(q, k) /\ k \in Keys /\ key[m] # k
    /\ l \in Addresses \ used /\ i \in Addresses \ used /\ l # i
    /\ used' = used \cup {l, i} /\ linked' = linked \cup {l, i}
    /\ Inner' = Inner \cup {i} /\ Outer' = Outer \cup {l}
    /\ key' \in [Places -> Int]
    /\ left' \in [Places -> Places \cup {NULL}] /\ right' \in [Places -> Places \cup {NULL}]
    /\ \A x \in Places \ {l, i} : key'[x] = key[x]
    /\ key'[l] = k /\ key'[i] = InternalKey(k, key[m])
    /\ \A x \in Places \ {q, l, i} : left'[x] = left[x] /\ right'[x] = right[x]
    /\ \A d \in Sides : child(q, d)' = IF child(q, d) = m THEN i ELSE child(q, d)
    /\ left'[l] = NULL /\ right'[l] = NULL
    /\ IF k < key[m] THEN left'[i] = l /\ right'[i] = m ELSE left'[i] = m /\ right'[i] = l

\* A node's two places are different.
LEMMA TwoChildren == ASSUME Shape, NEW m \in Inner PROVE left[m] # right[m]
  <1>1. left[m] = child(m, 0) /\ right[m] = child(m, 1) /\ 0 \in Sides /\ 1 \in Sides
    BY DEF child, Sides
  <1> QED BY <1>1 DEF Shape

LEMMA LinkGrows ==
    ASSUME TreeFit, NewFit, NEW t \in Threads, prealloc => Bringing(t),
           NEW k \in Keys, NEW g, NEW q, NEW m, Path(k, g, q, m), m \in Outer,
           key[m] # k, Link(t, k, q, m)
    PROVE  \E l, i \in Addresses : Grows(k, q, m, l, i)
  <1>0. FieldsFit /\ Shape
    BY DEF TreeFit
  <1>1. PICK l, i : Nodes(t, l, i)
    BY DEF Nodes
  <1>2. l \in Addresses \ used /\ i \in Addresses \ used /\ l # i
    <2>1. ~prealloc => Cardinality(Unused) >= 2
      BY DEF Link
    <2> QED BY <1>1, <2>1, NodesNew
  <1>3. /\ used' = used \cup {l, i} /\ linked' = linked \cup {l, i}
        /\ key' = [key EXCEPT ![l] = k, ![i] = InternalKey(k, key[m])]
        /\ left' = [left EXCEPT ![l] = NULL, ![i] = IF k < key[m] THEN l ELSE m,
                                ![q] = IF left[q] = m THEN i ELSE @]
        /\ right' = [right EXCEPT ![l] = NULL, ![i] = IF k < key[m] THEN m ELSE l,
                                  ![q] = IF left[q] = m THEN @ ELSE i]
    BY <1>1 DEF Link, Nodes
  <1>4. /\ q \in Inner /\ m \in Outer \ {Low} /\ Child(q, k) = m /\ On(q, k)
    BY PathEnds
  <1>5. /\ q \in Places /\ m \in Places /\ l \in Places /\ i \in Places /\ i # NULL /\ m # NULL
        /\ l # NULL /\ l \notin Tree /\ i \notin Tree /\ q # l /\ q # i /\ m # i /\ m # l
    <2>1. l \notin linked /\ i \notin linked
      BY <1>0, <1>2 DEF FieldsFit
    <2>2. l \notin Tree /\ i \notin Tree
      BY <1>2, <2>1, Distinct DEF Tree
    <2>3. q \in Tree /\ m \in Tree
      BY <1>0, <1>4, Parts
    <2> QED BY <1>0, <1>2, <2>2, <2>3, Parts, Distinct
  <1>6. k \in Int /\ key[m] \in Int /\ InternalKey(k, key[m]) \in Int
    BY <1>0, <1>5, KeyBounds DEF FieldsFit, InternalKey
  <1>7. /\ key' \in [Places -> Int] /\ key'[l] = k /\ key'[i] = InternalKey(k, key[m])
        /\ \A x \in Places \ {l, i} : key'[x] = key[x]
    BY <1>0, <1>2, <1>3, <1>5, <1>6 DEF FieldsFit
  <1>8. /\ left' \in [Places -> Places \cup {NULL}]
        /\ \A x \in Places \ {q, l, i} : left'[x] = left[x]
        /\ left'[l] = NULL /\ left'[i] = (IF k < key[m] THEN l ELSE m)
        /\ left'[q] = (IF left[q] = m THEN i ELSE left[q])
    BY <1>0, <1>2, <1>3, <1>5 DEF FieldsFit
  <1>9. /\ right' \in [Places -> Places \cup {NULL}]
        /\ \A x \in Places \ {q, l, i} : right'[x] = right[x]
        /\ right'[l] = NULL /\ right'[i] = (IF k < key[m] THEN m ELSE l)
        /\ right'[q] = (IF left[q] = m THEN right[q] ELSE i)
    BY <1>0, <1>2, <1>3, <1>5 DEF FieldsFit
  <1>10. \A d \in Sides : child(q, d)' = IF child(q, d) = m THEN i ELSE child(q, d)
    <2>1. left[q] # right[q] /\ m \in {left[q], right[q]}
      BY <1>0, <1>4, TwoChildren DEF Child
    <2> QED BY <1>8, <1>9, <2>1 DEF child, Sides
  <1>11. \A x \in linked \cup {l, i} : isLeaf(x)' <=> IF x = l THEN TRUE ELSE IF x = i THEN FALSE ELSE isLeaf(x)
    <2>1. \A x \in linked : x \in Places /\ x # l /\ x # i
      BY <1>0, <1>5, Parts
    <2>2. isLeaf(l)' /\ ~isLeaf(i)'
      BY <1>5, <1>8 DEF isLeaf
    <2>3. ASSUME NEW x \in linked, x # q PROVE isLeaf(x)' <=> isLeaf(x)
      BY <1>8, <2>1, <2>3 DEF isLeaf
    <2>4. isLeaf(q)' <=> isLeaf(q)
      BY <1>5, <1>8 DEF isLeaf
    <2> QED BY <1>5, <2>1, <2>2, <2>3, <2>4
  <1>12. Inner' = Inner \cup {i} /\ Outer' = Outer \cup {l}
    <2>1. \A x \in linked : isLeaf(x)' <=> isLeaf(x)
      <3>1. \A x \in linked : x # l /\ x # i
        BY <1>0, <1>5, Parts
      <3> QED BY <1>11, <3>1
    <2>2. isLeaf(l)' /\ ~isLeaf(i)'
      BY <1>2, <1>11
    <2>3. {x \in linked' : ~isLeaf(x)'} = {x \in linked : ~isLeaf(x)} \cup {i}
      BY <1>3, <2>1, <2>2
    <2>4. {x \in linked' : isLeaf(x)'} = {x \in linked : isLeaf(x)} \cup {l}
      BY <1>3, <2>1, <2>2
    <2> QED BY <2>3, <2>4 DEF Inner, Outer
  <1>13. IF k < key[m] THEN left'[i] = l /\ right'[i] = m ELSE left'[i] = m /\ right'[i] = l
    BY <1>8, <1>9
  <1>14. Grows(k, q, m, l, i)
    BY <1>2, <1>3, <1>4, <1>7, <1>8, <1>9, <1>10, <1>12, <1>13 DEF Grows
  <1> QED BY <1>2, <1>14

\* The sibling s takes the place of q below g.
Cuts(k, g, q, m, s) ==
    /\ g \in Inner /\ q \in Inner \ {Root} /\ m \in Outer \cap linked /\ g # q
    /\ s \in Tree \ {Root, q, m, g} /\ key[m] = k
    /\ \E d \in Sides : child(g, d) = q
    /\ {left[q], right[q]} = {m, s}
    /\ linked' = linked \ {q, m} /\ key' = key
    /\ Inner' = Inner \ {q} /\ Outer' = Outer \ {m}
    /\ left' \in [Places -> Places \cup {NULL}] /\ right' \in [Places -> Places \cup {NULL}]
    /\ \A x \in Places \ {g} : left'[x] = left[x] /\ right'[x] = right[x]
    /\ \A d \in Sides : child(g, d)' = IF child(g, d) = q THEN s ELSE child(g, d)

LEMMA NotBelowItself ==
    ASSUME Grounded, NEW a \in Inner, NEW b \in Inner,
           \E d \in Sides : child(a, d) = b, \E d \in Sides : child(b, d) = a
    PROVE  FALSE
  <1>1. {a, b} \in SUBSET Inner /\ {a, b} # {}
    OBVIOUS
  <1>2. PICK x \in {a, b} : \A d \in Sides : child(x, d) \notin {a, b}
    BY <1>1 DEF Grounded
  <1> QED BY <1>2

LEMMA UnlinkCuts ==
    ASSUME TreeFit, NEW k \in Keys, NEW g, NEW q, NEW m, Path(k, g, q, m), m \in Outer,
           key[m] = k, Unlink(g, q, m), key' = key
    PROVE  \E s \in Tree : Cuts(k, g, q, m, s)
  <1>0. FieldsFit /\ Shape /\ KeysInOrder /\ Grounded
    BY DEF TreeFit
  <1> PICK s : s = IF left[q] = m THEN right[q] ELSE left[q]
    OBVIOUS
  <1>1. m \in Outer \cap linked
    <2>1. m # Low /\ m # High
      BY <1>0, KeyBounds DEF KeysInOrder
    <2> QED BY <1>0, <2>1, Parts
  <1>2. q \in Inner \ {Root} /\ g \in Inner /\ Child(q, k) = m /\ Child(g, k) = q
    BY <1>1, PathEnds
  <1>3. /\ linked' = linked \ {q, m}
        /\ IF left[g] = q
           THEN left' = [left EXCEPT ![g] = s] /\ right' = right
           ELSE right' = [right EXCEPT ![g] = s] /\ left' = left
    BY DEF Unlink
  <1>4. left[q] # right[q] /\ left[g] # right[g] /\ m \in {left[q], right[q]} /\ q \in {left[g], right[g]}
    BY <1>0, <1>2, TwoChildren DEF Child
  <1>5. {left[q], right[q]} = {m, s} /\ s # m
    BY <1>4
  <1>6. \E d \in Sides : child(q, d) = s
    BY DEF child, Sides
  <1>7. \E d \in Sides : child(g, d) = q
    BY <1>4 DEF child, Sides
  <1>8. s \in Tree \ {Root, m}
    BY <1>0, <1>2, <1>5, <1>6 DEF Shape
  <1>9. s # q
    BY <1>0, <1>2, <1>6, NotBelowItself
  <1>10. g # q /\ s # g
    BY <1>0, <1>2, <1>6, <1>7, NotBelowItself
  <1>11. g \in Places /\ s \in Places /\ s # NULL /\ q # NULL /\ m \in Places
    BY <1>0, <1>1, <1>2, <1>8, Parts, Distinct
  <1>12. /\ left' \in [Places -> Places \cup {NULL}] /\ right' \in [Places -> Places \cup {NULL}]
         /\ \A x \in Places \ {g} : left'[x] = left[x] /\ right'[x] = right[x]
         /\ left'[g] = (IF left[g] = q THEN s ELSE left[g])
         /\ right'[g] = (IF left[g] = q THEN right[g] ELSE s)
    BY <1>0, <1>3, <1>11 DEF FieldsFit
  <1>13. \A d \in Sides : child(g, d)' = IF child(g, d) = q THEN s ELSE child(g, d)
    BY <1>4, <1>12 DEF child, Sides
  <1>14. \A x \in linked : isLeaf(x)' <=> isLeaf(x)
    <2>1. \A x \in linked : x \in Places
      BY <1>0, Parts
    <2> QED BY <1>11, <1>12, <2>1 DEF isLeaf
  <1>15. Inner' = Inner \ {q} /\ Outer' = Outer \ {m}
    <2>1. q \in linked /\ ~isLeaf(q) /\ isLeaf(m) /\ m \notin {Low, High}
      BY <1>0, <1>1, <1>2, Parts, Distinct
    <2> QED BY <1>2, <1>3, <1>14, <2>1 DEF Inner, Outer
  <1>16. Cuts(k, g, q, m, s)
    BY <1>1, <1>2, <1>3, <1>5, <1>7, <1>8, <1>9, <1>10, <1>12, <1>13, <1>15 DEF Cuts
  <1> QED BY <1>8, <1>16

-----------------------------------------------------------------------------
\* The tree after an insert.
LEMMA GrowsAside ==
    ASSUME TreeFit, NEW k, NEW q, NEW m, NEW l, NEW i, Grows(k, q, m, l, i)
    PROVE  /\ i \notin Tree /\ l \notin Tree /\ i # l /\ i \in Places /\ l \in Places
           /\ Tree' = Tree \cup {i, l} /\ q \in Tree /\ m \in Tree /\ m # q /\ m \notin Inner
           /\ \A x \in Tree : key'[x] = key[x]
           /\ \A x \in Tree \ {q}, d \in Sides : child(x, d)' = child(x, d)
           /\ \A d \in Sides : child(i, d)' \in {l, m} /\ child(l, d)' = NULL
           /\ child(i, 0)' # child(i, 1)'
  <1>0. FieldsFit /\ Shape
    BY DEF TreeFit
  <1>1. l \notin linked /\ i \notin linked /\ l \in Addresses /\ i \in Addresses /\ i # l
    BY <1>0 DEF FieldsFit, Grows
  <1>2. i \notin Tree /\ l \notin Tree /\ i \in Places /\ l \in Places
    BY <1>1, Distinct DEF Tree
  <1>3. Tree' = Tree \cup {i, l}
    BY DEF Tree, Grows
  <1>4. q \in Tree /\ m \in Tree /\ m # q /\ m \notin Inner
    BY <1>0, Parts DEF Grows
  <1>5. \A x \in Tree : x \in Places /\ x # l /\ x # i
    BY <1>0, <1>2, Parts
  <1>6. \A x \in Tree : key'[x] = key[x]
    BY <1>5 DEF Grows
  <1>7. \A x \in Tree \ {q}, d \in Sides : child(x, d)' = child(x, d)
    BY <1>5 DEF Grows, child
  <1>8. /\ \A d \in Sides : child(i, d)' \in {l, m} /\ child(l, d)' = NULL
        /\ child(i, 0)' # child(i, 1)'
    <2>1. m # l
      BY <1>2, <1>4
    <2> QED BY <2>1 DEF Grows, child, Sides
  <1> QED BY <1>1, <1>2, <1>3, <1>4, <1>6, <1>7, <1>8

LEMMA GrowShape ==
    ASSUME TreeFit, NEW k, NEW q, NEW m, NEW l, NEW i, Grows(k, q, m, l, i)
    PROVE  FieldsFit' /\ Shape' /\ KeysInOrder'
  <1>0. FieldsFit /\ Shape /\ KeysInOrder
    BY DEF TreeFit
  <1>1. /\ i \notin Tree /\ l \notin Tree /\ i # l /\ i \in Places /\ l \in Places
        /\ Tree' = Tree \cup {i, l} /\ q \in Tree /\ m \in Tree /\ m # q /\ m \notin Inner
        /\ \A x \in Tree : key'[x] = key[x]
        /\ \A x \in Tree \ {q}, d \in Sides : child(x, d)' = child(x, d)
        /\ \A d \in Sides : child(i, d)' \in {l, m} /\ child(l, d)' = NULL
        /\ child(i, 0)' # child(i, 1)'
    BY GrowsAside
  <1>2. /\ q \in Inner /\ m \in Outer \ {Low} /\ Child(q, k) = m /\ k \in Keys
        /\ Inner' = Inner \cup {i} /\ Outer' = Outer \cup {l}
        /\ linked' = linked \cup {l, i} /\ used' = used \cup {l, i}
        /\ l \in Addresses /\ i \in Addresses
        /\ \A d \in Sides : child(q, d)' = IF child(q, d) = m THEN i ELSE child(q, d)
    BY DEF Grows
  <1>3. FieldsFit'
    BY <1>0, <1>2 DEF FieldsFit, Grows
  <1>4. PICK d0 \in Sides : child(q, d0) = m
    BY <1>2, ChildSide
  <1>5. \A x \in Inner', d \in Sides : child(x, d)' \in Tree' \ {Root}
    <2>1. ASSUME NEW x \in Inner, NEW d \in Sides PROVE child(x, d)' \in Tree' \ {Root}
      <3>1. child(x, d) \in Tree \ {Root} /\ x \in Tree /\ Root \in Tree
        BY <1>0, Parts DEF Shape
      <3> QED BY <1>1, <1>2, <3>1
    <2>2. ASSUME NEW d \in Sides PROVE child(i, d)' \in Tree' \ {Root}
      BY <1>0, <1>1, <1>2, Parts
    <2> QED BY <1>2, <2>1, <2>2
  <1>6. \A x, o \in Inner', d, e \in Sides : child(x, d)' = child(o, e)' => x = o /\ d = e
    <2>1. ASSUME NEW x \in Inner, NEW d \in Sides
          PROVE  /\ child(x, d)' # m /\ child(x, d)' # l
                 /\ child(x, d)' = i => x = q /\ d = d0
                 /\ child(x, d)' # i => child(x, d)' = child(x, d)
      <3>1. child(x, d) \in Tree /\ x \in Tree
        BY <1>0, Parts DEF Shape
      <3>2. child(x, d) = m => x = q /\ d = d0
        BY <1>0, <1>2, <1>4 DEF Shape
      <3>3. m # i /\ m # l
        BY <1>1
      <3>4. CASE x = q
        BY <1>1, <1>2, <3>1, <3>2, <3>3, <3>4
      <3>5. CASE x # q
        BY <1>1, <3>1, <3>2, <3>5
      <3> QED BY <3>4, <3>5
    <2>2. ASSUME NEW x \in Inner, NEW o \in Inner, NEW d \in Sides, NEW e \in Sides,
                 child(x, d)' = child(o, e)'
          PROVE  x = o /\ d = e
      BY <1>0, <2>1, <2>2 DEF Shape
    <2>3. ASSUME NEW x \in Inner, NEW d \in Sides, NEW e \in Sides
          PROVE  child(x, d)' # child(i, e)'
      BY <1>1, <2>1
    <2>4. \A d, e \in Sides : child(i, d)' = child(i, e)' => d = e
      BY <1>1 DEF Sides
    <2> QED BY <1>2, <2>2, <2>3, <2>4
  <1>7. \A x \in Outer', d \in Sides : child(x, d)' = NULL
    <2>1. \A x \in Outer : x \in Tree \ {q}
      BY <1>0, <1>2, Parts
    <2> QED BY <1>0, <1>1, <1>2, <2>1 DEF Shape
  <1>8. left'[Root] = Low /\ right'[Root] \in Inner' \cup {High}
    <2>1. /\ left'[Root] = child(Root, 0)' /\ right'[Root] = child(Root, 1)'
          /\ left[Root] = child(Root, 0) /\ right[Root] = child(Root, 1) /\ 0 \in Sides /\ 1 \in Sides
      BY DEF child, Sides
    <2>2. CASE q = Root
      BY <1>0, <1>2, <2>1, <2>2 DEF Shape
    <2>3. CASE q # Root
      BY <1>0, <1>1, <1>2, <2>1, <2>3, Parts DEF Shape
    <2> QED BY <2>2, <2>3
  <1>9. key'[l] \in Keys /\ key'[i] \in MinKey .. MaxKey + 1
    <2>1. key'[l] = k /\ key'[i] = InternalKey(k, key[m])
      BY DEF Grows
    <2>2. key[m] \in MinKey .. MaxKey + 1
      BY <1>0, <1>2, Parts, KeyBounds DEF KeysInOrder
    <2> QED BY <1>2, <2>1, <2>2, KeyBounds DEF InternalKey
  <1>10. KeysInOrder'
    <2>1. /\ {Root, Low, High} \subseteq Tree /\ linked \subseteq Tree
      BY DEF Tree
    <2>2. \A x \in linked' : key'[x] \in MinKey .. MaxKey + 1
      BY <1>0, <1>1, <1>2, <1>9, <2>1, KeyBounds DEF KeysInOrder, Keys
    <2>3. ASSUME NEW x \in linked', isLeaf(x)' PROVE key'[x] \in Keys
      <3>1. CASE x = l
        BY <1>9, <3>1
      <3>2. CASE x # l
        <4>1. x \in Outer'
          BY <2>3 DEF Outer
        <4>2. x \in linked' /\ x # i
          BY <1>0, <1>1, <1>2, <3>2, <4>1, Parts
        <4>3. x \in linked /\ x \in Outer
          BY <1>2, <3>2, <4>1, <4>2
        <4>4. isLeaf(x) /\ x \in Tree
          BY <1>0, <4>3, Parts
        <4> QED BY <1>0, <1>1, <4>3, <4>4 DEF KeysInOrder
      <3> QED BY <3>1, <3>2
    <2> QED BY <1>0, <1>1, <2>1, <2>2, <2>3 DEF KeysInOrder
  <1> QED BY <1>3, <1>5, <1>6, <1>7, <1>8, <1>10 DEF Shape

LEMMA GrowGrounded ==
    ASSUME TreeFit, NEW k, NEW q, NEW m, NEW l, NEW i, Grows(k, q, m, l, i)
    PROVE  Grounded' /\ Whole'
  <1>0. FieldsFit /\ Shape /\ Grounded /\ Whole
    BY DEF TreeFit
  <1>1. /\ i \notin Tree /\ l \notin Tree /\ i \in Places /\ l \in Places
        /\ Tree' = Tree \cup {i, l} /\ q \in Tree /\ m \in Tree /\ m # q /\ m \notin Inner
        /\ \A x \in Tree \ {q}, d \in Sides : child(x, d)' = child(x, d)
        /\ \A d \in Sides : child(i, d)' \in {l, m}
        /\ child(i, 0)' # child(i, 1)'
    BY GrowsAside
  <1>2. /\ q \in Inner /\ m \in Outer /\ Child(q, k) = m
        /\ Inner' = Inner \cup {i}
        /\ \A d \in Sides : child(q, d)' = IF child(q, d) = m THEN i ELSE child(q, d)
    BY DEF Grows
  <1>3. Inner \subseteq Tree
    BY <1>0, Parts
  <1>4. ASSUME NEW S \in SUBSET Inner', S # {}
        PROVE  \E x \in S : \A d \in Sides : child(x, d)' \notin S
    <2>1. l \notin S /\ m \notin S
      BY <1>1, <1>2, <1>3, <1>4, GrowShape DEF Grows
    <2>2. CASE i \in S
      BY <1>1, <2>1, <2>2
    <2>3. CASE i \notin S
      <3>1. PICK x \in S : \A d \in Sides : child(x, d) \notin S
        BY <1>0, <1>2, <1>4, <2>3 DEF Grounded
      <3>2. x \in Tree
        BY <1>2, <1>3, <1>4, <2>3
      <3> QED BY <1>1, <1>2, <2>3, <3>1, <3>2
    <2> QED BY <2>2, <2>3
  <1>5. ASSUME NEW S \in SUBSET Places, Root \in S, ~Open(S)' PROVE Tree' \subseteq S
    <2>1. \A x \in S \cap Inner', d \in Sides : child(x, d)' \in S
      BY <1>5 DEF Open
    <2>2. i \in S => l \in S /\ m \in S
      <3>1. {child(i, 0)', child(i, 1)'} = {l, m} /\ 0 \in Sides /\ 1 \in Sides
        BY <1>1 DEF Sides
      <3> QED BY <1>2, <2>1, <3>1
    <2>3. \A x \in S \cap Inner, d \in Sides : child(x, d) \in S
      BY <1>1, <1>2, <1>3, <2>1, <2>2
    <2>4. Tree \subseteq S
      BY <1>0, <1>5, <2>3 DEF Whole, Open
    <2>5. i \in S
      BY <1>1, <1>2, <2>1, <2>4, ChildSide
    <2> QED BY <1>1, <2>2, <2>4, <2>5
  <1> QED BY <1>4, <1>5 DEF Grounded, Whole

LEMMA NextWay ==
    ASSUME NEW k, NEW m, m \in Inner', On(m, k)'
    PROVE  On(Child(m, k), k)'
  BY DEF On, Closed

LEMMA WaysGrow ==
    ASSUME TreeFit, NEW k, NEW q, NEW m, NEW l, NEW i, Grows(k, q, m, l, i),
           NEW j, NEW o \in Tree, On(o, j), o = m => Child(i, j)' = m
    PROVE  On(o, j)'
  <1>0. FieldsFit /\ Shape
    BY DEF TreeFit
  <1>1. /\ Inner' = Inner \cup {i} /\ m \notin Inner /\ m \in Places /\ q \in Inner /\ Inner \subseteq Tree
        /\ \A x \in Inner : key'[x] = key[x]
        /\ \A x \in Inner \ {q}, d \in Sides : child(x, d)' = child(x, d)
        /\ \A d \in Sides : child(q, d)' = IF child(q, d) = m THEN i ELSE child(q, d)
    BY <1>0, GrowsAside, Parts DEF Grows
  <1>2. \A x \in Inner : \/ Child(x, j)' = Child(x, j)
                         \/ Child(x, j)' = i /\ Child(x, j) = m
    <2> SUFFICES ASSUME NEW x \in Inner
                 PROVE  Child(x, j)' = Child(x, j) \/ (Child(x, j)' = i /\ Child(x, j) = m)
      OBVIOUS
    <2>1. \E d \in Sides : Child(x, j) = child(x, d) /\ Child(x, j)' = child(x, d)'
      BY <1>1 DEF Child, child, Sides
    <2> QED BY <1>1, <2>1
  <1> SUFFICES ASSUME NEW S \in SUBSET Places, Root \in S, Closed(S, j)', o \notin S PROVE FALSE
    BY DEF On
  <1>3. \A x \in S \cap Inner : Child(x, j)' \in S
    BY <1>1 DEF Closed
  <1>4. S \cup {m} \in SUBSET Places /\ Closed(S \cup {m}, j)
    BY <1>1, <1>2, <1>3 DEF Closed
  <1>5. o = m
    BY <1>4 DEF On
  <1>6. \A x \in S \cap Inner : Child(x, j)' # i
    BY <1>1, <1>3, <1>5 DEF Closed
  <1>7. Closed(S, j)
    BY <1>2, <1>3, <1>6 DEF Closed
  <1> QED BY <1>7 DEF On

LEMMA GrowRouted ==
    ASSUME TreeFit, prealloc' = prealloc, NEW k, NEW q, NEW m, NEW l, NEW i, Grows(k, q, m, l, i)
    PROVE  Routed'
  <1>0. FieldsFit /\ Shape /\ KeysInOrder /\ Routed
    BY DEF TreeFit
  <1>1. /\ \A x \in Tree : key'[x] = key[x]
        /\ q \in Tree /\ m \in Tree /\ q # m /\ Tree \subseteq Places
    BY <1>0, GrowsAside, Parts
  <1>2. /\ q \in Inner /\ q \in Inner' /\ i \in Inner' /\ m \in Outer /\ Child(q, k) = m /\ On(q, k)
        /\ Outer' = Outer \cup {l} /\ k \in Keys /\ key[m] # k
        /\ key'[l] = k /\ key'[i] = InternalKey(k, key[m])
        /\ IF k < key[m] THEN left'[i] = l /\ right'[i] = m ELSE left'[i] = m /\ right'[i] = l
    BY DEF Grows
  <1>3. k \in Int /\ key[m] \in Int
    BY <1>0, <1>1, <1>2, KeyBounds DEF FieldsFit
  <1>4. m = High => Child(i, MaxKey + 1)' = m
    <2>1. m = High => key[m] = MaxKey + 1 /\ k < key[m]
      BY <1>0, <1>2, KeyBounds DEF KeysInOrder
    <2> QED BY <1>2, <1>3, <2>1 DEF InternalKey, Child
  <1>5. On(High, MaxKey + 1)'
    <2>1. On(High, MaxKey + 1) /\ High \in Tree
      BY <1>0 DEF Routed, Tree
    <2> QED BY <1>4, <2>1, WaysGrow
  <1>6. ASSUME ~prealloc, NEW j, NEW o \in Outer' \ {Low}, j = key'[o] PROVE On(o, j)'
    <2>1. \A y : (y = key[m] => Child(i, y)' = m) /\ (y = k => Child(i, y)' = l)
      <3>1. CASE k < key[m]
        <4>1. key'[i] = key[m] /\ left'[i] = l /\ right'[i] = m
          BY <1>2, <3>1 DEF InternalKey
        <4> QED BY <1>3, <3>1, <4>1 DEF Child
      <3>2. CASE key[m] < k
        <4>1. key'[i] = k /\ left'[i] = m /\ right'[i] = l
          BY <1>2, <1>3, <1>6, <3>2 DEF InternalKey
        <4> QED BY <1>3, <3>2, <4>1 DEF Child
      <3> QED BY <1>2, <1>3, <3>1, <3>2
    <2>2. CASE o = l
      <3>1. j = k
        BY <1>2, <1>6, <2>2
      <3>2. On(q, k)'
        BY <1>1, <1>2, WaysGrow
      <3>3. Child(q, k)' = i
        <4>1. \A d \in Sides : child(q, d)' = IF child(q, d) = m THEN i ELSE child(q, d)
          BY DEF Grows
        <4>2. key'[q] = key[q]
          BY <1>1
        <4> QED BY <1>2, <4>1, <4>2 DEF Child, child, Sides
      <3>4. On(i, k)'
        BY <1>2, <3>2, <3>3, NextWay
      <3>5. On(l, k)'
        BY <1>2, <2>1, <3>4, NextWay
      <3> QED BY <2>2, <3>1, <3>5
    <2>3. CASE o # l
      <3>1. o \in Outer /\ o \in Tree
        BY <1>0, <1>2, <1>6, <2>3, Parts
      <3>2. j = key[o] /\ On(o, j)
        BY <1>0, <1>1, <1>6, <3>1 DEF Routed
      <3>3. o = m => Child(i, j)' = m
        BY <2>1, <3>2
      <3> QED BY <3>1, <3>2, <3>3, WaysGrow
    <2> QED BY <2>2, <2>3
  <1>7. ~prealloc' => ~prealloc
    OBVIOUS
  <1> QED BY <1>5, <1>6, <1>7 DEF Routed

-----------------------------------------------------------------------------
\* The tree after an erase.
LEMMA CutsAside ==
    ASSUME TreeFit, NEW k, NEW g, NEW q, NEW m, NEW s, Cuts(k, g, q, m, s)
    PROVE  /\ Tree' = Tree \ {q, m} /\ g \in Tree /\ q \in Tree /\ m \in Tree /\ m \notin Inner
           /\ q # Low /\ q # High /\ m # Root /\ m # g /\ m # q
           /\ \A x \in Tree \ {g}, d \in Sides : child(x, d)' = child(x, d)
           /\ {child(q, 0), child(q, 1)} = {m, s}
           /\ \A x \in Inner', d \in Sides :
                 \/ child(x, d)' = child(x, d) /\ child(x, d) \notin {q, m, s}
                 \/ x = g /\ child(x, d)' = s /\ child(x, d) = q
  <1>0. FieldsFit /\ Shape
    BY DEF TreeFit
  <1>1. /\ g \in Inner /\ q \in Inner \ {Root} /\ m \in Outer \cap linked /\ g # q
        /\ s \in Tree \ {Root, q, m, g} /\ linked' = linked \ {q, m}
        /\ Inner' = Inner \ {q} /\ Outer' = Outer \ {m}
        /\ \A x \in Places \ {g} : left'[x] = left[x] /\ right'[x] = right[x]
        /\ \A d \in Sides : child(g, d)' = IF child(g, d) = q THEN s ELSE child(g, d)
    BY DEF Cuts
  <1>2. /\ g \in Tree /\ q \in Tree /\ m \in Tree /\ m \notin Inner /\ Tree \subseteq Places
        /\ q \notin {Root, Low, High} /\ m \notin {Root, Low, High} /\ m # g /\ m # q
    BY <1>0, <1>1, Parts, Distinct
  <1>3. Tree' = Tree \ {q, m}
    BY <1>1, <1>2 DEF Tree
  <1>4. \A x \in Tree \ {g}, d \in Sides : child(x, d)' = child(x, d)
    BY <1>1, <1>2 DEF child
  <1>5. {child(q, 0), child(q, 1)} = {m, s}
    BY DEF Cuts, child
  <1>6. ASSUME NEW x \in Inner', NEW d \in Sides
        PROVE  \/ child(x, d)' = child(x, d) /\ child(x, d) \notin {q, m, s}
               \/ x = g /\ child(x, d)' = s /\ child(x, d) = q
    <2>1. x \in Inner /\ x # q /\ x \in Tree
      BY <1>0, <1>1, Parts
    <2>2. child(x, d) \notin {m, s}
      <3>1. ASSUME NEW y \in {m, s} PROVE \E e \in Sides : child(q, e) = y
        BY <1>5 DEF Sides
      <3> QED BY <1>0, <1>1, <2>1, <3>1 DEF Shape
    <2>3. CASE x = g
      BY <1>1, <2>2, <2>3
    <2>4. CASE x # g
      <3>1. child(x, d) # q
        <4>1. \E e \in Sides : child(g, e) = q
          BY DEF Cuts
        <4> QED BY <1>0, <1>1, <2>1, <2>4, <4>1 DEF Shape
      <3> QED BY <1>4, <2>1, <2>2, <2>4, <3>1
    <2> QED BY <2>3, <2>4
  <1> QED BY <1>2, <1>3, <1>4, <1>5, <1>6

LEMMA CutShape ==
    ASSUME TreeFit, NEW k, NEW g, NEW q, NEW m, NEW s, Cuts(k, g, q, m, s),
           linked' \subseteq used', used' \subseteq Addresses
    PROVE  FieldsFit' /\ Shape' /\ KeysInOrder'
  <1>0. FieldsFit /\ Shape /\ KeysInOrder
    BY DEF TreeFit
  <1>1. /\ Tree' = Tree \ {q, m} /\ g \in Tree /\ q \in Tree /\ m \in Tree /\ m \notin Inner
        /\ q # Low /\ q # High /\ m # Root /\ m # g /\ m # q
        /\ \A x \in Tree \ {g}, d \in Sides : child(x, d)' = child(x, d)
        /\ {child(q, 0), child(q, 1)} = {m, s}
    BY CutsAside
  <1>2. \A x \in Inner', d \in Sides :
                 \/ child(x, d)' = child(x, d) /\ child(x, d) \notin {q, m, s}
                 \/ x = g /\ child(x, d)' = s /\ child(x, d) = q
    BY CutsAside
  <1>3. /\ g \in Inner /\ q \in Inner \ {Root} /\ m \in Outer \cap linked /\ g # q
        /\ s \in Tree \ {Root, q, m, g} /\ linked' = linked \ {q, m} /\ key' = key
        /\ Inner' = Inner \ {q} /\ Outer' = Outer \ {m}
    BY DEF Cuts
  <1>4. FieldsFit'
    BY <1>0, <1>3 DEF FieldsFit, Cuts
  <1>5. \A x \in Inner', d \in Sides : child(x, d)' \in Tree' \ {Root}
    <2>1. \A x \in Inner', d \in Sides : child(x, d) \in Tree \ {Root}
      BY <1>0, <1>3 DEF Shape
    <2> QED BY <1>1, <1>2, <1>3, <2>1
  <1>6. \A x, o \in Inner', d, e \in Sides : child(x, d)' = child(o, e)' => x = o /\ d = e
    <2>1. \A x, o \in Inner', d, e \in Sides : child(x, d) = child(o, e) => x = o /\ d = e
      BY <1>0, <1>3 DEF Shape
    <2> QED BY <1>2, <2>1
  <1>7. \A x \in Outer', d \in Sides : child(x, d)' = NULL
    <2>1. \A x \in Outer' : x \in Outer /\ x \in Tree \ {g}
      BY <1>0, <1>3, Parts
    <2> QED BY <1>0, <1>1, <2>1 DEF Shape
  <1>8. /\ left'[Root] = child(Root, 0)' /\ right'[Root] = child(Root, 1)'
        /\ left[Root] = child(Root, 0) /\ right[Root] = child(Root, 1)
        /\ 0 \in Sides /\ 1 \in Sides /\ Root \in Inner'
    BY <1>0, <1>3, Parts DEF child, Sides
  <1>9. left'[Root] = Low
    BY <1>0, <1>1, <1>2, <1>8 DEF Shape
  <1>10. right'[Root] \in Inner' \cup {High}
    <2>1. CASE child(Root, 1)' = child(Root, 1) /\ child(Root, 1) \notin {q, m, s}
      BY <1>0, <1>3, <1>8, <2>1 DEF Shape
    <2>2. CASE Root = g /\ child(Root, 1)' = s /\ child(Root, 1) = q
      <3>1. ASSUME s \in Outer PROVE s = High
        <4> DEFINE S == {Root, Low, q, m, s}
        <4>1. S \in SUBSET Places
          BY <1>0, <1>1, <1>3, Parts
        <4>2. S \cap Inner = {Root, q}
          BY <1>0, <1>1, <1>3, <3>1, Parts, Distinct
        <4>3. \A y : Child(Root, y) \in S /\ Child(q, y) \in S
          <5>1. left[Root] = Low /\ right[Root] = q
            BY <1>0, <1>8, <2>2 DEF Shape
          <5>2. left[q] \in {m, s} /\ right[q] \in {m, s}
            BY <1>1 DEF child
          <5> QED BY <5>1, <5>2 DEF Child
        <4>4. On(High, MaxKey + 1) /\ Closed(S, MaxKey + 1)
          BY <4>2, <4>3 DEF Closed, TreeFit, Routed
        <4>5. High \in S
          BY <4>1, <4>4 DEF On
        <4>6. m # High
          BY <1>0, <1>3, Parts
        <4> QED BY <1>1, <4>5, <4>6, Distinct
      <3> QED BY <1>0, <1>3, <1>8, <2>2, <3>1, Parts
    <2> QED BY <1>2, <1>8, <2>1, <2>2
  <1>11. KeysInOrder'
    <2>1. ASSUME NEW x \in linked', isLeaf(x)' PROVE x \in linked /\ isLeaf(x)
      <3>1. x \in Outer'
        BY <2>1 DEF Outer
      <3> QED BY <1>0, <1>3, <2>1, <3>1, Parts
    <2> QED BY <1>0, <1>3, <2>1 DEF KeysInOrder
  <1> QED BY <1>4, <1>5, <1>6, <1>7, <1>9, <1>10, <1>11 DEF Shape

LEMMA CutGrounded ==
    ASSUME TreeFit, NEW k, NEW g, NEW q, NEW m, NEW s, Cuts(k, g, q, m, s)
    PROVE  Grounded' /\ Whole'
  <1>0. FieldsFit /\ Shape /\ Grounded /\ Whole
    BY DEF TreeFit
  <1>1. /\ Tree' = Tree \ {q, m} /\ g \in Tree /\ q \in Tree /\ m \in Tree /\ m \notin Inner
        /\ m # Root /\ Tree \subseteq Places
        /\ {child(q, 0), child(q, 1)} = {m, s} /\ 0 \in Sides /\ 1 \in Sides
    BY <1>0, CutsAside, Parts DEF Sides
  <1>2. \A x \in Inner', d \in Sides :
                 \/ child(x, d)' = child(x, d) /\ child(x, d) \notin {q, m, s}
                 \/ x = g /\ child(x, d)' = s /\ child(x, d) = q
    BY CutsAside
  <1>3. /\ g \in Inner /\ q \in Inner \ {Root} /\ g # q
        /\ s \in Tree \ {Root, q, m, g} /\ Inner' = Inner \ {q} /\ g \in Inner'
    BY DEF Cuts
  <1>4. PICK d0 \in Sides : child(g, d0) = q
    BY DEF Cuts
  <1>5. \A d \in Sides : child(q, d) \in {m, s}
    BY <1>1 DEF Sides
  <1>6. ASSUME NEW S \in SUBSET Inner', S # {}
        PROVE  \E x \in S : \A d \in Sides : child(x, d)' \notin S
    <2>1. m \notin S /\ q \notin S /\ S \in SUBSET Inner
      BY <1>1, <1>3
    <2>2. CASE g \in S /\ s \in S
      <3>1. PICK x \in S \cup {q} : \A d \in Sides : child(x, d) \notin S \cup {q}
        <4>1. S \cup {q} \in SUBSET Inner /\ S \cup {q} # {}
          BY <1>3, <2>1
        <4> QED BY <1>0, <4>1 DEF Grounded
      <3>2. x # q
        BY <1>1, <2>2, <3>1
      <3>3. x # g
        BY <1>4, <3>1
      <3> QED BY <1>2, <1>6, <3>1, <3>2, <3>3
    <2>3. CASE g \notin S \/ s \notin S
      <3>1. PICK x \in S : \A d \in Sides : child(x, d) \notin S
        BY <1>0, <1>6, <2>1 DEF Grounded
      <3>2. \A d \in Sides : child(x, d)' \in {child(x, d)} \/ (x = g /\ child(x, d)' = s)
        BY <1>2, <1>6
      <3> QED BY <2>3, <3>1, <3>2
    <2> QED BY <2>2, <2>3
  <1>7. ASSUME NEW S \in SUBSET Places, Root \in S, ~Open(S)' PROVE Tree' \subseteq S
    <2> DEFINE T == (S \ {q, m}) \cup (IF g \in S THEN {q, m} ELSE {})
    <2>1. \A x \in S \cap Inner', d \in Sides : child(x, d)' \in S
      BY <1>7 DEF Open
    <2>2. T \in SUBSET Places /\ Root \in T
      BY <1>1, <1>3, <1>7
    <2>3. g \in S => s \in T
      BY <1>2, <1>3, <1>4, <2>1
    <2>4. ASSUME NEW x \in T \cap Inner, NEW d \in Sides PROVE child(x, d) \in T
      <3>1. CASE x = q
        <4>1. g \in S
          BY <2>4, <3>1
        <4> QED BY <1>5, <2>3, <3>1, <4>1
      <3>2. CASE x # q
        <4>1. x \in S \cap Inner'
          BY <1>1, <1>3, <2>4, <3>2
        <4>2. child(x, d)' \in S
          BY <2>1, <4>1
        <4> QED BY <1>2, <4>1, <4>2
      <3> QED BY <3>1, <3>2
    <2>5. Tree \subseteq T
      BY <1>0, <2>2, <2>4 DEF Whole, Open
    <2> QED BY <1>1, <2>5
  <1> QED BY <1>6, <1>7 DEF Grounded, Whole

LEMMA WaysCut ==
    ASSUME TreeFit, NEW k, NEW g, NEW q, NEW m, NEW s, Cuts(k, g, q, m, s),
           NEW j, NEW o \in Tree \ {q, m}, On(o, j)
    PROVE  On(o, j)'
  <1>0. FieldsFit /\ Shape
    BY DEF TreeFit
  <1>1. /\ q \in Places /\ m \in Places /\ m \notin Inner /\ m # Root
        /\ {child(q, 0), child(q, 1)} = {m, s}
    BY <1>0, CutsAside, Parts
  <1>2. /\ g \in Inner /\ q \in Inner \ {Root} /\ g # q /\ key' = key
        /\ Inner' = Inner \ {q}
    BY DEF Cuts
  <1>3. \A x \in Inner', d \in Sides :
                 \/ child(x, d)' = child(x, d) /\ child(x, d) \notin {q, m, s}
                 \/ x = g /\ child(x, d)' = s /\ child(x, d) = q
    BY CutsAside
  <1>4. \A x \in Inner' : \/ Child(x, j)' = Child(x, j) /\ Child(x, j) # q
                          \/ x = g /\ Child(x, j)' = s /\ Child(x, j) = q
    <2> SUFFICES ASSUME NEW x \in Inner'
                 PROVE  \/ Child(x, j)' = Child(x, j) /\ Child(x, j) # q
                        \/ x = g /\ Child(x, j)' = s /\ Child(x, j) = q
      OBVIOUS
    <2>1. \E d \in Sides : Child(x, j) = child(x, d) /\ Child(x, j)' = child(x, d)'
      BY <1>2 DEF Child, child, Sides
    <2> QED BY <1>3, <2>1
  <1>5. Child(q, j) \in {m, s}
    BY <1>1 DEF Child, child
  <1> SUFFICES ASSUME NEW S \in SUBSET Places, Root \in S, Closed(S, j)' PROVE o \in S
    BY DEF On
  <1>6. \A x \in S \cap Inner' : Child(x, j)' \in S
    BY DEF Closed
  <1>7. CASE g \in S /\ Child(g, j) = q
    <2> DEFINE T == S \cup {q, m}
    <2>1. s \in S
      BY <1>2, <1>4, <1>6, <1>7
    <2>2. T \in SUBSET Places /\ Root \in T
      BY <1>1
    <2>3. ASSUME NEW x \in T \cap Inner PROVE Child(x, j) \in T
      BY <1>1, <1>2, <1>4, <1>5, <1>6, <2>1
    <2> QED BY <2>2, <2>3 DEF On, Closed
  <1>8. CASE ~(g \in S /\ Child(g, j) = q)
    <2> DEFINE T == S \ {q}
    <2>1. T \in SUBSET Places /\ Root \in T
      BY <1>2
    <2>2. ASSUME NEW x \in T \cap Inner PROVE Child(x, j) \in T
      BY <1>2, <1>4, <1>6, <1>8
    <2>3. Closed(T, j)
      BY <2>2 DEF Closed
    <2> QED BY <2>1, <2>3 DEF On
  <1> QED BY <1>7, <1>8

LEMMA CutRouted ==
    ASSUME TreeFit, prealloc' = prealloc,
           NEW k, NEW g, NEW q, NEW m, NEW s, Cuts(k, g, q, m, s)
    PROVE  Routed'
  <1>0. FieldsFit /\ Shape /\ Routed
    BY DEF TreeFit
  <1>1. /\ key' = key /\ Outer' = Outer \ {m} /\ q \in Inner /\ m \in linked
    BY DEF Cuts
  <1>2. \A o \in Outer' : o \in Outer /\ o \in Tree \ {q, m}
    BY <1>0, <1>1, Parts
  <1>3. High \in Outer'
    BY <1>0, <1>1, Parts
  <1>4. On(High, MaxKey + 1)'
    <2>1. On(High, MaxKey + 1)
      BY <1>0 DEF Routed
    <2> QED BY <1>2, <1>3, <2>1, WaysCut
  <1>5. ASSUME ~prealloc, NEW j, NEW o \in Outer' \ {Low}, j = key'[o] PROVE On(o, j)'
    <2>1. On(o, j)
      BY <1>0, <1>1, <1>2, <1>5 DEF Routed
    <2> QED BY <1>2, <1>5, <2>1, WaysCut
  <1>6. ~prealloc' => ~prealloc
    OBVIOUS
  <1> QED BY <1>4, <1>5, <1>6 DEF Routed

-----------------------------------------------------------------------------
\* What is left of the shape when a call does what it does.
LEMMA GrowFit ==
    ASSUME TreeFit, prealloc' = prealloc, NEW k, NEW q, NEW m, NEW l, NEW i, Grows(k, q, m, l, i)
    PROVE  TreeFit' /\ TreeKeys' = TreeKeys \cup {k}
  <1>1. TreeFit'
    BY GrowShape, GrowGrounded, GrowRouted DEF TreeFit
  <1>2. FieldsFit /\ Shape
    BY DEF TreeFit
  <1>3. /\ Outer' = Outer \cup {l} /\ key'[l] = k /\ l \notin {Low, High}
        /\ \A x \in Outer : key'[x] = key[x]
    BY <1>2, GrowsAside, Parts DEF Grows
  <1>4. Outer \ {Low, High} = {x \in linked : isLeaf(x)}
    BY <1>2, Parts DEF Outer
  <1>5. (Outer \ {Low, High})' = {x \in linked' : isLeaf(x)'}
    <2>1. linked' \cap {Low, High} = {}
      BY <1>1, Distinct DEF TreeFit, FieldsFit
    <2> QED BY <2>1 DEF Outer
  <1>6. TreeKeys = {key[x] : x \in Outer \ {Low, High}}
    BY <1>4 DEF TreeKeys
  <1>7. TreeKeys' = {key'[x] : x \in Outer' \ {Low, High}}
    BY <1>5 DEF TreeKeys
  <1>8. Outer' \ {Low, High} = (Outer \ {Low, High}) \cup {l}
    BY <1>3
  <1> QED BY <1>1, <1>3, <1>6, <1>7, <1>8

LEMMA CutFit ==
    ASSUME TreeFit, prealloc' = prealloc, linked' \subseteq used', used' \subseteq Addresses,
           NEW k, NEW g, NEW q, NEW m, NEW s, Cuts(k, g, q, m, s)
    PROVE  TreeFit' /\ (~prealloc => TreeKeys' = TreeKeys \ {k})
  <1>1. TreeFit'
    BY CutShape, CutGrounded, CutRouted DEF TreeFit
  <1>2. FieldsFit /\ Shape /\ Routed
    BY DEF TreeFit
  <1>3. /\ Outer' = Outer \ {m} /\ key' = key /\ key[m] = k /\ m \in Outer /\ m \notin {Low, High}
    BY <1>2, Parts DEF Cuts
  <1>4. Outer \ {Low, High} = {x \in linked : isLeaf(x)}
    BY <1>2, Parts DEF Outer
  <1>5. (Outer \ {Low, High})' = {x \in linked' : isLeaf(x)'}
    <2>1. linked' \cap {Low, High} = {}
      BY <1>1, Distinct DEF TreeFit, FieldsFit
    <2> QED BY <2>1 DEF Outer
  <1>6. TreeKeys = {key[x] : x \in Outer \ {Low, High}}
    BY <1>4 DEF TreeKeys
  <1>7. TreeKeys' = {key[x] : x \in Outer' \ {Low, High}}
    BY <1>3, <1>5 DEF TreeKeys
  <1>8. ASSUME ~prealloc, NEW x \in Outer \ {Low, High}, key[x] = k PROVE x = m
    <2>1. On(x, k) /\ On(m, k)
      BY <1>2, <1>3, <1>8 DEF Routed
    <2> QED BY <1>2, <1>3, <2>1, OneLeaf
  <1> QED BY <1>1, <1>3, <1>6, <1>7, <1>8

LEMMA SameTree ==
    ASSUME UNCHANGED <<key, left, right, linked>>
    PROVE  /\ TreeFit /\ prealloc' = prealloc /\ linked' \subseteq used' /\ used' \subseteq Addresses
              => TreeFit'
           /\ \A k, g, q, m : Path(k, g, q, m)' <=> Path(k, g, q, m)
           /\ TreeKeys' = TreeKeys
  <1>1. Inner' = Inner /\ Outer' = Outer /\ Tree' = Tree
    BY DEF Inner, Outer, Tree, isLeaf
  <1>2. \A m, d : child(m, d)' = child(m, d)
    BY DEF child
  <1>3. \A m, k : Child(m, k)' = Child(m, k)
    BY DEF Child
  <1>4. \A S, k : Closed(S, k)' <=> Closed(S, k)
    BY <1>1, <1>3 DEF Closed
  <1>5. \A l, k : On(l, k)' <=> On(l, k)
    BY <1>4 DEF On
  <1>6. \A k, g, q, m : Path(k, g, q, m)' <=> Path(k, g, q, m)
    BY <1>1, <1>3, <1>5 DEF Path
  <1>7. TreeKeys' = TreeKeys
    BY DEF TreeKeys, isLeaf
  <1>8. ASSUME TreeFit, prealloc' = prealloc, linked' \subseteq used', used' \subseteq Addresses
        PROVE  TreeFit'
    <2>1. FieldsFit' /\ KeysInOrder'
      BY <1>8 DEF TreeFit, FieldsFit, KeysInOrder, isLeaf
    <2>2. Shape'
      BY <1>1, <1>2, <1>8 DEF TreeFit, Shape
    <2>3. Grounded'
      BY <1>1, <1>2, <1>8 DEF TreeFit, Grounded
    <2>4. Whole'
      BY <1>1, <1>2, <1>8 DEF TreeFit, Whole, Open
    <2>5. Routed'
      <3>1. \A l, k : k = key'[l] => k = key[l]
        OBVIOUS
      <3> QED BY <1>1, <1>5, <1>8 DEF TreeFit, Routed
    <2> QED BY <2>1, <2>2, <2>3, <2>4, <2>5 DEF TreeFit
  <1> QED BY <1>6, <1>7, <1>8

LEMMA FirstTree ==
    ASSUME TreeInit
    PROVE  TreeFit /\ TreeKeys = {}
  <1>1. /\ key = [m \in Places |-> IF m \in {Root, Low} THEN MinKey - 1
                                   ELSE IF m = High THEN MaxKey + 1 ELSE 0]
        /\ left = [m \in Places |-> IF m = Root THEN Low ELSE NULL]
        /\ right = [m \in Places |-> IF m = Root THEN High ELSE NULL]
        /\ used = {} /\ linked = {}
    BY DEF TreeInit
  <1>2. {Root, Low, High} \subseteq Places
    BY Distinct
  <1>3. /\ key[Root] = MinKey - 1 /\ key[Low] = MinKey - 1 /\ key[High] = MaxKey + 1
        /\ left[Root] = Low /\ right[Root] = High
        /\ left[Low] = NULL /\ right[Low] = NULL /\ left[High] = NULL /\ right[High] = NULL
    BY <1>1, <1>2, Distinct
  <1>4. Inner = {Root} /\ Outer = {Low, High} /\ Tree = {Root, Low, High}
    BY <1>1 DEF Inner, Outer, Tree
  <1>5. FieldsFit
    <2>1. key \in [Places -> Int]
      BY <1>1, KeyBounds
    <2>2. left \in [Places -> Places \cup {NULL}] /\ right \in [Places -> Places \cup {NULL}]
      BY <1>1, <1>2
    <2> QED BY <1>1, <2>1, <2>2 DEF FieldsFit
  <1>6. Shape
    BY <1>3, <1>4, Distinct DEF Shape, child, Sides
  <1>7. KeysInOrder
    BY <1>1, <1>3 DEF KeysInOrder
  <1>8. Grounded
    BY <1>3, <1>4, Distinct DEF Grounded, child
  <1>9. Whole
    <2>1. child(Root, 0) = Low /\ child(Root, 1) = High /\ 0 \in Sides /\ 1 \in Sides
      BY <1>3 DEF child, Sides
    <2> QED BY <1>4, <2>1 DEF Whole, Open
  <1>10. Routed
    <2>1. Child(Root, MaxKey + 1) = High
      BY <1>3, KeyBounds DEF Child
    <2>2. On(High, MaxKey + 1)
      BY <1>4, <2>1 DEF On, Closed
    <2> QED BY <1>3, <1>4, <2>2 DEF Routed
  <1> QED BY <1>1, <1>5, <1>6, <1>7, <1>8, <1>9, <1>10 DEF TreeFit, TreeKeys

-----------------------------------------------------------------------------
\* The calls on the trees, and the holder of their lock.
TreeDraws == {"insert", "erase", "contains"} \X Keys
Trying == {"begin", "wait", "acquire", "search"}
Ending == {"delete p", "delete n", "release", "return"}
Holding == {"search", "delete p", "delete n", "release"}
TreePlaces == {"idle"} \cup Trying \cup Ending

TreeCallsFit ==
    /\ plan \in PlansOf(TreeDraws)
    /\ pc \in [Threads -> TreePlaces] /\ op \in [Threads -> {"none", "insert", "erase", "contains"}]
    /\ arg \in [Threads -> Keys \cup {0}] /\ res \in [Threads -> {"pending", "true", "false"}]
    /\ \A t \in Threads :
          /\ pc[t] \in Trying => /\ op[t] \in {"insert", "erase", "contains"} /\ arg[t] \in Keys
                                 /\ res[t] = "pending"
          /\ pc[t] \in Ending => res[t] \in {"true", "false"}
          /\ pc[t] = "idle" => res[t] = "pending" /\ op[t] = "none"

\* What t has unlinked and not deleted yet.
Unlinked(t) == IF pc[t] = "delete p" THEN {p[t], n[t]} ELSE IF pc[t] = "delete n" THEN {n[t]} ELSE {}

HolderFits ==
    /\ lock \in Threads \cup {NoThread}
    /\ gp \in [Threads -> Places \cup {NULL}] /\ p \in [Threads -> Places \cup {NULL}]
    /\ n \in [Threads -> Places \cup {NULL}]
    /\ \A t \in Threads : pc[t] \in Holding <=> lock = t
    /\ \A t \in Threads : pc[t] = "delete p" => p[t] # n[t]
    /\ \A t \in Threads : Unlinked(t) \subseteq Addresses \ linked
    /\ \A t \in Threads : lock = t => used = linked \cup Unlinked(t)
    /\ lock = NoThread => used = linked

Led == \A t \in Threads : \A k, g, q, m :
          pc[t] = "search" /\ k = arg[t] /\ g = gp[t] /\ q = p[t] /\ m = n[t] => Path(k, g, q, m)

Trees == {"tree", "prealloc"}

LEMMA TreeStartFits ==
    ASSUME TreeCallsFit, NEW t \in Threads, Start(t)
    PROVE  /\ TreeCallsFit' /\ pc[t] = "idle" /\ pc' = [pc EXCEPT ![t] = "begin"]
           /\ res' = res /\ TreeCall(t)
           /\ \E c \in TreeDraws : op' = [op EXCEPT ![t] = c[1]] /\ arg' = [arg EXCEPT ![t] = c[2]]
  <1>1. /\ plan \in PlansOf(TreeDraws)
        /\ pc \in [Threads -> TreePlaces] /\ op \in [Threads -> {"none", "insert", "erase", "contains"}]
        /\ arg \in [Threads -> Keys \cup {0}] /\ res \in [Threads -> {"pending", "true", "false"}]
    BY DEF TreeCallsFit
  <1>2. /\ plan' \in PlansOf(TreeDraws)
        /\ pc[t] = "idle" /\ pc' = [pc EXCEPT ![t] = "begin"]
        /\ res' = res /\ TreeCall(t)
        /\ \E c \in TreeDraws : op' = [op EXCEPT ![t] = c[1]] /\ arg' = [arg EXCEPT ![t] = c[2]]
    <2>1. Called(TreeDraws, t)
      BY <1>1, CallDraws
    <2> QED BY <2>1 DEF Called
  <1>3. PICK c \in TreeDraws : op' = [op EXCEPT ![t] = c[1]] /\ arg' = [arg EXCEPT ![t] = c[2]]
    BY <1>2
  <1>4. pc[t] = "idle" /\ pc' = [pc EXCEPT ![t] = "begin"] /\ res' = res
    BY <1>2
  <1>5. c[1] \in {"insert", "erase", "contains"} /\ c[2] \in Keys
    BY DEF TreeDraws
  <1>6. /\ pc' \in [Threads -> TreePlaces] /\ op' \in [Threads -> {"none", "insert", "erase", "contains"}]
        /\ arg' \in [Threads -> Keys \cup {0}]
    BY <1>1, <1>3, <1>4, <1>5 DEF TreePlaces, Trying
  <1>7. ASSUME NEW u \in Threads
        PROVE  /\ pc'[u] \in Trying => /\ op'[u] \in {"insert", "erase", "contains"} /\ arg'[u] \in Keys
                                       /\ res'[u] = "pending"
               /\ pc'[u] \in Ending => res'[u] \in {"true", "false"}
               /\ pc'[u] = "idle" => res'[u] = "pending" /\ op'[u] = "none"
    <2>1. CASE u = t
      BY <1>1, <1>3, <1>4, <1>5, <2>1 DEF TreeCallsFit, Ending
    <2>2. CASE u # t
      <3>1. pc'[u] = pc[u] /\ op'[u] = op[u] /\ arg'[u] = arg[u] /\ res'[u] = res[u]
        BY <1>1, <1>3, <1>4, <2>2
      <3> QED BY <3>1 DEF TreeCallsFit
    <2> QED BY <2>1, <2>2
  <1>8. TreeCallsFit'
    BY <1>1, <1>2, <1>4, <1>6, <1>7 DEF TreeCallsFit
  <1> QED BY <1>2, <1>3, <1>4, <1>8

LEMMA CallMoves ==
    ASSUME TreeCallsFit, NEW t \in Threads, pc[t] \in Trying, plan' = plan, op' = op, arg' = arg,
           NEW l, pc' = [pc EXCEPT ![t] = l],
           NEW r \in {"true", "false"},
           \/ l \in Trying /\ res' = res
           \/ l \in Ending /\ res' = [res EXCEPT ![t] = r]
    PROVE  TreeCallsFit'
  <1>1. pc \in [Threads -> TreePlaces] /\ res \in [Threads -> {"pending", "true", "false"}]
    BY DEF TreeCallsFit
  <1>2. l \in TreePlaces /\ (l \in Trying => l \notin Ending) /\ l # "idle"
    BY DEF TreePlaces, Trying, Ending
  <1>3. pc' \in [Threads -> TreePlaces] /\ res' \in [Threads -> {"pending", "true", "false"}]
    BY <1>1, <1>2
  <1>4. /\ pc'[t] = l /\ \A u \in Threads : u # t => pc'[u] = pc[u] /\ res'[u] = res[u]
        /\ l \in Trying => res'[t] = res[t]
        /\ l \in Ending => res'[t] = r
    BY <1>1, <1>2
  <1> QED BY <1>2, <1>3, <1>4 DEF TreeCallsFit

LEMMA CallEnds ==
    ASSUME TreeCallsFit, NEW t \in Threads, pc[t] \in Ending, plan' = plan,
           \/ /\ op' = op /\ arg' = arg /\ res' = res
              /\ \E l \in Ending : pc' = [pc EXCEPT ![t] = l]
           \/ Return(t)
    PROVE  TreeCallsFit'
  <1>1. /\ pc \in [Threads -> TreePlaces] /\ op \in [Threads -> {"none", "insert", "erase", "contains"}]
        /\ arg \in [Threads -> Keys \cup {0}] /\ res \in [Threads -> {"pending", "true", "false"}]
    BY DEF TreeCallsFit
  <1>2. CASE Return(t)
    <2>1. /\ res' = [res EXCEPT ![t] = "pending"] /\ pc' = [pc EXCEPT ![t] = "idle"]
          /\ op' = [op EXCEPT ![t] = "none"] /\ arg' = [arg EXCEPT ![t] = 0]
      BY <1>2 DEF Return, Goto
    <2>2. /\ pc' \in [Threads -> TreePlaces]
          /\ op' \in [Threads -> {"none", "insert", "erase", "contains"}]
          /\ arg' \in [Threads -> Keys \cup {0}] /\ res' \in [Threads -> {"pending", "true", "false"}]
      BY <1>1, <2>1 DEF TreePlaces
    <2>3. /\ pc'[t] = "idle" /\ res'[t] = "pending" /\ op'[t] = "none"
          /\ \A u \in Threads : u # t => /\ pc'[u] = pc[u] /\ res'[u] = res[u]
                                         /\ op'[u] = op[u] /\ arg'[u] = arg[u]
      BY <1>1, <2>1
    <2>4. "idle" \notin Trying /\ "idle" \notin Ending
      BY DEF Trying, Ending
    <2> QED BY <2>2, <2>3, <2>4 DEF TreeCallsFit
  <1>3. CASE /\ op' = op /\ arg' = arg /\ res' = res
             /\ \E l \in Ending : pc' = [pc EXCEPT ![t] = l]
    <2>1. PICK l \in Ending : pc' = [pc EXCEPT ![t] = l]
      BY <1>3
    <2>2. l \in TreePlaces /\ l \notin Trying /\ l # "idle"
      BY DEF TreePlaces, Trying, Ending
    <2>3. pc' \in [Threads -> TreePlaces]
      BY <1>1, <2>1, <2>2
    <2>4. pc'[t] = l /\ \A u \in Threads : u # t => pc'[u] = pc[u]
      BY <1>1, <2>1
    <2> QED BY <1>1, <1>3, <2>2, <2>3, <2>4 DEF TreeCallsFit
  <1> QED BY <1>2, <1>3

\* Steps of a thread that does not hold the lock, and changes no node.
LEMMA HolderAside ==
    ASSUME HolderFits, Led, NEW t \in Threads, pc \in [Threads -> TreePlaces], pc[t] \notin Holding,
           NEW l, l \notin Holding, pc' = [pc EXCEPT ![t] = l],
           \A u \in Threads \ {t} : arg'[u] = arg[u],
           UNCHANGED <<nodeVars, lock, pathVars>>
    PROVE  HolderFits' /\ Led'
  <1>1. UNCHANGED <<key, left, right, used, linked, lock, gp, p, n>>
    BY DEF nodeVars, pathVars
  <1>2. \A u \in Threads : pc'[u] = IF u = t THEN l ELSE pc[u]
    OBVIOUS
  <1>3. \A u \in Threads : Unlinked(u)' = Unlinked(u)
    BY <1>1, <1>2 DEF Unlinked, Holding
  <1>4. HolderFits'
    BY <1>1, <1>2, <1>3, ZenonT(60) DEF HolderFits, Holding
  <1>5. Led'
    BY <1>1, <1>2, SameTree DEF Led, Holding
  <1> QED BY <1>4, <1>5

\* Steps, of whoever holds the lock or sees that nobody does, after which nobody searches.
LEMMA HolderDone ==
    ASSUME HolderFits, NEW t \in Threads, pc \in [Threads -> TreePlaces],
           (lock = NoThread /\ lock' = NoThread) \/ lock = t,
           NEW l, l # "search", pc' = [pc EXCEPT ![t] = l],
           lock' \in {t, NoThread}, l \in Holding <=> lock' = t,
           gp' \in [Threads -> Places \cup {NULL}], p' \in [Threads -> Places \cup {NULL}],
           n' \in [Threads -> Places \cup {NULL}],
           l = "delete p" => p'[t] # n'[t],
           Unlinked(t)' \subseteq Addresses \ linked', used' = linked' \cup Unlinked(t)'
    PROVE  HolderFits' /\ Led'
  <1>1. NoThread \notin Threads
    BY BenchmarkThreads
  <1>2. \A u \in Threads : pc'[u] = IF u = t THEN l ELSE pc[u]
    OBVIOUS
  <1>3. \A u \in Threads \ {t} : pc[u] \notin Holding /\ lock' # u
    <2> SUFFICES ASSUME NEW u \in Threads, u # t PROVE pc[u] \notin Holding /\ lock' # u
      OBVIOUS
    <2>1. lock # u /\ lock' # u
      BY <1>1
    <2>2. pc[u] \in Holding <=> lock = u
      BY DEF HolderFits
    <2> QED BY <2>1, <2>2
  <1>4. \A u \in Threads \ {t} : Unlinked(u)' = {}
    BY <1>2, <1>3 DEF Unlinked, Holding
  <1>5. lock' = NoThread => Unlinked(t)' = {}
    BY <1>1, <1>2 DEF Unlinked, Holding
  <1>6. HolderFits'
    <2>1. \A u \in Threads : pc'[u] \in Holding <=> lock' = u
      BY <1>2, <1>3
    <2>2. \A u \in Threads : pc'[u] = "delete p" => p'[u] # n'[u]
      BY <1>2, <1>3 DEF Holding
    <2>3. \A u \in Threads : Unlinked(u)' \subseteq Addresses \ linked'
      BY <1>4
    <2>4. \A u \in Threads : lock' = u => used' = linked' \cup Unlinked(u)'
      BY <1>3
    <2> QED BY <1>5, <2>1, <2>2, <2>3, <2>4 DEF HolderFits
  <1>7. Led'
    BY <1>2, <1>3 DEF Led, Holding
  <1> QED BY <1>6, <1>7

-----------------------------------------------------------------------------
\* What an insert and an erase do, whether in a transaction or under the lock.
LEMMA Insertion ==
    ASSUME TreeFit, NewFit, NEW t \in Threads, prealloc => Bringing(t),
           prealloc' = prealloc, NEW k \in Keys, NEW g, NEW q, NEW m, Path(k, g, q, m),
           m \in Outer, key[m] # k, Link(t, k, q, m)
    PROVE  /\ TreeFit' /\ TreeKeys' = TreeKeys \cup {k} /\ (~prealloc => k \notin TreeKeys)
           /\ \E two \in SUBSET Addresses : used' = used \cup two /\ linked' = linked \cup two
  <1>1. PICK l \in Addresses, i \in Addresses : Grows(k, q, m, l, i)
    BY LinkGrows
  <1>2. TreeFit' /\ TreeKeys' = TreeKeys \cup {k}
    BY <1>1, GrowFit
  <1>3. On(m, k)
    BY DEF Path
  <1>4. ~prealloc => k \notin TreeKeys
    BY <1>3, LeafTells
  <1>5. {l, i} \in SUBSET Addresses /\ used' = used \cup {l, i} /\ linked' = linked \cup {l, i}
    BY <1>1 DEF Grows
  <1> QED BY <1>2, <1>4, <1>5

LEMMA Erasure ==
    ASSUME TreeFit, prealloc' = prealloc, NEW k \in Keys, NEW g, NEW q, NEW m, Path(k, g, q, m),
           m \in Outer, key[m] = k, Unlink(g, q, m), key' = key,
           used' \in {used, used \ {q, m}}
    PROVE  /\ TreeFit' /\ (~prealloc => TreeKeys' = TreeKeys \ {k} /\ k \in TreeKeys)
           /\ q \in linked /\ m \in linked /\ q # m /\ linked' = linked \ {q, m}
  <1>1. PICK s \in Tree : Cuts(k, g, q, m, s)
    BY UnlinkCuts
  <1>2. FieldsFit /\ Shape
    BY DEF TreeFit
  <1>3. q \in linked /\ m \in linked /\ q # m /\ linked' = linked \ {q, m}
    BY <1>1, <1>2, Parts DEF Cuts
  <1>4. linked' \subseteq used' /\ used' \subseteq Addresses
    BY <1>2, <1>3 DEF FieldsFit
  <1>5. TreeFit' /\ (~prealloc => TreeKeys' = TreeKeys \ {k})
    BY <1>1, <1>4, CutFit
  <1>6. k \in TreeKeys
    <2>1. isLeaf(m)
      BY <1>2, Parts
    <2> QED BY <1>3, <2>1 DEF TreeKeys
  <1> QED BY <1>3, <1>5, <1>6

-----------------------------------------------------------------------------
\* The steps of the calls on the trees.
TreesFit == TreeFit /\ TreeCallsFit /\ HolderFits /\ Led

LEMMA TreeAnswers ==
    ASSUME TreeCallsFit, NEW t \in Threads, pc[t] \in {"begin", "search"}, plan' = plan,
           NEW r \in {"true", "false"}, NEW l \in {"return", "release", "delete p"}, Answer(t, r, l)
    PROVE  /\ TreeCallsFit' /\ pc' = [pc EXCEPT ![t] = l] /\ op' = op /\ arg' = arg
           /\ Status[t] = "pending" /\ Status' = [Status EXCEPT ![t] = r]
           /\ arg[t] \in Keys
  <1>1. /\ res' = [res EXCEPT ![t] = r] /\ pc' = [pc EXCEPT ![t] = l] /\ op' = op /\ arg' = arg
    BY DEF Answer, Goto
  <1>2. pc[t] \in Trying /\ l \in Ending
    BY DEF Trying, Ending
  <1>3. TreeCallsFit'
    BY <1>1, <1>2, CallMoves
  <1>4. pc \in [Threads -> TreePlaces] /\ res \in [Threads -> {"pending", "true", "false"}]
    BY DEF TreeCallsFit
  <1>5. arg[t] \in Keys /\ Status[t] = "pending"
    BY <1>2, <1>4 DEF TreeCallsFit, Status
  <1>6. ASSUME NEW u \in Threads PROVE Status'[u] = IF u = t THEN r ELSE Status[u]
    BY <1>1, <1>4 DEF Status
  <1>7. Status' = [Status EXCEPT ![t] = r]
    BY <1>6 DEF Status
  <1> QED BY <1>1, <1>3, <1>5, <1>7

LEMMA Silent ==
    ASSUME pc \in [Threads -> TreePlaces], NEW t \in Threads, pc[t] # "idle",
           NEW l, l # "idle", pc' = [pc EXCEPT ![t] = l], res' = res
    PROVE  Status' = Status
  <1>1. \A u \in Threads : pc'[u] = "idle" <=> pc[u] = "idle"
    OBVIOUS
  <1> QED BY <1>1 DEF Status

\* What a call on key k answers where it finds m.
Tells(o, k, m, r) == \/ o = "contains" /\ r = IF key[m] = k THEN "true" ELSE "false"
                     \/ o = "insert" /\ key[m] = k /\ r = "false"
                     \/ o = "erase" /\ key[m] # k /\ r = "false"

LEMMA TellsRightly ==
    ASSUME TreeFit, ~prealloc, SeenInv, NEW t \in Threads, NEW k \in Keys, k = arg[t],
           NEW m \in Outer, On(m, k), NEW r, Tells(op[t], k, m, r),
           Status[t] = "pending", Status' = [Status EXCEPT ![t] = r],
           Contents = TreeKeys, Contents' = Contents, op' = op, arg' = arg
    PROVE  SetMoves(t)
  <1>1. key[m] = k <=> arg[t] \in Contents
    BY LeafTells
  <1>2. (arg[t] \in Contents) \in seen[t]
    BY DEF SeenInv
  <1>3. CASE key[m] = k
    <2>1. (arg[t] \in Contents) = TRUE
      BY <1>1, <1>3
    <2>2. TRUE \in seen[t]
      BY <1>2, <2>1, Zenon
    <2>3. CASE op[t] = "contains" /\ r = "true"
      BY <2>2, <2>3 DEF SetMoves, Set!Confirm
    <2>4. CASE op[t] = "insert" /\ r = "false"
      BY <2>2, <2>4 DEF SetMoves, Set!Decline
    <2> QED BY <1>3, <2>3, <2>4 DEF Tells
  <1>4. CASE key[m] # k
    <2>1. (arg[t] \in Contents) = FALSE
      BY <1>1, <1>4
    <2>2. FALSE \in seen[t]
      BY <1>2, <2>1, Zenon
    <2>3. CASE op[t] \in {"erase", "contains"} /\ r = "false"
      BY <2>2, <2>3 DEF SetMoves, Set!Decline
    <2> QED BY <1>4, <2>3 DEF Tells
  <1> QED BY <1>3, <1>4

\* What each step gives: the invariant, and the move of the set.
Moved(t) == SetMoves(t) \/ (Contents' = Contents /\ op' = op /\ arg' = arg /\ Status' = Status)
Stepped(t) == TreesFit' /\ (SeenInv /\ program = "tree" => Moved(t))

TheTree == /\ program \in Trees /\ program' = program /\ prealloc = (program = "prealloc")
           /\ TreesFit /\ NewFit

LEMMA TheContents == TheTree => Contents = TreeKeys /\ Contents' = TreeKeys'
  BY DEF TheTree, Contents, Trees

LEMMA LooksStep ==
    ASSUME TheTree, NEW t \in Threads, TreeLooks(t), plan' = plan
    PROVE  Stepped(t)
  <1>0. /\ TreeFit /\ TreeCallsFit /\ HolderFits /\ Led /\ pc \in [Threads -> TreePlaces]
        /\ prealloc = (program = "prealloc")
    BY DEF TheTree, TreesFit, TreeCallsFit
  <1>1. pc[t] = "begin" /\ UNCHANGED treeVars
    BY DEF TreeLooks, Transaction, At
  <1>2. UNCHANGED <<key, left, right, used, linked, lock, prealloc, nodeVars, pathVars>>
    BY <1>1 DEF treeVars, nodeVars, pathVars
  <1>3. PICK k, m : k = arg[t] /\ m = Search(arg[t])[3]
    OBVIOUS
  <1>4. PICK r \in {"true", "false"} : Answer(t, r, "return") /\ Tells(op[t], k, m, r)
    <2>1. Finds(t) <=> key[m] = k
      BY <1>3 DEF Finds
    <2> QED BY <2>1 DEF TreeLooks, Tells
  <1>5. /\ TreeCallsFit' /\ pc' = [pc EXCEPT ![t] = "return"] /\ op' = op /\ arg' = arg
        /\ Status[t] = "pending" /\ Status' = [Status EXCEPT ![t] = r]
        /\ arg[t] \in Keys
    BY <1>0, <1>1, <1>4, TreeAnswers
  <1>6. HolderFits' /\ Led'
    BY <1>0, <1>1, <1>2, <1>5, HolderAside DEF Holding
  <1>7. TreeFit' /\ TreeKeys' = TreeKeys
    <2>1. linked' \subseteq used' /\ used' \subseteq Addresses
      BY <1>0, <1>2 DEF TreeFit, FieldsFit
    <2> QED BY <1>0, <1>2, <2>1, SameTree
  <1>8. ASSUME SeenInv, program = "tree" PROVE SetMoves(t)
    <2>1. m \in Outer /\ On(m, k)
      BY <1>0, <1>3, SearchFinds DEF Path
    <2>2. Contents = TreeKeys /\ Contents' = Contents
      BY <1>7, TheContents
    <2> QED BY <1>0, <1>3, <1>4, <1>5, <1>8, <2>1, <2>2, TellsRightly
  <1> QED BY <1>5, <1>6, <1>7, <1>8 DEF Stepped, Moved, TreesFit

LEMMA WaitsStep ==
    ASSUME TheTree, NEW t \in Threads, Abort(t) \/ Retry(t), plan' = plan
    PROVE  Stepped(t)
  <1>0. /\ TreeFit /\ TreeCallsFit /\ HolderFits /\ Led /\ pc \in [Threads -> TreePlaces]
    BY DEF TheTree, TreesFit, TreeCallsFit
  <1>1. PICK l \in {"wait", "begin", "acquire"} : pc' = [pc EXCEPT ![t] = l]
    BY DEF Abort, Retry, Goto
  <1>2. pc[t] \in {"begin", "wait"} /\ op' = op /\ arg' = arg /\ res' = res
    BY DEF Abort, Retry, At
  <1>3. UNCHANGED <<key, left, right, used, linked, lock, prealloc, nodeVars, pathVars>>
    BY DEF Abort, Retry, treeVars, nodeVars, pathVars
  <1>4. TreeCallsFit'
    BY <1>0, <1>1, <1>2, CallMoves DEF Trying
  <1>5. HolderFits' /\ Led'
    BY <1>0, <1>1, <1>2, <1>3, HolderAside DEF Holding
  <1>6. TreeFit' /\ TreeKeys' = TreeKeys
    <2>1. linked' \subseteq used' /\ used' \subseteq Addresses
      BY <1>0, <1>3 DEF TreeFit, FieldsFit
    <2> QED BY <1>0, <1>3, <2>1, SameTree
  <1>7. Status' = Status
    BY <1>0, <1>1, <1>2, Silent
  <1>8. Contents' = Contents
    BY <1>6, TheContents
  <1> QED BY <1>2, <1>4, <1>5, <1>6, <1>7, <1>8 DEF Stepped, Moved, TreesFit

LEMMA ReturnsStep ==
    ASSUME TheTree, NEW t \in Threads, TreeReturn(t), plan' = plan
    PROVE  Stepped(t)
  <1>0. /\ TreeFit /\ TreeCallsFit /\ HolderFits /\ Led /\ pc \in [Threads -> TreePlaces]
        /\ op \in [Threads -> {"none", "insert", "erase", "contains"}]
        /\ arg \in [Threads -> Keys \cup {0}] /\ res \in [Threads -> {"pending", "true", "false"}]
    BY DEF TheTree, TreesFit, TreeCallsFit
  <1>1. /\ pc[t] = "return" /\ pc' = [pc EXCEPT ![t] = "idle"] /\ Return(t)
        /\ res' = [res EXCEPT ![t] = "pending"]
        /\ op' = [op EXCEPT ![t] = "none"] /\ arg' = [arg EXCEPT ![t] = 0]
    BY DEF TreeReturn, Return, Goto, At
  <1>2. UNCHANGED <<key, left, right, used, linked, lock, prealloc, nodeVars, pathVars>>
    BY DEF TreeReturn, nodeVars, pathVars
  <1>3. TreeCallsFit'
    BY <1>0, <1>1, CallEnds DEF Ending
  <1>4. HolderFits' /\ Led'
    <2>1. \A u \in Threads \ {t} : arg'[u] = arg[u]
      BY <1>0, <1>1
    <2> QED BY <1>0, <1>1, <1>2, <2>1, HolderAside DEF Holding
  <1>5. TreeFit' /\ TreeKeys' = TreeKeys
    <2>1. linked' \subseteq used' /\ used' \subseteq Addresses
      BY <1>0, <1>2 DEF TreeFit, FieldsFit
    <2> QED BY <1>0, <1>2, <2>1, SameTree
  <1>6. Contents' = Contents
    BY <1>5, TheContents
  <1>7. Status[t] \in {"true", "false"}
    BY <1>0, <1>1 DEF TreeCallsFit, Status, Ending
  <1>8. ASSUME NEW u \in Threads PROVE Status'[u] = IF u = t THEN "idle" ELSE Status[u]
    BY <1>0, <1>1 DEF Status
  <1>9. Status' = [Status EXCEPT ![t] = "idle"]
    BY <1>8 DEF Status
  <1>10. Set!Return(t)
    BY <1>1, <1>6, <1>7, <1>9 DEF Set!Return, Set!Answered
  <1> QED BY <1>3, <1>4, <1>5, <1>10 DEF Stepped, Moved, SetMoves, TreesFit

LEMMA InsertsStep ==
    ASSUME TheTree, NEW t \in Threads, TreeInserts(t), plan' = plan
    PROVE  Stepped(t)
  <1>0. /\ TreeFit /\ TreeCallsFit /\ HolderFits /\ pc \in [Threads -> TreePlaces]
        /\ gp \in [Threads -> Places \cup {NULL}] /\ p \in [Threads -> Places \cup {NULL}]
        /\ n \in [Threads -> Places \cup {NULL}] /\ prealloc = (program = "prealloc")
    BY DEF TheTree, TreesFit, TreeCallsFit, HolderFits
  <1>1. /\ pc[t] = "begin" /\ lock = NoThread /\ op[t] = "insert" /\ ~Finds(t)
        /\ Answer(t, "true", "return") /\ Link(t, arg[t], Search(arg[t])[2], Search(arg[t])[3])
        /\ UNCHANGED <<prealloc, lock, gp, p, n>>
    BY DEF TreeInserts, Transaction, At, pathVars
  <1>2. PICK k, g, q, m : /\ k = arg[t] /\ g = Search(arg[t])[1]
                          /\ q = Search(arg[t])[2] /\ m = Search(arg[t])[3]
    OBVIOUS
  <1>3. /\ TreeCallsFit' /\ pc' = [pc EXCEPT ![t] = "return"] /\ op' = op /\ arg' = arg
        /\ Status[t] = "pending" /\ Status' = [Status EXCEPT ![t] = "true"]
        /\ arg[t] \in Keys
    BY <1>0, <1>1, TreeAnswers
  <1>4. m \in Outer /\ Path(k, g, q, m) /\ key[m] # k /\ Link(t, k, q, m)
    BY <1>0, <1>1, <1>2, SearchFinds DEF Finds
  <1>5. /\ TreeFit' /\ TreeKeys' = TreeKeys \cup {k} /\ (~prealloc => k \notin TreeKeys)
        /\ \E two \in SUBSET Addresses : used' = used \cup two /\ linked' = linked \cup two
    <2>1. NewFit /\ (prealloc => Bringing(t))
      BY <1>0, <1>1 DEF TheTree, TreeCallsFit, Trying, Bringing
    <2> QED BY <1>0, <1>1, <1>2, <1>3, <1>4, <2>1, Insertion
  <1>6. HolderFits' /\ Led'
    <2>1. used' = linked'
      BY <1>0, <1>1, <1>5 DEF HolderFits
    <2>2. Unlinked(t)' = {}
      BY <1>0, <1>3 DEF Unlinked
    <2>3. NoThread \notin Threads
      BY BenchmarkThreads
    <2>4. gp' = gp /\ p' = p /\ n' = n /\ lock' = NoThread
      BY <1>1
    <2> QED BY <1>0, <1>1, <1>3, <2>1, <2>2, <2>3, <2>4, HolderDone DEF Holding
  <1>7. ASSUME program = "tree" PROVE Set!Add(t)
    <2>1. Contents = TreeKeys /\ Contents' = TreeKeys \cup {arg[t]} /\ arg[t] \notin TreeKeys
      BY <1>0, <1>2, <1>5, <1>7, TheContents
    <2> QED BY <1>1, <1>3, <2>1 DEF Set!Add
  <1> QED BY <1>3, <1>5, <1>6, <1>7 DEF Stepped, Moved, SetMoves, TreesFit

LEMMA ErasesStep ==
    ASSUME TheTree, NEW t \in Threads, TreeErases(t), plan' = plan
    PROVE  Stepped(t)
  <1>0. /\ TreeFit /\ TreeCallsFit /\ HolderFits /\ pc \in [Threads -> TreePlaces]
        /\ gp \in [Threads -> Places \cup {NULL}] /\ p \in [Threads -> Places \cup {NULL}]
        /\ n \in [Threads -> Places \cup {NULL}] /\ prealloc = (program = "prealloc")
    BY DEF TheTree, TreesFit, TreeCallsFit, HolderFits
  <1>1. /\ pc[t] = "begin" /\ lock = NoThread /\ op[t] = "erase" /\ Finds(t)
        /\ Answer(t, "true", "return")
        /\ Unlink(Search(arg[t])[1], Search(arg[t])[2], Search(arg[t])[3])
        /\ used' = used \ {Search(arg[t])[2], Search(arg[t])[3]}
        /\ UNCHANGED <<prealloc, key, lock, gp, p, n>>
    BY DEF TreeErases, Transaction, At, pathVars
  <1>2. PICK k, g, q, m : /\ k = arg[t] /\ g = Search(arg[t])[1]
                          /\ q = Search(arg[t])[2] /\ m = Search(arg[t])[3]
    OBVIOUS
  <1>3. /\ TreeCallsFit' /\ pc' = [pc EXCEPT ![t] = "return"] /\ op' = op /\ arg' = arg
        /\ Status[t] = "pending" /\ Status' = [Status EXCEPT ![t] = "true"]
        /\ arg[t] \in Keys
    BY <1>0, <1>1, TreeAnswers
  <1>4. m \in Outer /\ Path(k, g, q, m) /\ key[m] = k /\ Unlink(g, q, m) /\ used' = used \ {q, m}
    BY <1>0, <1>1, <1>2, SearchFinds DEF Finds
  <1>5. /\ TreeFit' /\ (~prealloc => TreeKeys' = TreeKeys \ {k} /\ k \in TreeKeys)
        /\ linked' = linked \ {q, m}
    BY <1>0, <1>1, <1>2, <1>3, <1>4, Erasure
  <1>6. HolderFits' /\ Led'
    <2>1. used' = linked'
      BY <1>0, <1>1, <1>4, <1>5 DEF HolderFits
    <2>2. Unlinked(t)' = {}
      BY <1>0, <1>3 DEF Unlinked
    <2>3. NoThread \notin Threads
      BY BenchmarkThreads
    <2>4. gp' = gp /\ p' = p /\ n' = n /\ lock' = NoThread
      BY <1>1
    <2> QED BY <1>0, <1>1, <1>3, <2>1, <2>2, <2>3, <2>4, HolderDone, ZenonT(60) DEF Holding
  <1>7. ASSUME program = "tree" PROVE Set!Remove(t)
    <2>1. Contents = TreeKeys /\ Contents' = TreeKeys \ {arg[t]} /\ arg[t] \in TreeKeys
      BY <1>0, <1>2, <1>5, <1>7, TheContents
    <2> QED BY <1>1, <1>3, <2>1 DEF Set!Remove
  <1> QED BY <1>3, <1>5, <1>6, <1>7 DEF Stepped, Moved, SetMoves, TreesFit

\* The holder of the lock.
LEMMA AcquireStep ==
    ASSUME TheTree, NEW t \in Threads, Acquire(t), plan' = plan
    PROVE  Stepped(t)
  <1>0. /\ TreeFit /\ TreeCallsFit /\ HolderFits /\ Led /\ pc \in [Threads -> TreePlaces]
        /\ gp \in [Threads -> Places \cup {NULL}] /\ p \in [Threads -> Places \cup {NULL}]
        /\ n \in [Threads -> Places \cup {NULL}]
    BY DEF TheTree, TreesFit, TreeCallsFit, HolderFits
  <1>1. /\ pc[t] = "acquire" /\ lock = NoThread /\ lock' = t /\ pc' = [pc EXCEPT ![t] = "search"]
        /\ gp' = [gp EXCEPT ![t] = NULL] /\ p' = [p EXCEPT ![t] = NULL] /\ n' = [n EXCEPT ![t] = Root]
        /\ op' = op /\ arg' = arg /\ res' = res
        /\ UNCHANGED <<prealloc, key, left, right, used, linked>>
    BY DEF Acquire, At, Goto, nodeVars
  <1>2. TreeCallsFit'
    BY <1>0, <1>1, CallMoves DEF Trying
  <1>3. TreeFit' /\ TreeKeys' = TreeKeys
    <2>1. linked' \subseteq used' /\ used' \subseteq Addresses
      BY <1>0, <1>1 DEF TreeFit, FieldsFit
    <2> QED BY <1>0, <1>1, <2>1, SameTree
  <1>4. \A u \in Threads : pc[u] \notin Holding
    BY <1>0, <1>1, BenchmarkThreads DEF HolderFits
  <1>5. \A u \in Threads : pc'[u] \in Holding <=> u = t
    BY <1>0, <1>1, <1>4 DEF Holding
  <1>6. \A u \in Threads : Unlinked(u)' = {} /\ pc'[u] # "delete p" /\ (pc'[u] = "search" => u = t)
    BY <1>0, <1>1, <1>4, <1>5 DEF Unlinked, Holding
  <1>7. HolderFits'
    <2>1. /\ gp' \in [Threads -> Places \cup {NULL}] /\ p' \in [Threads -> Places \cup {NULL}]
          /\ n' \in [Threads -> Places \cup {NULL}]
      BY <1>0, <1>1, Distinct
    <2>2. used' = linked'
      BY <1>0, <1>1 DEF HolderFits
    <2> QED BY <1>1, <1>5, <1>6, <2>1, <2>2 DEF HolderFits
  <1>8. Led'
    <2>1. \A k : Path(k, NULL, NULL, Root)
      BY <1>0, PathStarts DEF TreeFit
    <2>2. \A k : Path(k, NULL, NULL, Root)'
      BY <1>1, <2>1, SameTree
    <2>3. gp'[t] = NULL /\ p'[t] = NULL /\ n'[t] = Root
      BY <1>0, <1>1
    <2> QED BY <1>6, <2>2, <2>3 DEF Led
  <1>9. Status' = Status
    BY <1>0, <1>1, Silent
  <1>10. Contents' = Contents
    BY <1>3, TheContents
  <1> QED BY <1>1, <1>2, <1>3, <1>7, <1>8, <1>9, <1>10 DEF Stepped, Moved, TreesFit

LEMMA DescendStep ==
    ASSUME TheTree, NEW t \in Threads, Descend(t), plan' = plan
    PROVE  Stepped(t)
  <1>0. /\ TreeFit /\ TreeCallsFit /\ HolderFits /\ Led /\ pc \in [Threads -> TreePlaces]
        /\ gp \in [Threads -> Places \cup {NULL}] /\ p \in [Threads -> Places \cup {NULL}]
        /\ n \in [Threads -> Places \cup {NULL}]
    BY DEF TheTree, TreesFit, TreeCallsFit, HolderFits
  <1>1. /\ pc[t] = "search" /\ ~isLeaf(n[t])
        /\ gp' = [gp EXCEPT ![t] = p[t]] /\ p' = [p EXCEPT ![t] = n[t]]
        /\ n' = [n EXCEPT ![t] = Child(n[t], arg[t])]
        /\ pc' = pc /\ op' = op /\ arg' = arg /\ res' = res /\ lock' = lock
        /\ UNCHANGED <<prealloc, key, left, right, used, linked>>
    BY DEF Descend, At, callVars, nodeVars
  <1>2. TreeCallsFit'
    BY <1>0, <1>1 DEF TreeCallsFit
  <1>3. TreeFit' /\ TreeKeys' = TreeKeys
    <2>1. linked' \subseteq used' /\ used' \subseteq Addresses
      BY <1>0, <1>1 DEF TreeFit, FieldsFit
    <2> QED BY <1>0, <1>1, <2>1, SameTree
  <1>4. PICK k, g, q, m : k = arg[t] /\ g = gp[t] /\ q = p[t] /\ m = n[t]
    OBVIOUS
  <1>5. Path(k, g, q, m) /\ m \in Inner
    <2>1. Path(k, g, q, m)
      BY <1>0, <1>1, <1>4 DEF Led
    <2>2. m \in Tree
      BY <2>1 DEF Path
    <2> QED BY <1>0, <1>1, <1>4, <2>1, <2>2, Parts DEF TreeFit
  <1>6. PICK o : o = Child(m, k)
    OBVIOUS
  <1>7. Path(k, q, m, o)'
    <2>1. Path(k, q, m, o)
      BY <1>0, <1>5, <1>6, PathGoesOn DEF TreeFit
    <2> QED BY <1>1, <2>1, SameTree
  <1>8. o \in Places
    BY <1>0, <1>5, <1>6, ChildSide, Parts DEF TreeFit, Shape
  <1>9. /\ gp' = [gp EXCEPT ![t] = q] /\ p' = [p EXCEPT ![t] = m] /\ n' = [n EXCEPT ![t] = o]
    BY <1>1, <1>4, <1>6
  <1>10. \A u \in Threads \ {t} : pc[u] \notin Holding
    BY <1>0, <1>1 DEF HolderFits, Holding
  <1>11. \A u \in Threads : Unlinked(u)' = Unlinked(u) /\ pc[u] # "delete p"
    BY <1>1, <1>10 DEF Unlinked, Holding
  <1>12. HolderFits'
    <2>1. /\ gp' \in [Threads -> Places \cup {NULL}] /\ p' \in [Threads -> Places \cup {NULL}]
          /\ n' \in [Threads -> Places \cup {NULL}]
      BY <1>0, <1>4, <1>8, <1>9
    <2>2. \A u \in Threads : pc'[u] \in Holding <=> lock' = u
      BY <1>0, <1>1 DEF HolderFits
    <2>3. ASSUME NEW u \in Threads
          PROVE  Unlinked(u)' \subseteq Addresses \ linked' /\ (lock' = u => used' = linked' \cup Unlinked(u)')
      <3>1. Unlinked(u) \subseteq Addresses \ linked /\ (lock = u => used = linked \cup Unlinked(u))
        BY <1>0 DEF HolderFits
      <3>2. Unlinked(u)' = Unlinked(u)
        BY <1>11
      <3> QED BY <1>1, <3>1, <3>2
    <2>4. lock' \in Threads \cup {NoThread} /\ (lock' = NoThread => used' = linked')
      BY <1>0, <1>1 DEF HolderFits
    <2>5. \A u \in Threads : pc'[u] # "delete p"
      BY <1>1, <1>11
    <2> QED BY <2>1, <2>2, <2>3, <2>4, <2>5 DEF HolderFits
  <1>13. Led'
    <2>1. gp'[t] = q /\ p'[t] = m /\ n'[t] = o /\ arg'[t] = k
      BY <1>0, <1>1, <1>4, <1>9
    <2>2. \A u \in Threads : pc'[u] = "search" => u = t
      BY <1>1, <1>10 DEF Holding
    <2> QED BY <1>7, <2>1, <2>2 DEF Led
  <1>14. Status' = Status /\ Contents' = Contents
    BY <1>1, <1>3, TheContents DEF Status
  <1> QED BY <1>1, <1>2, <1>3, <1>12, <1>13, <1>14 DEF Stepped, Moved, TreesFit

\* Where the holder has got to when its search is over.
LEMMA SearchedThere ==
    ASSUME TheTree, NEW t \in Threads, pc[t] = "search", isLeaf(n[t]),
           NEW k, NEW g, NEW q, NEW m, k = arg[t], g = gp[t], q = p[t], m = n[t]
    PROVE  /\ Path(k, g, q, m) /\ m \in Outer /\ On(m, k) /\ k \in Keys
           /\ lock = t /\ used = linked
  <1>0. TreeFit /\ TreeCallsFit /\ HolderFits /\ Led
    BY DEF TheTree, TreesFit
  <1>1. Path(k, g, q, m)
    BY <1>0 DEF Led
  <1>2. m \in Tree /\ On(m, k)
    BY <1>1 DEF Path
  <1>3. m \in Outer
    BY <1>0, <1>2, Parts DEF TreeFit
  <1>4. k \in Keys
    BY <1>0 DEF TreeCallsFit, Trying
  <1>5. lock = t
    BY <1>0 DEF HolderFits, Holding
  <1>6. used = linked
    BY <1>0, <1>5 DEF HolderFits, Unlinked
  <1> QED BY <1>1, <1>2, <1>3, <1>4, <1>5, <1>6

LEMMA LockedLooksStep ==
    ASSUME TheTree, NEW t \in Threads, LockedLooks(t), plan' = plan
    PROVE  Stepped(t)
  <1>0. /\ TreeFit /\ TreeCallsFit /\ HolderFits /\ pc \in [Threads -> TreePlaces]
        /\ gp \in [Threads -> Places \cup {NULL}] /\ p \in [Threads -> Places \cup {NULL}]
        /\ n \in [Threads -> Places \cup {NULL}] /\ prealloc = (program = "prealloc")
    BY DEF TheTree, TreesFit, TreeCallsFit, HolderFits
  <1>1. /\ pc[t] = "search" /\ isLeaf(n[t])
        /\ UNCHANGED <<prealloc, key, left, right, used, linked, lock, gp, p, n>>
    BY DEF LockedLooks, Searched, At, treeVars, nodeVars, pathVars
  <1>2. PICK k, g, q, m : k = arg[t] /\ g = gp[t] /\ q = p[t] /\ m = n[t]
    OBVIOUS
  <1>3. m \in Outer /\ On(m, k) /\ k \in Keys /\ lock = t /\ used = linked
    BY <1>1, <1>2, SearchedThere
  <1>4. PICK r \in {"true", "false"} : Answer(t, r, "release") /\ Tells(op[t], k, m, r)
    BY <1>2 DEF LockedLooks, Searched, Present, Tells
  <1>5. /\ TreeCallsFit' /\ pc' = [pc EXCEPT ![t] = "release"] /\ op' = op /\ arg' = arg
        /\ Status[t] = "pending" /\ Status' = [Status EXCEPT ![t] = r]
    BY <1>0, <1>1, <1>4, TreeAnswers
  <1>6. HolderFits' /\ Led'
    <2>1. Unlinked(t)' = {}
      BY <1>0, <1>5 DEF Unlinked
    <2>2. gp' = gp /\ p' = p /\ n' = n /\ lock' = t /\ used' = linked'
      BY <1>1, <1>3
    <2> QED BY <1>0, <1>3, <1>5, <2>1, <2>2, HolderDone DEF Holding
  <1>7. TreeFit' /\ TreeKeys' = TreeKeys
    <2>1. linked' \subseteq used' /\ used' \subseteq Addresses
      BY <1>0, <1>1 DEF TreeFit, FieldsFit
    <2> QED BY <1>0, <1>1, <2>1, SameTree
  <1>8. ASSUME SeenInv, program = "tree" PROVE SetMoves(t)
    <2>1. Contents = TreeKeys /\ Contents' = Contents
      BY <1>7, TheContents
    <2> QED BY <1>0, <1>2, <1>3, <1>4, <1>5, <1>8, <2>1, TellsRightly
  <1> QED BY <1>5, <1>6, <1>7, <1>8 DEF Stepped, Moved, TreesFit

LEMMA LockedInsertStep ==
    ASSUME TheTree, NEW t \in Threads, LockedInsert(t), plan' = plan
    PROVE  Stepped(t)
  <1>0. /\ TreeFit /\ TreeCallsFit /\ HolderFits /\ pc \in [Threads -> TreePlaces]
        /\ gp \in [Threads -> Places \cup {NULL}] /\ p \in [Threads -> Places \cup {NULL}]
        /\ n \in [Threads -> Places \cup {NULL}] /\ prealloc = (program = "prealloc")
    BY DEF TheTree, TreesFit, TreeCallsFit, HolderFits
  <1>1. /\ pc[t] = "search" /\ isLeaf(n[t]) /\ op[t] = "insert" /\ key[n[t]] # arg[t]
        /\ Answer(t, "true", "release") /\ Link(t, arg[t], p[t], n[t])
        /\ UNCHANGED <<prealloc, lock, gp, p, n>>
    BY DEF LockedInsert, Searched, Present, At, pathVars
  <1>2. PICK k, g, q, m : k = arg[t] /\ g = gp[t] /\ q = p[t] /\ m = n[t]
    OBVIOUS
  <1>3. Path(k, g, q, m) /\ m \in Outer /\ k \in Keys /\ lock = t /\ used = linked
    BY <1>1, <1>2, SearchedThere
  <1>4. key[m] # k /\ Link(t, k, q, m)
    BY <1>1, <1>2
  <1>5. /\ TreeCallsFit' /\ pc' = [pc EXCEPT ![t] = "release"] /\ op' = op /\ arg' = arg
        /\ Status[t] = "pending" /\ Status' = [Status EXCEPT ![t] = "true"]
    BY <1>0, <1>1, TreeAnswers
  <1>6. /\ TreeFit' /\ TreeKeys' = TreeKeys \cup {k} /\ (~prealloc => k \notin TreeKeys)
        /\ \E two \in SUBSET Addresses : used' = used \cup two /\ linked' = linked \cup two
    <2>1. NewFit /\ (prealloc => Bringing(t))
      BY <1>0, <1>1 DEF TheTree, TreeCallsFit, Trying, Bringing
    <2> QED BY <1>0, <1>1, <1>3, <1>4, <2>1, Insertion
  <1>7. HolderFits' /\ Led'
    <2>1. Unlinked(t)' = {}
      BY <1>0, <1>5 DEF Unlinked
    <2>2. gp' = gp /\ p' = p /\ n' = n /\ lock' = t /\ used' = linked'
      BY <1>1, <1>3, <1>6
    <2> QED BY <1>0, <1>3, <1>5, <2>1, <2>2, HolderDone DEF Holding
  <1>8. ASSUME program = "tree" PROVE Set!Add(t)
    <2>1. Contents = TreeKeys /\ Contents' = TreeKeys \cup {arg[t]} /\ arg[t] \notin TreeKeys
      BY <1>0, <1>2, <1>6, <1>8, TheContents
    <2> QED BY <1>1, <1>5, <2>1 DEF Set!Add
  <1> QED BY <1>5, <1>6, <1>7, <1>8 DEF Stepped, Moved, SetMoves, TreesFit

LEMMA LockedEraseStep ==
    ASSUME TheTree, NEW t \in Threads, LockedErase(t), plan' = plan
    PROVE  Stepped(t)
  <1>0. /\ TreeFit /\ TreeCallsFit /\ HolderFits /\ pc \in [Threads -> TreePlaces]
        /\ gp \in [Threads -> Places \cup {NULL}] /\ p \in [Threads -> Places \cup {NULL}]
        /\ n \in [Threads -> Places \cup {NULL}] /\ prealloc = (program = "prealloc")
    BY DEF TheTree, TreesFit, TreeCallsFit, HolderFits
  <1>1. /\ pc[t] = "search" /\ isLeaf(n[t]) /\ op[t] = "erase" /\ key[n[t]] = arg[t]
        /\ Answer(t, "true", "delete p") /\ Unlink(gp[t], p[t], n[t])
        /\ UNCHANGED <<prealloc, key, used, lock, gp, p, n>>
    BY DEF LockedErase, Searched, Present, At, pathVars
  <1>2. PICK k, g, q, m : k = arg[t] /\ g = gp[t] /\ q = p[t] /\ m = n[t]
    OBVIOUS
  <1>3. Path(k, g, q, m) /\ m \in Outer /\ k \in Keys /\ lock = t /\ used = linked
    BY <1>1, <1>2, SearchedThere
  <1>4. key[m] = k /\ Unlink(g, q, m) /\ key' = key /\ used' = used
    BY <1>1, <1>2
  <1>5. /\ TreeCallsFit' /\ pc' = [pc EXCEPT ![t] = "delete p"] /\ op' = op /\ arg' = arg
        /\ Status[t] = "pending" /\ Status' = [Status EXCEPT ![t] = "true"]
    BY <1>0, <1>1, TreeAnswers
  <1>6. /\ TreeFit' /\ (~prealloc => TreeKeys' = TreeKeys \ {k} /\ k \in TreeKeys)
        /\ q \in linked /\ m \in linked /\ q # m /\ linked' = linked \ {q, m}
    <2>1. prealloc' = prealloc /\ used' \in {used, used \ {q, m}} /\ key' = key
      BY <1>1
    <2>2. TreeFit /\ k \in Keys /\ Path(k, g, q, m) /\ m \in Outer /\ key[m] = k /\ Unlink(g, q, m)
      BY <1>0, <1>3, <1>4
    <2> QED BY <2>1, <2>2, Erasure
  <1>7. HolderFits' /\ Led'
    <2>1. gp' = gp /\ p' = p /\ n' = n /\ lock' = t /\ p'[t] = q /\ n'[t] = m
      BY <1>1, <1>2, <1>3
    <2>2. Unlinked(t)' = {q, m}
      BY <1>0, <1>5, <2>1 DEF Unlinked
    <2>3. {q, m} \subseteq Addresses \ linked' /\ used' = linked' \cup {q, m}
      BY <1>0, <1>3, <1>4, <1>6 DEF TreeFit, FieldsFit
    <2>4. p'[t] # n'[t]
      BY <1>6, <2>1
    <2> QED BY <1>0, <1>3, <1>5, <2>1, <2>2, <2>3, <2>4, HolderDone DEF Holding
  <1>8. ASSUME program = "tree" PROVE Set!Remove(t)
    <2>1. Contents = TreeKeys /\ Contents' = TreeKeys \ {arg[t]} /\ arg[t] \in TreeKeys
      BY <1>0, <1>2, <1>6, <1>8, TheContents
    <2> QED BY <1>1, <1>5, <2>1 DEF Set!Remove
  <1> QED BY <1>5, <1>6, <1>7, <1>8 DEF Stepped, Moved, SetMoves, TreesFit

LEMMA DeletesStep ==
    ASSUME TheTree, NEW t \in Threads, DeleteParent(t) \/ DeleteLeaf(t), plan' = plan
    PROVE  Stepped(t)
  <1>0. /\ TreeFit /\ TreeCallsFit /\ HolderFits /\ pc \in [Threads -> TreePlaces]
        /\ gp \in [Threads -> Places \cup {NULL}] /\ p \in [Threads -> Places \cup {NULL}]
        /\ n \in [Threads -> Places \cup {NULL}]
    BY DEF TheTree, TreesFit, TreeCallsFit, HolderFits
  <1>1. /\ op' = op /\ arg' = arg /\ res' = res
        /\ UNCHANGED <<prealloc, key, left, right, linked, lock, gp, p, n>>
    BY DEF DeleteParent, DeleteLeaf, Delete, pathVars
  <1>2. \/ /\ pc[t] = "delete p" /\ pc' = [pc EXCEPT ![t] = "delete n"] /\ used' = used \ {p[t]}
        \/ /\ pc[t] = "delete n" /\ pc' = [pc EXCEPT ![t] = "release"] /\ used' = used \ {n[t]}
    BY DEF DeleteParent, DeleteLeaf, Delete, At, Goto
  <1>3. lock = t /\ used = linked \cup Unlinked(t) /\ Unlinked(t) \subseteq Addresses \ linked
    BY <1>0, <1>2 DEF HolderFits, Holding
  <1>4. /\ Unlinked(t)' \subseteq Addresses \ linked /\ used' = linked \cup Unlinked(t)'
    <2>1. CASE pc[t] = "delete p" /\ pc' = [pc EXCEPT ![t] = "delete n"] /\ used' = used \ {p[t]}
      <3>1. Unlinked(t) = {p[t], n[t]} /\ p[t] # n[t]
        BY <1>0, <2>1 DEF HolderFits, Unlinked
      <3>2. Unlinked(t)' = {n[t]}
        BY <1>0, <1>1, <2>1 DEF Unlinked
      <3> QED BY <1>3, <2>1, <3>1, <3>2
    <2>2. CASE pc[t] = "delete n" /\ pc' = [pc EXCEPT ![t] = "release"] /\ used' = used \ {n[t]}
      <3>1. Unlinked(t) = {n[t]}
        BY <2>2 DEF Unlinked
      <3>2. Unlinked(t)' = {}
        BY <1>0, <2>2 DEF Unlinked
      <3> QED BY <1>3, <2>2, <3>1, <3>2
    <2> QED BY <1>2, <2>1, <2>2
  <1>5. PICK l \in {"delete n", "release"} : pc' = [pc EXCEPT ![t] = l]
    BY <1>2
  <1>6. TreeCallsFit'
    BY <1>0, <1>1, <1>2, <1>5, CallEnds DEF Ending
  <1>7. HolderFits' /\ Led'
    <2>1. gp' = gp /\ p' = p /\ n' = n /\ lock' = t /\ linked' = linked
      BY <1>1, <1>3
    <2> QED BY <1>0, <1>3, <1>4, <1>5, <2>1, HolderDone DEF Holding
  <1>8. TreeFit' /\ TreeKeys' = TreeKeys
    <2>1. linked' \subseteq used' /\ used' \subseteq Addresses
      BY <1>0, <1>1, <1>4 DEF TreeFit, FieldsFit
    <2> QED BY <1>0, <1>1, <2>1, SameTree
  <1>9. Status' = Status /\ Contents' = Contents
    BY <1>0, <1>1, <1>2, <1>5, <1>8, Silent, TheContents
  <1> QED BY <1>1, <1>6, <1>7, <1>8, <1>9 DEF Stepped, Moved, TreesFit

LEMMA ReleaseStep ==
    ASSUME TheTree, NEW t \in Threads, Release(t), plan' = plan
    PROVE  Stepped(t)
  <1>0. /\ TreeFit /\ TreeCallsFit /\ HolderFits /\ pc \in [Threads -> TreePlaces]
        /\ gp \in [Threads -> Places \cup {NULL}] /\ p \in [Threads -> Places \cup {NULL}]
        /\ n \in [Threads -> Places \cup {NULL}]
    BY DEF TheTree, TreesFit, TreeCallsFit, HolderFits
  <1>1. /\ pc[t] = "release" /\ pc' = [pc EXCEPT ![t] = "return"] /\ lock' = NoThread
        /\ gp' = [gp EXCEPT ![t] = NULL] /\ p' = [p EXCEPT ![t] = NULL] /\ n' = [n EXCEPT ![t] = NULL]
        /\ op' = op /\ arg' = arg /\ res' = res
        /\ UNCHANGED <<prealloc, key, left, right, used, linked>>
    BY DEF Release, At, Goto, nodeVars
  <1>2. lock = t /\ used = linked
    BY <1>0, <1>1 DEF HolderFits, Holding, Unlinked
  <1>3. TreeCallsFit'
    BY <1>0, <1>1, CallEnds DEF Ending
  <1>4. HolderFits' /\ Led'
    <2>1. /\ gp' \in [Threads -> Places \cup {NULL}] /\ p' \in [Threads -> Places \cup {NULL}]
          /\ n' \in [Threads -> Places \cup {NULL}]
      BY <1>0, <1>1
    <2>2. Unlinked(t)' = {}
      BY <1>0, <1>1 DEF Unlinked
    <2>3. used' = linked' /\ lock' # t
      BY <1>1, <1>2, BenchmarkThreads
    <2> QED BY <1>0, <1>1, <1>2, <2>1, <2>2, <2>3, HolderDone DEF Holding
  <1>5. TreeFit' /\ TreeKeys' = TreeKeys
    <2>1. linked' \subseteq used' /\ used' \subseteq Addresses
      BY <1>0, <1>1 DEF TreeFit, FieldsFit
    <2> QED BY <1>0, <1>1, <2>1, SameTree
  <1>6. Status' = Status /\ Contents' = Contents
    BY <1>0, <1>1, <1>5, Silent, TheContents
  <1> QED BY <1>1, <1>3, <1>4, <1>5, <1>6 DEF Stepped, Moved, TreesFit

LEMMA TreesWorkSteps ==
    ASSUME TheTree, NEW t \in Threads, TreesWork(t)
    PROVE  Stepped(t)
  BY LooksStep, InsertsStep, ErasesStep, WaitsStep, AcquireStep, DescendStep, LockedLooksStep,
     LockedInsertStep, LockedEraseStep, DeletesStep, ReleaseStep, ReturnsStep
  DEF TreesWork, TreeWork

LEMMA TreeStarts ==
    ASSUME TheTree, NEW t \in Threads, Start(t)
    PROVE  TreesFit' /\ Set!Invoke(t)
  <1>0. /\ TreeFit /\ TreeCallsFit /\ HolderFits /\ Led /\ pc \in [Threads -> TreePlaces]
        /\ op \in [Threads -> {"none", "insert", "erase", "contains"}]
        /\ arg \in [Threads -> Keys \cup {0}] /\ res \in [Threads -> {"pending", "true", "false"}]
    BY DEF TheTree, TreesFit, TreeCallsFit
  <1>1. /\ TreeCallsFit' /\ pc[t] = "idle" /\ pc' = [pc EXCEPT ![t] = "begin"]
        /\ res' = res /\ TreeCall(t)
        /\ \E c \in TreeDraws : op' = [op EXCEPT ![t] = c[1]] /\ arg' = [arg EXCEPT ![t] = c[2]]
    BY <1>0, TreeStartFits
  <1>2. UNCHANGED <<key, left, right, used, linked, lock, prealloc, nodeVars, pathVars>>
    BY <1>1 DEF TreeCall, nodeVars, pathVars
  <1>3. PICK c \in TreeDraws : op' = [op EXCEPT ![t] = c[1]] /\ arg' = [arg EXCEPT ![t] = c[2]]
    BY <1>1
  <1>4. HolderFits' /\ Led'
    <2>1. \A u \in Threads \ {t} : arg'[u] = arg[u]
      BY <1>0, <1>3
    <2> QED BY <1>0, <1>1, <1>2, <2>1, HolderAside DEF Holding
  <1>5. TreeFit' /\ TreeKeys' = TreeKeys
    <2>1. linked' \subseteq used' /\ used' \subseteq Addresses
      BY <1>0, <1>2 DEF TreeFit, FieldsFit
    <2> QED BY <1>0, <1>2, <2>1, SameTree
  <1>6. Contents' = Contents
    BY <1>5, TheContents
  <1>7. res[t] = "pending"
    BY <1>0, <1>1 DEF TreeCallsFit
  <1>8. ASSUME NEW u \in Threads PROVE Status'[u] = IF u = t THEN "pending" ELSE Status[u]
    BY <1>0, <1>1, <1>7 DEF Status
  <1>9. Status' = [Status EXCEPT ![t] = "pending"] /\ Status[t] = "idle"
    BY <1>1, <1>8 DEF Status
  <1>10. c[1] \in Set!Ops /\ c[2] \in Keys
    BY DEF TreeDraws, Set!Ops
  <1>11. Set!Invoke(t)
    BY <1>3, <1>6, <1>9, <1>10 DEF Set!Invoke
  <1> QED BY <1>1, <1>4, <1>5, <1>11 DEF TreesFit

-----------------------------------------------------------------------------
\* The nodes that inserts have allocated and not linked.
LEMMA NewKept ==
    ASSUME NewFit, prealloc' = prealloc, UNCHANGED newVars, used' \subseteq used,
           \A u \in Threads : Bringing(u)' <=> Bringing(u)
    PROVE  NewFit'
  <1>1. newLeaf' = newLeaf /\ newInternal' = newInternal /\ lost' = lost
    BY DEF newVars
  <1>2. \A u \in Threads : Brought(u)' = Brought(u)
    BY <1>1 DEF Brought
  <1>3. \A u \in Threads :
          /\ Brought(u)' \cap (used' \cup lost') = {}
          /\ \A v \in Threads \ {u} : Brought(u)' \cap Brought(v)' = {}
    BY <1>1, <1>2 DEF NewFit
  <1>4. \A u \in Threads :
          IF Bringing(u)' THEN newLeaf'[u] # NULL /\ newInternal'[u] # NULL /\ newLeaf'[u] # newInternal'[u]
                          ELSE newLeaf'[u] = NULL /\ newInternal'[u] = NULL
    BY <1>1 DEF NewFit
  <1>5. /\ newLeaf' \in [Threads -> Addresses \cup {NULL}]
        /\ newInternal' \in [Threads -> Addresses \cup {NULL}]
        /\ lost' \subseteq Addresses \ used' /\ (~prealloc' => lost' = {})
    BY <1>1 DEF NewFit
  <1> QED BY <1>3, <1>4, <1>5 DEF NewFit

\* Steps after which t has no new nodes: those that it had are linked, or lost, and no others are.
LEMMA NewGone ==
    ASSUME NewFit, NEW t \in Threads, prealloc' = prealloc,
           newLeaf' = [newLeaf EXCEPT ![t] = NULL], newInternal' = [newInternal EXCEPT ![t] = NULL],
           ~Bringing(t)', \A u \in Threads \ {t} : Bringing(u)' <=> Bringing(u),
           lost' \subseteq Addresses \ used', ~prealloc => lost' = {},
           \A u \in Threads \ {t} : Brought(u) \cap (used' \cup lost') = {}
    PROVE  NewFit'
  <1>1. /\ newLeaf' \in [Threads -> Addresses \cup {NULL}] /\ newLeaf'[t] = NULL
        /\ newInternal' \in [Threads -> Addresses \cup {NULL}] /\ newInternal'[t] = NULL
        /\ \A u \in Threads \ {t} : newLeaf'[u] = newLeaf[u] /\ newInternal'[u] = newInternal[u]
    BY DEF NewFit
  <1>2. Brought(t)' = {} /\ \A u \in Threads \ {t} : Brought(u)' = Brought(u)
    BY <1>1 DEF Brought
  <1>3. \A u \in Threads :
          /\ Brought(u)' \cap (used' \cup lost') = {}
          /\ \A v \in Threads \ {u} : Brought(u)' \cap Brought(v)' = {}
    BY <1>2 DEF NewFit
  <1>4. \A u \in Threads :
          IF Bringing(u)' THEN newLeaf'[u] # NULL /\ newInternal'[u] # NULL /\ newLeaf'[u] # newInternal'[u]
                          ELSE newLeaf'[u] = NULL /\ newInternal'[u] = NULL
    BY <1>1 DEF NewFit
  <1> QED BY <1>1, <1>3, <1>4 DEF NewFit

LEMMA NewLinked ==
    ASSUME NewFit, NEW t \in Threads, prealloc => Bringing(t), prealloc' = prealloc, op' = op,
           lost' = lost, res \in [Threads -> {"pending", "true", "false"}],
           res' = [res EXCEPT ![t] = "true"], NEW k, NEW q, NEW m, Link(t, k, q, m)
    PROVE  NewFit'
  <1>1. PICK l, i : Nodes(t, l, i)
    BY DEF Nodes
  <1>2. /\ newLeaf' = [newLeaf EXCEPT ![t] = NULL] /\ newInternal' = [newInternal EXCEPT ![t] = NULL]
        /\ used' = used \cup {l, i} /\ (~prealloc => Cardinality(Unused) >= 2)
    BY <1>1 DEF Link, Nodes
  <1>3. /\ l \notin lost /\ i \notin lost
        /\ \A u \in Threads \ {t} : l \notin Brought(u) /\ i \notin Brought(u)
    BY <1>1, <1>2, NodesNew
  <1>4. /\ lost' \subseteq Addresses \ used' /\ (~prealloc => lost' = {})
        /\ \A u \in Threads \ {t} : Brought(u) \cap (used' \cup lost') = {}
    BY <1>2, <1>3 DEF NewFit
  <1>5. ~Bringing(t)' /\ \A u \in Threads \ {t} : Bringing(u)' <=> Bringing(u)
    BY DEF Bringing
  <1> QED BY <1>2, <1>4, <1>5, NewGone

LEMMA NewLost ==
    ASSUME TheTree, NEW t \in Threads, TreeReturn(t)
    PROVE  NewFit'
  <1>1. /\ newLeaf' = [newLeaf EXCEPT ![t] = NULL] /\ newInternal' = [newInternal EXCEPT ![t] = NULL]
        /\ lost' = lost \cup Brought(t) /\ used' = used /\ prealloc' = prealloc
    BY DEF TreeReturn, nodeVars
  <1>2. /\ op' = [op EXCEPT ![t] = "none"] /\ res' = [res EXCEPT ![t] = "pending"]
        /\ op \in [Threads -> {"none", "insert", "erase", "contains"}]
        /\ res \in [Threads -> {"pending", "true", "false"}] /\ NewFit
    BY DEF TreeReturn, Return, TheTree, TreesFit, TreeCallsFit
  <1>3. ~Bringing(t)' /\ \A u \in Threads \ {t} : Bringing(u)' <=> Bringing(u)
    BY <1>1, <1>2 DEF Bringing
  <1>4. Brought(t) \subseteq Addresses \ used /\ (~prealloc => Brought(t) = {})
    BY <1>2 DEF NewFit, Brought, Bringing
  <1>5. /\ lost' \subseteq Addresses \ used' /\ (~prealloc => lost' = {})
        /\ \A u \in Threads \ {t} : Brought(u) \cap (used' \cup lost') = {}
    BY <1>1, <1>2, <1>4 DEF NewFit
  <1> QED BY <1>1, <1>2, <1>3, <1>5, NewGone

LEMMA NewBrought ==
    ASSUME TheTree, NEW t \in Threads, Start(t)
    PROVE  NewFit'
  <1>0. TreeCallsFit /\ NewFit
    BY DEF TheTree, TreesFit
  <1>1. /\ pc[t] = "idle" /\ res' = res /\ TreeCall(t) /\ op' \in [Threads -> {"none", "insert", "erase", "contains"}]
        /\ \A u \in Threads \ {t} : op'[u] = op[u]
        /\ res[t] = "pending"
    <2>1. /\ TreeCallsFit' /\ pc[t] = "idle" /\ res' = res /\ TreeCall(t)
          /\ \E c \in TreeDraws : op' = [op EXCEPT ![t] = c[1]] /\ arg' = [arg EXCEPT ![t] = c[2]]
      BY <1>0, TreeStartFits
    <2> QED BY <1>0, <2>1 DEF TreeCallsFit
  <1>2. prealloc' = prealloc /\ used' = used /\ lost' = lost
    BY <1>1 DEF TreeCall, nodeVars
  <1>3. \A u \in Threads \ {t} : Bringing(u)' <=> Bringing(u)
    BY <1>1, <1>2 DEF Bringing
  <1>4. CASE ~(prealloc /\ op'[t] = "insert")
    <2>1. UNCHANGED newVars
      BY <1>1, <1>2, <1>4 DEF TreeCall, newVars
    <2>2. ~Bringing(t)'
      BY <1>2, <1>4 DEF Bringing
    <2>3. CASE Bringing(t)
      <3>1. op[t] = "insert" /\ prealloc
        BY <2>3 DEF Bringing
      <3> QED BY <1>0, <1>1, <3>1 DEF TreeCallsFit
    <2> QED BY <1>0, <1>2, <1>3, <2>1, <2>2, <2>3, NewKept
  <1>5. CASE prealloc /\ op'[t] = "insert"
    <2>1. PICK l \in Unused, i \in Unused : l # i /\ l = Fresh[1] /\ i = Fresh[2]
      <3>1. Cardinality(Unused) >= 2
        BY <1>1, <1>5 DEF TreeCall
      <3> QED BY <3>1, FreshPair
    <2>2. newLeaf' = [newLeaf EXCEPT ![t] = l] /\ newInternal' = [newInternal EXCEPT ![t] = i]
      BY <1>1, <1>5, <2>1 DEF TreeCall
    <2>3. /\ l \in Addresses /\ i \in Addresses /\ l \notin used \cup lost /\ i \notin used \cup lost
          /\ l # NULL /\ i # NULL /\ \A u \in Threads : l \notin Brought(u) /\ i \notin Brought(u)
      BY <2>1, Distinct DEF Unused
    <2>4. /\ newLeaf' \in [Threads -> Addresses \cup {NULL}] /\ newLeaf'[t] = l
          /\ newInternal' \in [Threads -> Addresses \cup {NULL}] /\ newInternal'[t] = i
          /\ \A u \in Threads \ {t} : newLeaf'[u] = newLeaf[u] /\ newInternal'[u] = newInternal[u]
      BY <1>0, <2>2, <2>3 DEF NewFit
    <2>5. Brought(t)' = {l, i} /\ \A u \in Threads \ {t} : Brought(u)' = Brought(u)
      BY <2>3, <2>4 DEF Brought
    <2>6. Bringing(t)'
      BY <1>1, <1>2, <1>5 DEF Bringing
    <2>7. \A u \in Threads :
            /\ Brought(u)' \cap (used' \cup lost') = {}
            /\ \A v \in Threads \ {u} : Brought(u)' \cap Brought(v)' = {}
      BY <1>0, <1>2, <2>3, <2>5 DEF NewFit
    <2>8. \A u \in Threads :
            IF Bringing(u)' THEN newLeaf'[u] # NULL /\ newInternal'[u] # NULL /\ newLeaf'[u] # newInternal'[u]
                            ELSE newLeaf'[u] = NULL /\ newInternal'[u] = NULL
      BY <1>0, <1>3, <2>1, <2>3, <2>4, <2>6 DEF NewFit
    <2>9. lost' \subseteq Addresses \ used' /\ (~prealloc' => lost' = {})
      BY <1>0, <1>2 DEF NewFit
    <2> QED BY <2>4, <2>7, <2>8, <2>9 DEF NewFit
  <1> QED BY <1>4, <1>5

LEMMA NewStep ==
    ASSUME TheTree, NEW t \in Threads, Start(t) \/ TreesWork(t)
    PROVE  NewFit'
  <1>0. /\ NewFit /\ TreeCallsFit /\ res \in [Threads -> {"pending", "true", "false"}]
    BY DEF TheTree, TreesFit, TreeCallsFit
  <1>1. CASE Start(t)
    BY <1>1, NewBrought
  <1>2. CASE TreeReturn(t)
    BY <1>2, NewLost
  <1>3. CASE TreeInserts(t) \/ LockedInsert(t)
    <2>1. /\ op[t] = "insert" /\ pc[t] \in Trying /\ op' = op /\ res' = [res EXCEPT ![t] = "true"]
          /\ prealloc' = prealloc /\ lost' = lost
      BY <1>3 DEF TreeInserts, LockedInsert, Transaction, Searched, At, Answer, Trying
    <2>2. prealloc => Bringing(t)
      BY <1>0, <2>1 DEF TreeCallsFit, Bringing
    <2>3. \E k, q, m : Link(t, k, q, m)
      BY <1>3 DEF TreeInserts, LockedInsert
    <2> QED BY <1>0, <2>1, <2>2, <2>3, NewLinked
  <1>4. CASE \/ TreeLooks(t) \/ LockedLooks(t) \/ TreeErases(t) \/ LockedErase(t)
    <2>1. op' = op /\ \E r \in {"true", "false"} : res' = [res EXCEPT ![t] = r] /\ (op[t] = "insert" => r = "false")
      BY <1>4 DEF TreeLooks, LockedLooks, TreeErases, LockedErase, Transaction, Searched, At, Answer
    <2>2. prealloc' = prealloc /\ UNCHANGED newVars /\ used' \subseteq used
      BY <1>4 DEF TreeLooks, LockedLooks, TreeErases, LockedErase, treeVars, nodeVars
    <2>3. pc[t] \in Trying
      BY <1>4 DEF TreeLooks, LockedLooks, TreeErases, LockedErase, Transaction, Searched, At, Trying
    <2>4. res[t] = "pending"
      BY <1>0, <2>3 DEF TreeCallsFit
    <2>5. \A u \in Threads : Bringing(u)' <=> Bringing(u)
      BY <1>0, <2>1, <2>2, <2>4 DEF Bringing
    <2> QED BY <1>0, <2>2, <2>5, NewKept
  <1>5. CASE \/ Abort(t) \/ Retry(t) \/ Acquire(t) \/ Descend(t)
             \/ DeleteParent(t) \/ DeleteLeaf(t) \/ Release(t)
    <2>1. op' = op /\ res' = res /\ prealloc' = prealloc /\ UNCHANGED newVars /\ used' \subseteq used
      BY <1>5 DEF Abort, Retry, Acquire, Descend, DeleteParent, DeleteLeaf, Delete, Release,
                  callVars, treeVars, nodeVars
    <2>2. \A u \in Threads : Bringing(u)' <=> Bringing(u)
      BY <2>1 DEF Bringing
    <2> QED BY <1>0, <2>1, <2>2, NewKept
  <1> QED BY <1>1, <1>2, <1>3, <1>4, <1>5 DEF TreesWork, TreeWork

-----------------------------------------------------------------------------
\* The invariant of the trees: while another program runs they stay as they are at first.
TreesRest ==
    /\ used = {} /\ lock = NoThread
    /\ \A t \in Threads : gp[t] = NULL /\ p[t] = NULL /\ n[t] = NULL

TreesInv ==
    /\ prealloc = (program = "prealloc") /\ TreeFit /\ NewFit
    /\ program \in Trees => TreeCallsFit /\ HolderFits /\ Led
    /\ program \notin Trees => TreesRest

LEMMA InitTreesInv == Init => TreesInv
  <1> SUFFICES ASSUME Init PROVE TreesInv
    OBVIOUS
  <1>1. prealloc = (program = "prealloc") /\ TreeInit /\ CallsInit /\ program \in Programs
    BY DEF Init
  <1>2. TreeFit
    BY <1>1, FirstTree
  <1>3. TreesRest
    BY <1>1 DEF TreeInit, TreesRest
  <1>4. ASSUME program \in Trees PROVE TreeCallsFit /\ HolderFits /\ Led
    <2>1. plan \in PlansOf(TreeDraws)
      <3>1. plan \in Plans(program) /\ program \in Programs /\ program # "hash"
        BY <1>4 DEF Init, Trees
      <3> QED BY <3>1, ProgramsAssumption DEF TreeDraws, PlansOf
    <2>2. /\ pc = [t \in Threads |-> "idle"] /\ op = [t \in Threads |-> "none"]
          /\ arg = [t \in Threads |-> 0] /\ res = [t \in Threads |-> "pending"]
      BY <1>1 DEF CallsInit
    <2>3. TreeCallsFit
      BY <2>1, <2>2 DEF TreeCallsFit, TreePlaces, Trying, Ending
    <2>4. /\ lock = NoThread /\ used = linked /\ gp = [t \in Threads |-> NULL]
          /\ p = [t \in Threads |-> NULL] /\ n = [t \in Threads |-> NULL]
      BY <1>1 DEF TreeInit
    <2>5. HolderFits
      BY <2>2, <2>4, BenchmarkThreads DEF HolderFits, Unlinked, Holding
    <2>6. Led
      BY <2>2 DEF Led
    <2> QED BY <2>3, <2>5, <2>6
  <1>5. NewFit
    <2>1. /\ newLeaf = [t \in Threads |-> NULL] /\ newInternal = [t \in Threads |-> NULL]
          /\ lost = {} /\ op = [t \in Threads |-> "none"]
      BY <1>1 DEF TreeInit, CallsInit
    <2>2. \A t \in Threads : Brought(t) = {} /\ ~Bringing(t)
      BY <2>1 DEF Brought, Bringing
    <2> QED BY <2>1, <2>2 DEF NewFit
  <1> QED BY <1>1, <1>2, <1>3, <1>4, <1>5 DEF TreesInv

LEMMA TreesMove ==
    ASSUME Next, TreesInv
    PROVE  \/ program \in Trees /\ \E t \in Threads : StartStep(t) \/ TreeStep(t)
           \/ program \notin Trees /\ program' = program /\ UNCHANGED treeVars
  <1>1. ASSUME NEW t \in Threads, StartStep(t), program \notin Trees
        PROVE  program' = program /\ UNCHANGED treeVars
    <2>1. ~prealloc
      BY <1>1 DEF TreesInv, Trees
    <2> QED BY <1>1, <2>1 DEF StartStep, Start, Record, TreeCall, treeVars, newVars
  <1>2. ASSUME NEW t \in Threads, HashStep(t) PROVE program \notin Trees /\ program' = program /\ UNCHANGED treeVars
    BY <1>2 DEF HashStep, HashWork, Record, Trees
  <1>3. ASSUME NEW t \in Threads, AvlStep(t) PROVE program \notin Trees /\ program' = program /\ UNCHANGED treeVars
    BY <1>3 DEF AvlStep, Record, Trees
  <1>4. ASSUME NEW m \in Cells, FreeStep(m) PROVE program \notin Trees /\ program' = program /\ UNCHANGED treeVars
    BY <1>4 DEF FreeStep, Record, Trees
  <1>5. ASSUME NEW t \in Threads, TreeStep(t) PROVE program \in Trees
    BY <1>5 DEF TreeStep, Trees
  <1> QED BY <1>1, <1>2, <1>3, <1>4, <1>5 DEF Next

LEMMA NextTreesInv == TreesInv /\ [Next]_vars => TreesInv'
  <1>1. ASSUME TreesInv, program \in Trees, NEW t \in Threads, StartStep(t) \/ TreeStep(t)
        PROVE  TreesInv'
    <2>1. program' = program /\ prealloc' = prealloc
      BY <1>1 DEF StartStep, Start, TreeCall, TreeStep, TreesWork, Record, treeVars, TreeReturn, TreeWork,
                  TreeLooks, TreeInserts, TreeErases, Abort, Retry, Acquire, Descend, LockedLooks,
                  LockedInsert, LockedErase, DeleteParent, DeleteLeaf, Delete, Release
    <2>2. TheTree
      BY <1>1, <2>1 DEF TheTree, TreesInv, TreesFit
    <2>3. TreesFit' /\ NewFit'
      BY <1>1, <2>2, TreeStarts, TreesWorkSteps, NewStep DEF StartStep, TreeStep, Stepped
    <2> QED BY <1>1, <2>1, <2>3 DEF TreesInv, TreesFit
  <1>2. ASSUME TreesInv, program \notin Trees, program' = program, UNCHANGED treeVars
        PROVE  TreesInv'
    <2>1. UNCHANGED <<key, left, right, linked, used, prealloc, lock, gp, p, n>>
      BY <1>2 DEF treeVars, nodeVars, pathVars
    <2>2. linked' \subseteq used' /\ used' \subseteq Addresses
      BY <1>2, <2>1 DEF TreesInv, TreeFit, FieldsFit
    <2>3. TreeFit'
      BY <1>2, <2>1, <2>2, SameTree DEF TreesInv
    <2>4. NewFit'
      <3>1. NewFit /\ ~prealloc
        BY <1>2 DEF TreesInv, Trees
      <3>2. \A u \in Threads : ~Bringing(u) /\ ~Bringing(u)'
        BY <2>1, <3>1 DEF Bringing
      <3>3. UNCHANGED newVars
        BY <1>2 DEF treeVars
      <3> QED BY <2>1, <3>1, <3>2, <3>3, NewKept
    <2> QED BY <1>2, <2>1, <2>3, <2>4 DEF TreesInv, TreesRest
  <1>3. ASSUME TreesInv, program \in Trees, UNCHANGED vars PROVE TreesInv'
    <2>1. UNCHANGED <<key, left, right, linked, used, prealloc, lock, gp, p, n, plan, pc, op, arg, res, program>>
      BY <1>3 DEF vars, callVars, treeVars, nodeVars, pathVars
    <2>2. linked' \subseteq used' /\ used' \subseteq Addresses
      BY <1>3, <2>1 DEF TreesInv, TreeFit, FieldsFit
    <2>3. TreeFit'
      BY <1>3, <2>1, <2>2, SameTree DEF TreesInv
    <2>4. TreeCallsFit'
      BY <1>3, <2>1 DEF TreesInv, TreeCallsFit
    <2>5. HolderFits'
      <3>1. \A t \in Threads : Unlinked(t)' = Unlinked(t)
        BY <2>1 DEF Unlinked
      <3>2. HolderFits
        BY <1>3 DEF TreesInv
      <3>3. UNCHANGED <<lock, used, linked, gp, p, n, pc>>
        BY <2>1
      <3>4. \A t \in Threads : Unlinked(t)' \subseteq Addresses \ linked'
        BY <3>2, <3>3 DEF HolderFits, Unlinked
      <3>5. \A t \in Threads : lock' = t => used' = linked' \cup Unlinked(t)'
        BY <3>1, <3>2, <3>3 DEF HolderFits
      <3>6. /\ \A t \in Threads : pc'[t] \in Holding <=> lock' = t
            /\ \A t \in Threads : pc'[t] = "delete p" => p'[t] # n'[t]
        BY <3>2, <3>3 DEF HolderFits
      <3>7. /\ lock' \in Threads \cup {NoThread} /\ gp' \in [Threads -> Places \cup {NULL}]
            /\ p' \in [Threads -> Places \cup {NULL}] /\ n' \in [Threads -> Places \cup {NULL}]
            /\ lock' = NoThread => used' = linked'
        BY <3>2, <3>3 DEF HolderFits
      <3> QED BY <3>4, <3>5, <3>6, <3>7 DEF HolderFits
    <2>6. Led'
      BY <1>3, <2>1, SameTree DEF TreesInv, Led
    <2>7. NewFit'
      <3>1. NewFit /\ UNCHANGED newVars
        BY <1>3 DEF TreesInv, vars, treeVars
      <3>2. \A u \in Threads : Bringing(u)' <=> Bringing(u)
        BY <2>1 DEF Bringing
      <3> QED BY <2>1, <3>1, <3>2, NewKept
    <2> QED BY <1>3, <2>1, <2>3, <2>4, <2>5, <2>6, <2>7 DEF TreesInv
  <1>4. UNCHANGED vars => program' = program /\ UNCHANGED treeVars
    BY DEF vars
  <1> QED BY <1>1, <1>2, <1>3, <1>4, TreesMove

LEMMA InvTreeIsSound == TreesInv => TreeIsSound
  <1> SUFFICES ASSUME TreesInv PROVE TreeIsSound
    OBVIOUS
  <1>1. TreeFit /\ FieldsFit /\ Shape
    BY DEF TreesInv, TreeFit
  <1>2. Reachable \ {Root, Low, High} = linked /\ linked \subseteq used
    BY <1>1, TreeIsReached, Parts DEF FieldsFit
  <1>3. ASSUME NEW t \in Threads, At(t, "search")
        PROVE  {gp[t], p[t], n[t]} \ {Root, Low, High, NULL} \subseteq used
    <2>1. CASE program \in Trees
      <3>1. PICK k, g, q, m : k = arg[t] /\ g = gp[t] /\ q = p[t] /\ m = n[t]
        OBVIOUS
      <3>2. Path(k, g, q, m)
        BY <1>3, <2>1, <3>1 DEF TreesInv, Led, At
      <3>3. {g, q, m} \subseteq Tree \cup {NULL}
        BY <1>1, <3>2, Parts DEF Path
      <3> QED BY <1>2, <3>1, <3>3 DEF Tree
    <2>2. CASE program \notin Trees
      BY <1>3, <2>2 DEF TreesInv, TreesRest
    <2> QED BY <2>1, <2>2
  <1>4. lock = NoThread => used = linked
    BY <1>1 DEF TreesInv, TreesRest, HolderFits, FieldsFit
  <1>5. NewIsSound
    <2>1. NewFit
      BY DEF TreesInv
    <2>2. ASSUME NEW t \in Threads, Brought(t) # {} PROVE op[t] = "insert" /\ res[t] # "true"
      <3>1. Bringing(t)
        BY <2>1, <2>2 DEF NewFit, Brought
      <3> QED BY <3>1 DEF Bringing
    <2> QED BY <2>1, <2>2 DEF NewFit, NewIsSound
  <1> QED BY <1>2, <1>3, <1>4, <1>5 DEF TreeIsSound, LinkedIsSound

\* In the trees nobody meets a node that has been deleted, and none that has been linked is lost,
\* though transactions come between the steps of the one who holds the lock, and though inserts into
\* tree_prealloc_internal.h put keys where searches do not find them.  The nodes that these inserts
\* allocate are nobody else's until they are linked; those for a key that is there are lost (106-107,
\* 169).  tree.h loses none.
THEOREM TreesAreSound == Spec => []TreeIsSound
  <1> QED BY InitTreesInv, NextTreesInv, InvTreeIsSound, PTL DEF Spec

-----------------------------------------------------------------------------
\* The assertions, and the calls of the hash table and of the trees.
KnownProgram == program \in Programs

LEMMA InitProgram == Init => KnownProgram
  BY DEF Init, KnownProgram

LEMMA NextProgram == KnownProgram /\ [Next]_vars => KnownProgram'
  BY DEF KnownProgram, Next, StartStep, HashStep, TreeStep, AvlStep, FreeStep, Record, vars

LEMMA InvAsserts ==
    ASSUME "avl" \notin Programs, KnownProgram, TInv, TreesInv
    PROVE  AssertsHold
  <1>1. CASE program \in Trees
    <2>1. pc \in [Threads -> TreePlaces]
      BY <1>1 DEF TreesInv, TreeCallsFit
    <2>2. "assert" \notin TreePlaces
      BY DEF TreePlaces, Trying, Ending
    <2> QED BY <2>1, <2>2 DEF AssertsHold, Running, At
  <1>2. CASE program = "hash"
    BY <1>2 DEF TInv, AssertsHold
  <1>3. program \in Trees \cup {"hash"}
    BY ProgramsAssumption DEF KnownProgram, Trees
  <1> QED BY <1>1, <1>2, <1>3

\* The loops of the hash table end, if the table is ample, whatever the threads, the keys, the hash
\* function and the counters' grain.  The AVL tree's assertions are left to the model checker.
THEOREM AssertsAlwaysHold == ASSUME "avl" \notin Programs PROVE Spec => []AssertsHold
  <1>1. KnownProgram /\ TInv /\ TreesInv => AssertsHold
    BY InvAsserts
  <1> QED BY <1>1, InitProgram, NextProgram, InitTInv, NextTInv, InitTreesInv, NextTreesInv, PTL DEF Spec

LEMMA InitSet == ASSUME Programs \subseteq {"hash", "tree"} PROVE Init => Set!Init
  <1> SUFFICES ASSUME Init PROVE Set!Init
    OBVIOUS
  <1>1. program \in {"hash", "tree"}
    BY DEF Init
  <1>2. Status = [t \in Threads |-> "idle"]
    BY DEF Init, CallsInit, Status
  <1>3. Contents = {}
    <2>1. CASE program = "hash"
      <3>1. \E size : data = [s \in 0 .. size - 1 |-> EMPTY]
        BY DEF Init, TableInit
      <3>2. \A s \in DOMAIN data : data[s] = EMPTY
        BY <3>1
      <3> QED BY <2>1, <3>2, KeyFacts DEF Contents, Held
    <2>2. CASE program = "tree"
      BY <2>2, FirstTree DEF Init, Contents
    <2> QED BY <1>1, <2>1, <2>2
  <1> QED BY <1>2, <1>3 DEF Init, CallsInit, Set!Init

LEMMA NextSet ==
    ASSUME Programs \subseteq {"hash", "tree"}, KnownProgram, TInv, TreesInv, SeenInv, [Next]_vars
    PROVE  [Set!Next]_(Set!objVars)
  <1>1. program \in {"hash", "tree"}
    BY DEF KnownProgram
  <1>2. ASSUME UNCHANGED vars PROVE UNCHANGED Set!objVars
    <2>1. Contents' = Contents /\ Status' = Status /\ arg' = arg /\ op' = op /\ seen' = seen
      BY <1>2 DEF vars, callVars, tableVars, treeVars, nodeVars, avlVars, Contents, Status, Held,
                  AvlKeys, TreeKeys, isLeaf
    <2> QED BY <2>1 DEF Set!objVars
  <1>3. ASSUME NEW t \in Threads, StartStep(t) PROVE Set!Next
    <2>1. Start(t) /\ Record /\ program' = program
      BY <1>3 DEF StartStep, Record
    <2>2. Set!Invoke(t)
      <3>1. CASE program = "hash"
        BY <2>1, <3>1, HashInvokes
      <3>2. CASE program = "tree"
        BY <2>1, <3>2, TreeStarts DEF TheTree, TreesInv, TreesFit, Trees
      <3> QED BY <1>1, <3>1, <3>2
    <2> QED BY <2>1, <2>2, SetNext DEF SetMoves
  <1>4. ASSUME NEW t \in Threads, HashStep(t) PROVE Set!Next
    <2>1. HashWork(t) /\ Record /\ program' = program /\ program = "hash"
      BY <1>4 DEF HashStep, Record
    <2> QED BY <2>1, HashMoves, SetNext
  <1>5. ASSUME NEW t \in Threads, TreeStep(t) PROVE Set!Next
    <2>1. TreesWork(t) /\ Record /\ program' = program /\ program = "tree"
      BY <1>1, <1>5 DEF TreeStep, Record
    <2>2. TheTree
      BY <2>1 DEF TheTree, TreesInv, TreesFit, Trees
    <2>3. Moved(t)
      BY <2>1, <2>2, TreesWorkSteps DEF Stepped
    <2> QED BY <2>1, <2>3, SetNext DEF Moved
  <1> QED BY <1>1, <1>2, <1>3, <1>4, <1>5 DEF Next, AvlStep, FreeStep

\* The calls on the hash table and on tree.h are those of a set, for any number of threads and keys.
THEOREM LinearizableCalls == ASSUME Programs \subseteq {"hash", "tree"} PROVE Spec => Linearizable
  <1>1. Init => Set!Init
    BY InitSet
  <1>2. KnownProgram /\ TInv /\ TreesInv /\ SeenInv /\ [Next]_vars => [Set!Next]_(Set!objVars)
    BY NextSet
  <1> QED BY <1>1, <1>2, InitProgram, NextProgram, InitTInv, NextTInv, InitTreesInv, NextTreesInv,
             InitSeen, SeenStep, PTL DEF Spec, Linearizable, Set!Spec

-----------------------------------------------------------------------------
\* The AVL tree, while it is not run.
AvlRests == program # "avl" => AvlInit

LEMMA InitAvlRests == Init => AvlRests
  BY DEF Init, AvlRests

LEMMA NextAvlRests == AvlRests /\ [Next]_vars => AvlRests'
  <1>1. ASSUME NEW t \in Threads, StartStep(t)
        PROVE  program' = program /\ (program # "avl" => UNCHANGED avlVars)
    BY <1>1 DEF StartStep, Start, Record
  <1>2. ASSUME NEW t \in Threads, HashStep(t) \/ TreeStep(t)
        PROVE  program' = program /\ (program # "avl" => UNCHANGED avlVars)
    BY <1>2 DEF HashStep, HashWork, TreeStep, TreesWork, Record
  <1>3. ASSUME NEW t \in Threads, AvlStep(t)
        PROVE  program' = program /\ (program # "avl" => UNCHANGED avlVars)
    BY <1>3 DEF AvlStep, Record
  <1>4. ASSUME NEW m \in Cells, FreeStep(m)
        PROVE  program' = program /\ (program # "avl" => UNCHANGED avlVars)
    BY <1>4 DEF FreeStep, Record
  <1>5. ASSUME UNCHANGED vars PROVE program' = program /\ (program # "avl" => UNCHANGED avlVars)
    BY <1>5 DEF vars
  <1>6. [Next]_vars => program' = program /\ (program # "avl" => UNCHANGED avlVars)
    BY <1>1, <1>2, <1>3, <1>4, <1>5 DEF Next
  <1>7. ASSUME AvlRests, program' = program, program # "avl" => UNCHANGED avlVars PROVE AvlRests'
    <2>1. CASE program = "avl"
      BY <1>7, <2>1 DEF AvlRests
    <2>2. CASE program # "avl"
      <3>1. UNCHANGED <<node, fate, graced, w>> /\ AvlInit
        BY <1>7, <2>2 DEF AvlRests, avlVars
      <3> QED BY <3>1 DEF AvlRests, AvlInit
    <2> QED BY <2>1, <2>2
  <1> QED BY <1>6, <1>7

OnlyHolder == {Holder}
AvlSpread(f) == f = [i \in 0 .. Cardinality(Cells) |->
                        IF i = 0 THEN OnlyHolder
                        ELSE (f[i - 1] \cup {node[m].left : m \in f[i - 1]}
                                 \cup {node[m].right : m \in f[i - 1]}) \ {NULL}]

LEMMA OnlyHolderThere == AvlInit => AvlReachable = {Holder}
  <1> SUFFICES ASSUME AvlInit PROVE AvlReachable = {Holder}
    OBVIOUS
  <1>1. node[Holder].left = NULL /\ node[Holder].right = NULL /\ Holder # NULL
    BY AvlAssumption DEF AvlInit, Spots, rbnode_create, NoNode
  <1>2. (OnlyHolder \cup {node[m].left : m \in OnlyHolder} \cup {node[m].right : m \in OnlyHolder})
           \ {NULL} = OnlyHolder
    BY <1>1 DEF OnlyHolder
  <1>3. Cardinality(Cells) \in Nat
    BY AvlAssumption, FS_CardinalityType
  <1> DEFINE c == [i \in 0 .. Cardinality(Cells) |-> OnlyHolder]
  <1>4. AvlSpread(c)
    <2>1. \A i \in 0 .. Cardinality(Cells) : i # 0 => c[i - 1] = OnlyHolder
      BY <1>3
    <2> QED BY <1>2, <2>1 DEF AvlSpread
  <1> DEFINE f == CHOOSE g : AvlSpread(g)
  <1>5. AvlSpread(f)
    <2> HIDE DEF c
    <2> QED BY <1>4
  <1>6. AvlReachable = f[Cardinality(Cells)]
    BY DEF AvlReachable, AvlSpread, OnlyHolder
  <1> HIDE DEF f
  <1> DEFINE Bad == {i \in 0 .. Cardinality(Cells) : f[i] # OnlyHolder}
  <1>7. Bad = {}
    <2> SUFFICES ASSUME Bad # {} PROVE FALSE
      OBVIOUS
    <2>1. PICK x \in Bad : \A y \in Bad : x <= y
      <3>1. Bad \in SUBSET Nat
        OBVIOUS
      <3> HIDE DEF Bad
      <3> QED BY <3>1, Least
    <2>2. f[0] = OnlyHolder /\ 0 \in 0 .. Cardinality(Cells)
      BY <1>3, <1>5 DEF AvlSpread
    <2>3. x - 1 \in 0 .. Cardinality(Cells) /\ x - 1 \notin Bad /\ x # 0
      BY <1>3, <2>1, <2>2
    <2>4. f[x - 1] = OnlyHolder
      BY <2>3
    <2>5. f[x] = OnlyHolder
      BY <1>2, <1>5, <2>1, <2>3, <2>4 DEF AvlSpread
    <2> QED BY <2>1, <2>5
  <1> QED BY <1>3, <1>6, <1>7 DEF OnlyHolder

LEMMA AvlSoundAtFirst == AvlInit => AvlIsSound
  <1> SUFFICES ASSUME AvlInit PROVE AvlIsSound
    OBVIOUS
  <1>1. Linked = {} /\ Without \subseteq Cells
    BY DEF AvlInit, Linked, Without
  <1>2. ASSUME NEW t \in Threads PROVE Hands(t) = {NULL}
    <2>1. w[t] = Idle
      BY DEF AvlInit
    <2> QED BY <2>1 DEF Hands, Idle, Range
  <1>3. \A m \in Spots : Free(m)
    BY DEF AvlInit, Free, rbnode_create, NoNode
  <1> QED BY <1>1, <1>2, <1>3, OnlyHolderThere, AvlAssumption DEF AvlIsSound

\* The same of the property that the runs check; of the AVL tree's nodes it says something only
\* while that tree is run, which is left to the model checker.
THEOREM NoStrayNodeThere == ASSUME "avl" \notin Programs PROVE Spec => []NoStrayNode
  <1>1. KnownProgram /\ AvlRests /\ TreesInv => NoStrayNode
    BY InvTreeIsSound, AvlSoundAtFirst DEF KnownProgram, AvlRests, NoStrayNode
  <1> QED BY <1>1, InitProgram, NextProgram, InitAvlRests, NextAvlRests, InitTreesInv, NextTreesInv,
             PTL DEF Spec
=============================================================================
