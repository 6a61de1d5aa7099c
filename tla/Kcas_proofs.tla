----------------------------- MODULE Kcas_proofs -----------------------------
(***************************************************************************)
(* The KCAS of a5/kcas.h is atomic, for any number of threads, addresses   *)
(* and calls, as long as no sequence number wraps (SeqsFit): a tag then    *)
(* names one operation for ever.                                           *)
(***************************************************************************)
EXTENDS Kcas, FiniteSetTheorems, TLAPS

\* An operation, or an attempt to install an entry, takes two of the 2^48 numbers of its thread
\* (kcas.h:40, 117-123): one that sleeps while all of them go by would have to sleep for months.
SeqsFit == \A t \in Threads : kdesc[t].seq + 1 < SeqLimit /\ rdesc[t].seq + 1 < SeqLimit

-----------------------------------------------------------------------------
\* The tags of the KCAS and RDCSS operations that have begun so far.
Tags == {"kcas"} \X Threads \X Nat
Ops == {k \in {"kcas"} \X Threads \X (1 .. SeqLimit) : k[3] <= kdesc[k[2]].seq}
Rds == {w \in {"rdcss"} \X Threads \X (1 .. SeqLimit) : w[3] <= rdesc[w[2]].seq}

EntriesOf(k) == DescOf(k).entries
State(k) == DescOf(k).state
Undec(k) == State(k) = "undecided"
AddrOf(k, j) == EntriesOf(k)[j][1]
Holds(k, j) == mem[AddrOf(k, j)] = k

\* Where a call of help works on its phase 1, and where it works on an entry.
OnEntry == {"prepare", "install", "snapRdcss", "snapKcas", "rdcssState", "rdcssSet"}
AtEntry == OnEntry \cup {"waits"}
Phase1 == AtEntry \cup {"help"}
Labels == OnEntry \cup {"idle", "read", "return", "help", "decide", "phase2", "release"}
Outcomes == {"succeeded", "failed"}

Words == ({"value"} \X Values \X {0}) \cup ({"kcas", "rdcss"} \X Threads \X Nat) \cup {NoWord}
KDescs == [seq : Nat, state : Outcomes \cup {"undecided"}, entries : Seq(Entries)]
RDescs == [seq : Nat, tag : Tags \cup {NoWord}, addr : Nat, old2 : Nat]
Frames == [tag : Tags, entries : Seq(Entries), i : Nat, newstate : Outcomes]

Types ==
    /\ mem \in [Addrs -> Words \ {NoWord}]
    /\ kdesc \in [Threads -> KDescs]
    /\ rdesc \in [Threads -> RDescs]
    /\ pc \in [Threads -> Labels]
    /\ request \in [Threads -> Requests \cup {NoRequest}]
    /\ frames \in [Threads -> Seq(Frames)]
    /\ word \in [Threads -> Words]
    /\ helped \in [Threads -> [tag : Words, undecided : BOOLEAN, desc : RDescs]]
    /\ answer \in [Threads -> Nat]
    /\ plan \in [Threads -> Seq(Requests)]
    /\ past \in [Threads -> Seq(KDescs)]

Distinct(es) == \A i, j \in DOMAIN es : es[i][1] = es[j][1] => i = j

\* A tag leads to its descriptor; only the present one can be undecided.
OpsOK ==
    /\ \A t \in Threads : kdesc[t].seq = Len(past[t])
    /\ \A k \in Ops : /\ EntriesOf(k) # << >> /\ Distinct(EntriesOf(k))
                      /\ Undec(k) => Current(k)

\* A call of execute has its own KCAS at the bottom of its stack until it returns.
Control(t) ==
    /\ pc[t] = "idle" <=> request[t].kind = "none"
    /\ pc[t] \in {"idle", "read", "return"} => ~Busy(t)
    /\ pc[t] \in {"help", "prepare", "install", "decide", "phase2", "release"} => Busy(t)
    /\ request[t].kind = "kcas" =>
          /\ kdesc[t].seq >= 1
          /\ {kdesc[t].entries[i] : i \in DOMAIN kdesc[t].entries}
                = {request[t].entries[i] : i \in DOMAIN request[t].entries}
          /\ pc[t] # "return" => Busy(t) /\ frames[t][1].tag = KcasTag(t, kdesc[t].seq)
    /\ kdesc[t].seq >= 1 /\ kdesc[t].state = "undecided" =>
          request[t].kind = "kcas" /\ pc[t] # "return"

ControlOK == \A t \in Threads : Control(t)

\* The entries before entry i hold the tag, if the KCAS is still undecided.
HeldBefore(k, i) == Undec(k) => \A j \in DOMAIN EntriesOf(k) : j < i => Holds(k, j)

\* What a call of help knows at label l.
GoodFrame(f, l) ==
    /\ f.tag \in Ops /\ f.entries = EntriesOf(f.tag) /\ f.i >= 1
    /\ l \in AtEntry \cup {"release"} => f.i <= Len(f.entries)
    /\ l \in Phase1 => f.newstate = "succeeded" /\ HeldBefore(f.tag, f.i)
    /\ l = "decide" /\ f.newstate = "succeeded" =>
          f.i > Len(f.entries) /\ HeldBefore(f.tag, f.i)
    /\ l \in {"phase2", "release"} => ~Undec(f.tag)
    /\ l = "release" => f.newstate = State(f.tag)

\* The calls below the top one wait for it at their entries.
At(t, p) == IF p = Len(frames[t]) THEN pc[t] ELSE "waits"

FramesOK == \A t \in Threads : \A p \in DOMAIN frames[t] : GoodFrame(frames[t][p], At(t, p))

\* The tag of an undecided KCAS is nowhere unless it is at the first address: helpers begin at
\* the second entry.
First(k) == Undec(k) => Holds(k, 1)

\* An RDCSS descriptor is for one entry of its KCAS, and not for the second before the first.
DescOK(d) ==
    /\ d.tag \in Ops
    /\ \E j \in DOMAIN EntriesOf(d.tag) :
          /\ d.addr = AddrOf(d.tag, j) /\ d.old2 = EntriesOf(d.tag)[j][2]
          /\ j = 1 \/ First(d.tag)

HelpsRdcss(t) == pc[t] \in {"rdcssState", "rdcssSet"}
OwnRdcss(t) == HelpsRdcss(t) /\ helped[t].tag[2] = t
Prepared(t) == Busy(t) /\ pc[t] \in {"install", "snapRdcss", "rdcssState", "rdcssSet"}
MyRdcss(t) == RdcssTag(t, rdesc[t].seq)

RdescOK == \A t \in Threads : rdesc[t].seq >= 1 => DescOK(rdesc[t])

\* t's RDCSS descriptor is for the entry that it is at; nobody has seen its tag before it is
\* installed.
PreparedOK ==
    \A t \in Threads : Prepared(t) =>
        /\ rdesc[t].seq >= 1
        /\ rdesc[t].tag = Top(t).tag /\ rdesc[t].addr = Entry(t)[1] /\ rdesc[t].old2 = Entry(t)[2]
        /\ ~OwnRdcss(t) => \A u \in Threads :
              /\ pc[u] = "snapRdcss" => word[u] # MyRdcss(t)
              /\ HelpsRdcss(u) => helped[u].tag # MyRdcss(t)

WordOK ==
    \A t \in Threads :
        /\ pc[t] = "snapRdcss" => word[t] \in Rds /\ word[t][2] # t
        /\ pc[t] = "snapKcas" => word[t] \in Ops /\ First(word[t])

\* What t knows of the RDCSS it helps or executes.
HelpedOK ==
    \A t \in Threads : HelpsRdcss(t) =>
        LET h == helped[t]
            u == h.tag[2]
            k == h.desc.tag
        IN  /\ h.tag \in Rds /\ DescOK(h.desc)
            /\ h.tag[3] = rdesc[u].seq => h.desc = rdesc[u]
            /\ u = t => /\ Busy(t) /\ h.tag = MyRdcss(t)
                        /\ Undec(k) => mem[h.desc.addr] \in {h.tag, k}
            /\ pc[t] = "rdcssSet" /\ ~h.undecided => ~Undec(k)
            /\ pc[t] = "rdcssSet" /\ h.undecided /\ mem[h.desc.addr] = h.tag =>
                  State(k) # "succeeded"

\* A tag in memory: an RDCSS that its owner is executing, or a KCAS at one of its addresses.
MemOK ==
    \A a \in Addrs :
        /\ isRdcss(mem[a]) => LET u == mem[a][2]
                              IN  /\ mem[a] = MyRdcss(u) /\ mem[a] \in Rds /\ rdesc[u].addr = a
                                  /\ HelpsRdcss(u) /\ helped[u].tag = mem[a]
        /\ isKcas(mem[a]) => /\ mem[a] \in Ops /\ First(mem[a])
                             /\ \E j \in DOMAIN EntriesOf(mem[a]) : AddrOf(mem[a], j) = a

Inv == /\ Types /\ OpsOK /\ ControlOK /\ FramesOK
       /\ RdescOK /\ PreparedOK /\ WordOK /\ HelpedOK /\ MemOK

\* seen has what is right now, and a mismatch for every call that is going to fail.
SeenOK ==
    \A t \in Threads :
        /\ pc[t] # "return" => answer[t] = 0
        /\ pc[t] # "idle" => Atomic!RightAnswer(Contents, request[t]) \in seen[t]
        /\ request[t].kind = "kcas" /\ kdesc[t].state = "failed" => 0 \in seen[t]
        /\ pc[t] = "decide" /\ Top(t).newstate = "failed" /\ Undec(Top(t).tag) =>
              0 \in seen[Top(t).tag[2]]

-----------------------------------------------------------------------------
\* A stack: a call pushes a frame, changes the one on top, or pops it.
LEMMA PushFacts ==
    ASSUME NEW S, NEW s \in Seq(S), NEW x \in S
    PROVE  /\ Append(s, x) \in Seq(S) /\ Len(Append(s, x)) = Len(s) + 1 /\ Len(s) \in Nat
           /\ Append(s, x)[Len(s) + 1] = x
           /\ \A p \in 1 .. Len(s) : Append(s, x)[p] = s[p]
  OBVIOUS

LEMMA PopFacts ==
    ASSUME NEW S, NEW s \in Seq(S), s # << >>
    PROVE  LET u == SubSeq(s, 1, Len(s) - 1)
           IN  /\ u \in Seq(S) /\ Len(u) = Len(s) - 1 /\ Len(s) \in Nat /\ Len(s) >= 1
               /\ s[Len(s)] \in S
               /\ \A p \in 1 .. Len(s) - 1 : u[p] = s[p]
               /\ u = << >> <=> Len(s) = 1
<1> DEFINE u == SubSeq(s, 1, Len(s) - 1)
<1>1. /\ u \in Seq(S) /\ Len(u) = Len(s) - 1 /\ Len(s) \in Nat /\ Len(s) >= 1
      /\ s[Len(s)] \in S
      /\ \A p \in 1 .. Len(s) - 1 : u[p] = s[p]
  <2>1. Len(s) \in Nat /\ Len(s) >= 1
    OBVIOUS
  <2>2. s[Len(s)] \in S
    BY <2>1
  <2>3. u = [p \in 1 .. Len(s) - 1 |-> s[p]]
    BY <2>1
  <2>4. u \in Seq(S) /\ Len(u) = Len(s) - 1
    <3>1. PICK m \in Nat : m = Len(s) - 1
      BY <2>1
    <3>2. \A p \in 1 .. m : s[p] \in S
      BY <2>1, <3>1
    <3> HIDE DEF u
    <3>3. u \in [1 .. m -> S]
      BY <2>3, <3>1, <3>2
    <3>4. u \in Seq(S) /\ Len(u) = m
      BY <3>3
    <3> QED BY <3>4, <3>1
  <2> QED BY <2>1, <2>2, <2>3, <2>4
<1> HIDE DEF u
<1>2. u = << >> <=> Len(u) = 0
  BY <1>1
<1> QED BY <1>1, <1>2 DEF u

LEMMA SetTopFacts ==
    ASSUME NEW S, NEW s \in Seq(S), s # << >>, NEW x \in S
    PROVE  LET u == Append(SubSeq(s, 1, Len(s) - 1), x)
           IN  /\ u \in Seq(S) /\ Len(u) = Len(s) /\ Len(s) \in Nat /\ Len(s) >= 1
               /\ u[Len(s)] = x
               /\ \A p \in 1 .. Len(s) - 1 : u[p] = s[p]
<1> DEFINE v == SubSeq(s, 1, Len(s) - 1)
<1>1. v \in Seq(S) /\ Len(v) = Len(s) - 1 /\ Len(s) \in Nat /\ Len(s) >= 1
      /\ \A p \in 1 .. Len(s) - 1 : v[p] = s[p]
  BY PopFacts
<1> HIDE DEF v
<1>2. /\ Append(v, x) \in Seq(S) /\ Len(Append(v, x)) = Len(s) /\ Append(v, x)[Len(s)] = x
      /\ \A p \in 1 .. Len(s) - 1 : Append(v, x)[p] = v[p]
  BY <1>1, PushFacts
<1> QED BY <1>1, <1>2 DEF v

-----------------------------------------------------------------------------
\* What a KCAS is asked for and what its descriptor holds.
LEMMA EntryFacts ==
    ASSUME NEW e \in Entries
    PROVE  e[1] \in Addrs /\ e[1] \in Nat /\ e[2] \in Nat /\ e[3] \in Nat
           /\ e[2] \in Values /\ e[3] \in Values
  BY KcasAssumption DEF Entries

\* kcasdesc_sort has an order to sort by: the number of entries with a smaller address.
LEMMA SortExists ==
    ASSUME NEW es \in Seq(Entries), Distinct(es)
    PROVE  \E s \in [DOMAIN es -> {es[i] : i \in DOMAIN es}] : Sorted(s)
<1> DEFINE n == Len(es)
           I == 1 .. n
           less(i) == {j \in I : es[j][1] < es[i][1]}
           rank == [i \in I |-> Cardinality(less(i)) + 1]
<1>1. n \in Nat /\ DOMAIN es = I /\ \A i \in I : es[i] \in Entries /\ es[i][1] \in Nat
  BY EntryFacts
<1>2. IsFiniteSet(I) /\ Cardinality(I) = n
  <2>1. IsFiniteSet(I) /\ Cardinality(I) = IF 1 > n THEN 0 ELSE n - 1 + 1
    BY <1>1, FS_Interval
  <2> QED BY <2>1, <1>1
<1>3. ASSUME NEW i \in I
      PROVE  IsFiniteSet(less(i)) /\ Cardinality(less(i)) \in Nat /\ rank[i] \in I
  <2>1. less(i) \subseteq I \ {i}
    BY <1>1
  <2>2. IsFiniteSet(I \ {i}) /\ Cardinality(I \ {i}) = n - 1
    BY <1>2, FS_RemoveElement
  <2>3. IsFiniteSet(less(i)) /\ Cardinality(less(i)) <= n - 1
    BY <2>1, <2>2, FS_Subset
  <2>4. Cardinality(less(i)) \in Nat
    BY <2>3, FS_CardinalityType
  <2> QED BY <1>1, <2>3, <2>4
<1>4. ASSUME NEW i \in I, NEW j \in I, es[i][1] < es[j][1] PROVE rank[i] < rank[j]
  <2>1. less(i) \cup {i} \subseteq less(j) /\ i \notin less(i)
    BY <1>1, <1>4
  <2>2. Cardinality(less(i) \cup {i}) = Cardinality(less(i)) + 1
    BY <2>1, <1>3, FS_AddElement
  <2>3. Cardinality(less(i) \cup {i}) <= Cardinality(less(j))
    BY <2>1, <1>3, FS_Subset
  <2>4. Cardinality(less(i)) \in Nat /\ Cardinality(less(j)) \in Nat
    BY <1>3
  <2>5. rank[i] = Cardinality(less(i)) + 1 /\ rank[j] = Cardinality(less(j)) + 1
    OBVIOUS
  <2> QED BY <2>2, <2>3, <2>4, <2>5
<1> HIDE DEF less
<1>5. \A i, j \in I : rank[i] = rank[j] => i = j
  <2> SUFFICES ASSUME NEW i \in I, NEW j \in I, rank[i] = rank[j], i # j PROVE FALSE
    OBVIOUS
  <2>1. es[i][1] # es[j][1]
    BY <1>1 DEF Distinct
  <2>2. es[i][1] < es[j][1] \/ es[j][1] < es[i][1]
    BY <2>1, <1>1
  <2>3. rank[i] \in Nat /\ rank[j] \in Nat
    BY <1>3
  <2> QED BY <2>2, <2>3, <1>4
<1>6. rank \in [I -> I]
  BY <1>3
<1> HIDE DEF rank
<1>7. rank \in Injection(I, I)
  BY <1>5, <1>6 DEF Injection, IsInjective
<1>8. rank \in Surjection(I, I)
  BY <1>7, <1>2, FS_Injection
<1>9. \A p \in I : \E i \in I : rank[i] = p
  BY <1>8 DEF Surjection
<1> DEFINE at(p) == CHOOSE i \in I : rank[i] = p
           s == [p \in I |-> es[at(p)]]
<1>10. \A p \in I : at(p) \in I /\ rank[at(p)] = p
  BY <1>9
<1> HIDE DEF at
<1>11. s \in [DOMAIN es -> {es[i] : i \in DOMAIN es}]
  BY <1>10, <1>1
<1>12. ASSUME NEW p \in I, NEW q \in I, p < q PROVE s[p][1] < s[q][1]
  <2>1. at(p) \in I /\ at(q) \in I /\ rank[at(p)] < rank[at(q)] /\ at(p) # at(q)
    BY <1>10, <1>12, <1>1
  <2>2. es[at(p)][1] # es[at(q)][1]
    BY <2>1, <1>1 DEF Distinct
  <2>3. ~(es[at(q)][1] < es[at(p)][1])
    <3> SUFFICES ASSUME es[at(q)][1] < es[at(p)][1] PROVE FALSE
      OBVIOUS
    <3>1. rank[at(q)] < rank[at(p)]
      BY <2>1, <1>4
    <3> QED BY <3>1, <2>1, <1>10, <1>1
  <2>4. es[at(p)][1] < es[at(q)][1]
    BY <2>1, <2>2, <2>3, <1>1
  <2> QED BY <2>4
<1> QED BY <1>11, <1>12 DEF Sorted

\* Sorting loses and adds no entry.
LEMMA SortFacts ==
    ASSUME NEW es \in Seq(Entries), Distinct(es), es # << >>
    PROVE  LET s == kcasdesc_sort(es)
           IN  /\ s \in Seq(Entries) /\ s # << >> /\ Distinct(s)
               /\ {s[i] : i \in DOMAIN s} = {es[i] : i \in DOMAIN es}
<1> DEFINE s == kcasdesc_sort(es)
           n == Len(es)
           I == 1 .. n
           R == {es[i] : i \in I}
<1>1. n \in Nat /\ n >= 1 /\ DOMAIN es = I /\ es \in [I -> R] /\ R \subseteq Entries
  OBVIOUS
<1>2. s \in [I -> R] /\ Sorted(s)
  BY <1>1, SortExists DEF kcasdesc_sort
<1> HIDE DEF s
<1>3. IsFiniteSet(I) /\ Cardinality(I) = n
  <2>1. IsFiniteSet(I) /\ Cardinality(I) = IF 1 > n THEN 0 ELSE n - 1 + 1
    BY <1>1, FS_Interval
  <2> QED BY <2>1, <1>1
<1>4. es \in Injection(I, R) /\ es \in Surjection(I, R)
  BY <1>1 DEF Injection, IsInjective, Surjection, Distinct
<1>5. IsFiniteSet(R) /\ Cardinality(R) = n
  BY <1>3, <1>4, FS_Surjection
<1>6. \A i \in I : s[i] \in Entries /\ s[i][1] \in Nat
  BY <1>1, <1>2, EntryFacts
<1>7. \A i, j \in I : s[i][1] = s[j][1] => i = j
  <2> SUFFICES ASSUME NEW i \in I, NEW j \in I, s[i][1] = s[j][1], i < j PROVE FALSE
    BY <1>1
  <2>1. s[i][1] < s[j][1]
    BY <1>2 DEF Sorted
  <2> QED BY <2>1, <1>6
<1>8. s \in Injection(I, R)
  BY <1>2, <1>7 DEF Injection, IsInjective
<1>9. s \in Surjection(I, R)
  BY <1>8, <1>3, <1>5, FS_Injection
<1>10. {s[i] : i \in I} = R
  BY <1>9, <1>2 DEF Surjection
<1>11. s \in Seq(Entries) /\ s # << >> /\ DOMAIN s = I
  BY <1>1, <1>2
<1> QED BY <1>7, <1>10, <1>11, <1>1 DEF s, Distinct

-----------------------------------------------------------------------------
\* The operations.
Step(t) == (CallRead(t) \/ CallExecute(t) \/ Work(t)) /\ Record

LEMMA TagFacts ==
    ASSUME NEW t, NEW n
    PROVE  /\ KcasTag(t, n)[1] = "kcas" /\ KcasTag(t, n)[2] = t /\ KcasTag(t, n)[3] = n
           /\ RdcssTag(t, n)[1] = "rdcss" /\ RdcssTag(t, n)[2] = t /\ RdcssTag(t, n)[3] = n
           /\ isKcas(KcasTag(t, n)) /\ isRdcss(RdcssTag(t, n))
           /\ ~isRdcss(KcasTag(t, n)) /\ ~isKcas(RdcssTag(t, n))
  BY DEF KcasTag, RdcssTag, isKcas, isRdcss

LEMMA OpFacts ==
    ASSUME Types, OpsOK, NEW k \in Ops
    PROVE  /\ k[2] \in Threads /\ k[3] \in Nat /\ k[3] >= 1 /\ k[3] <= kdesc[k[2]].seq
           /\ k = KcasTag(k[2], k[3]) /\ isKcas(k) /\ k \in Tags
           /\ DescOf(k) \in KDescs
           /\ EntriesOf(k) \in Seq(Entries)
           /\ State(k) \in {"undecided", "succeeded", "failed"}
           /\ Len(EntriesOf(k)) \in Nat /\ 1 \in DOMAIN EntriesOf(k)
           /\ \A j \in DOMAIN EntriesOf(k) :
                 EntriesOf(k)[j] \in Entries /\ AddrOf(k, j) \in Addrs
<1>1. /\ k[2] \in Threads /\ k[3] \in Nat /\ k[3] >= 1 /\ k[3] <= kdesc[k[2]].seq
      /\ k = KcasTag(k[2], k[3]) /\ isKcas(k) /\ k \in Tags
  BY DEF Ops, KcasTag, isKcas, Tags
<1>2. kdesc[k[2]] \in KDescs /\ past[k[2]] \in Seq(KDescs) /\ kdesc[k[2]].seq = Len(past[k[2]])
  BY <1>1 DEF Types, OpsOK
<1>3. DescOf(k) \in KDescs
  <2>1. CASE Current(k)
    BY <2>1, <1>2 DEF DescOf
  <2>2. CASE ~Current(k)
    <3>1. k[3] # kdesc[k[2]].seq
      BY <2>2 DEF Current
    <3>2. kdesc[k[2]].seq \in Nat
      BY <1>2 DEF KDescs
    <3>3. k[3] + 1 \in 1 .. Len(past[k[2]])
      BY <3>1, <3>2, <1>1, <1>2
    <3>4. past[k[2]][k[3] + 1] \in KDescs
      BY <3>3, <1>2
    <3> QED BY <3>4, <2>2 DEF DescOf
  <2> QED BY <2>1, <2>2
<1>4. EntriesOf(k) \in Seq(Entries) /\ State(k) \in {"undecided", "succeeded", "failed"}
  BY <1>3 DEF KDescs, EntriesOf, State, Outcomes
<1>5. EntriesOf(k) # << >>
  BY DEF OpsOK
<1>6. Len(EntriesOf(k)) \in Nat /\ 1 \in DOMAIN EntriesOf(k)
  BY <1>4, <1>5
<1>7. ASSUME NEW j \in DOMAIN EntriesOf(k)
      PROVE  EntriesOf(k)[j] \in Entries /\ AddrOf(k, j) \in Addrs
  <2>1. EntriesOf(k)[j] \in Entries
    BY <1>4
  <2> QED BY <2>1, EntryFacts DEF AddrOf
<1> QED BY <1>1, <1>3, <1>4, <1>6, <1>7

\* Only execute begins an operation and only a decision ends one.
LEMMA DescriptorsKept ==
    ASSUME Types, NEW t \in Threads, Step(t), ~CallExecute(t), ~Decide(t)
    PROVE  kdesc' = kdesc /\ past' = past
<1>1. kdesc' = kdesc
  BY DEF Step, Work, CallRead, Read, Return, HelpOther, HelpReadsState, PrepareRdcss,
         InstallRdcss, RdcssHelpOther, RdcssReadsState, RdcssSets, Phase2, Release
<1>2. past' = [u \in Threads |-> past[u]]
  BY <1>1 DEF Step, Record
<1> QED BY <1>1, <1>2 DEF Types

LEMMA NextSeqFacts ==
    ASSUME NEW n \in Nat, n + 1 < SeqLimit
    PROVE  NextSeq(n) = n + 1 /\ n + 1 \in 1 .. SeqLimit
<1>1. SeqLimit \in Nat
  BY KcasAssumption
<1>2. (n + 1) % SeqLimit = n + 1
  BY <1>1
<1> QED BY <1>1, <1>2 DEF NextSeq

\* What execute does to the descriptors.
LEMMA ExecuteFacts ==
    ASSUME Types, OpsOK, SeqsFit, NEW t \in Threads, CallExecute(t), Record
    PROVE  /\ kdesc'[t].seq = kdesc[t].seq + 1 /\ kdesc'[t].state = "undecided"
           /\ kdesc' \in [Threads -> KDescs]
           /\ \A u \in Threads \ {t} : kdesc'[u] = kdesc[u] /\ past'[u] = past[u]
           /\ past'[t] = Append(past[t], kdesc[t]) /\ past' \in [Threads -> Seq(KDescs)]
           /\ kdesc[t].seq \in Nat /\ kdesc[t].seq + 1 \in 1 .. SeqLimit
           /\ request'[t] \in Requests /\ request'[t].kind = "kcas"
           /\ kdesc'[t].entries # << >> /\ Distinct(kdesc'[t].entries)
           /\ {kdesc'[t].entries[i] : i \in DOMAIN kdesc'[t].entries}
                 = {request'[t].entries[i] : i \in DOMAIN request'[t].entries}
           /\ plan' \in [Threads -> Seq(Requests)]
           /\ request' = [request EXCEPT ![t] = request'[t]]
           /\ frames' = [frames EXCEPT ![t] = <<[tag |-> KcasTag(t, kdesc'[t].seq),
                             entries |-> kdesc'[t].entries, i |-> 1, newstate |-> "succeeded"]>>]
<1>1. kdesc[t] \in KDescs /\ kdesc[t].seq \in Nat
  BY DEF Types, KDescs
<1>2. NextSeq(kdesc[t].seq) = kdesc[t].seq + 1 /\ kdesc[t].seq + 1 \in 1 .. SeqLimit
  BY <1>1, NextSeqFacts DEF SeqsFit
<1>3. /\ plan[t] \in Seq(Requests) /\ plan[t] # << >> /\ request' = [request EXCEPT ![t] = Head(plan[t])]
      /\ Head(plan[t]).kind = "kcas" /\ plan' = [plan EXCEPT ![t] = Tail(plan[t])]
  BY DEF Types, CallExecute, Called
<1>4. request'[t] = Head(plan[t]) /\ Head(plan[t]) \in Requests /\ Tail(plan[t]) \in Seq(Requests)
  BY <1>3 DEF Types
<1> DEFINE r == Head(plan[t])
           es == kcasdesc_sort(r.entries)
           d == [seq |-> NextSeq(kdesc[t].seq), state |-> "undecided", entries |-> es]
<1>5. r.entries \in Seq(Entries) /\ r.entries # << >> /\ Distinct(r.entries)
  BY <1>4, KcasAssumption DEF Distinct
<1>6. /\ es \in Seq(Entries) /\ es # << >> /\ Distinct(es)
      /\ {es[i] : i \in DOMAIN es} = {r.entries[i] : i \in DOMAIN r.entries}
  BY <1>5, SortFacts
<1>7. kdesc' = [kdesc EXCEPT ![t] = d]
  BY <1>4 DEF CallExecute
<1>8. frames' = [frames EXCEPT ![t] =
              <<[tag |-> KcasTag(t, d.seq), entries |-> d.entries, i |-> 1, newstate |-> "succeeded"]>>]
  BY <1>4 DEF CallExecute
<1> HIDE DEF r, es
<1>9. d \in KDescs
  BY <1>2, <1>6 DEF KDescs
<1>10. /\ kdesc' \in [Threads -> KDescs] /\ kdesc'[t] = d
       /\ \A u \in Threads \ {t} : kdesc'[u] = kdesc[u]
  BY <1>7, <1>9 DEF Types
<1>11. kdesc'[t].seq = kdesc[t].seq + 1 /\ kdesc'[t].state = "undecided" /\ kdesc'[t].entries = es
  BY <1>10, <1>2
<1>12. past' = [u \in Threads |-> IF kdesc'[u].seq = kdesc[u].seq THEN past[u]
                                 ELSE Append(past[u], kdesc[u])]
  BY DEF Record
<1>13. past'[t] = Append(past[t], kdesc[t]) /\ \A u \in Threads \ {t} : past'[u] = past[u]
  BY <1>12, <1>11, <1>10, <1>1
<1>14. past' \in [Threads -> Seq(KDescs)]
  <2>1. \A u \in Threads : past[u] \in Seq(KDescs) /\ kdesc[u] \in KDescs
    BY DEF Types
  <2>2. \A u \in Threads : Append(past[u], kdesc[u]) \in Seq(KDescs)
    BY <2>1, PushFacts
  <2> QED BY <2>1, <2>2, <1>12
<1>15. plan' \in [Threads -> Seq(Requests)]
  BY <1>3, <1>4 DEF Types
<1>16. r = request'[t] /\ r \in Requests /\ r.kind = "kcas"
  BY <1>4, <1>3 DEF r
<1>17. request' = [request EXCEPT ![t] = request'[t]]
  BY <1>3, <1>4
<1>18. kdesc'[t].seq = d.seq /\ kdesc'[t].entries = d.entries
  BY <1>10
<1>19. frames' = [frames EXCEPT ![t] = <<[tag |-> KcasTag(t, kdesc'[t].seq),
                             entries |-> kdesc'[t].entries, i |-> 1, newstate |-> "succeeded"]>>]
  BY <1>8, <1>18
<1>20. {kdesc'[t].entries[i] : i \in DOMAIN kdesc'[t].entries}
                 = {request'[t].entries[i] : i \in DOMAIN request'[t].entries}
  BY <1>11, <1>6, <1>16
<1> QED BY <1>10, <1>11, <1>1, <1>2, <1>13, <1>14, <1>15, <1>16, <1>17, <1>6, <1>19, <1>20

-----------------------------------------------------------------------------
\* What no step undoes: operations that have begun, their entries, their outcomes, and the tags
\* of the undecided ones.
OpsKept ==
    \A k \in Ops : /\ k \in Ops' /\ EntriesOf(k)' = EntriesOf(k)
                   /\ ~Undec(k) => State(k)' = State(k)

TagsKept == \A k \in Ops, a \in Addrs : Undec(k) /\ mem[a] = k => mem'[a] = k

LEMMA DecideFacts ==
    ASSUME Types, NEW t \in Threads, Decide(t), Record
    PROVE  LET k == Top(t).tag
           IN  /\ past' = past
               /\ ~(Current(k) /\ StateOf(k) = "undecided") => kdesc' = kdesc
               /\ \A u \in Threads : kdesc'[u].seq = kdesc[u].seq /\ kdesc'[u].entries = kdesc[u].entries
               /\ \A u \in Threads : kdesc'[u] # kdesc[u] =>
                     u = k[2] /\ Current(k) /\ StateOf(k) = "undecided" /\ kdesc'[u].state = Top(t).newstate
<1> DEFINE k == Top(t).tag
<1>1. kdesc' = IF Current(k) /\ StateOf(k) = "undecided"
                    THEN [kdesc EXCEPT ![k[2]].state = Top(t).newstate]
                    ELSE kdesc
  BY DEF Decide
<1> HIDE DEF k
<1>2. \A u \in Threads : kdesc[u] \in KDescs
  BY DEF Types
<1>3. \A u \in Threads : /\ kdesc'[u].seq = kdesc[u].seq /\ kdesc'[u].entries = kdesc[u].entries
                         /\ kdesc'[u] # kdesc[u] =>
                              /\ u = k[2] /\ Current(k) /\ StateOf(k) = "undecided"
                              /\ kdesc'[u].state = Top(t).newstate
  BY <1>1, <1>2 DEF Types, KDescs
<1>4. past' = [u \in Threads |-> past[u]]
  BY <1>3 DEF Record
<1>5. past' = past
  BY <1>4 DEF Types
<1> QED BY <1>1, <1>3, <1>5 DEF k

LEMMA OpsKeptStep ==
    ASSUME Types, OpsOK, SeqsFit, NEW t \in Threads, Step(t)
    PROVE  OpsKept
<1> SUFFICES ASSUME NEW k \in Ops
             PROVE  /\ k \in Ops' /\ EntriesOf(k)' = EntriesOf(k)
                    /\ ~Undec(k) => State(k)' = State(k)
  BY DEF OpsKept
<1> USE DEF Ops, EntriesOf, State, Undec, DescOf, Current
<1>1. k[2] \in Threads /\ k[3] \in Nat /\ k[3] <= kdesc[k[2]].seq /\ kdesc[k[2]].seq \in Nat
  BY DEF Types, KDescs
<1>2. CASE ~CallExecute(t) /\ ~Decide(t)
  <2>1. kdesc' = kdesc /\ past' = past
    BY <1>2, DescriptorsKept
  <2> QED BY <2>1
<1>3. CASE Decide(t)
  <2>1. /\ past' = past
        /\ kdesc'[k[2]].seq = kdesc[k[2]].seq /\ kdesc'[k[2]].entries = kdesc[k[2]].entries
        /\ kdesc'[k[2]] # kdesc[k[2]] => kdesc[k[2]].state = "undecided"
    BY <1>1, <1>3, DecideFacts DEF Step, StateOf
  <2>2. k \in Ops'
    BY <2>1, <1>1
  <2>3. CASE Current(k)
    BY <2>1, <2>2, <2>3
  <2>4. CASE ~Current(k)
    BY <2>1, <2>2, <2>4
  <2> QED BY <2>3, <2>4
<1>4. CASE CallExecute(t)
  <2>1. /\ kdesc'[t].seq = kdesc[t].seq + 1 /\ kdesc[t].seq \in Nat
        /\ \A u \in Threads \ {t} : kdesc'[u] = kdesc[u] /\ past'[u] = past[u]
        /\ past'[t] = Append(past[t], kdesc[t])
    BY <1>4, ExecuteFacts DEF Step
  <2>2. k \in Ops'
    BY <2>1, <1>1
  <2>3. CASE k[2] # t
    BY <2>1, <2>2, <2>3, <1>1
  <2>4. CASE k[2] = t
    <3>1. past[t] \in Seq(KDescs) /\ kdesc[t] \in KDescs /\ kdesc[t].seq = Len(past[t])
      BY DEF Types, OpsOK
    <3>2. kdesc'[t].seq # k[3]
      BY <2>1, <2>4, <1>1
    <3>3. k[3] = kdesc[t].seq => past'[t][k[3] + 1] = kdesc[t]
      BY <3>1, <2>1, PushFacts
    <3>4. k[3] # kdesc[t].seq => past'[t][k[3] + 1] = past[t][k[3] + 1]
      BY <3>1, <2>1, <2>4, <1>1, PushFacts
    <3> QED BY <3>2, <3>3, <3>4, <2>2, <2>4
  <2> QED BY <2>3, <2>4
<1> QED BY <1>2, <1>3, <1>4

LEMMA TopFacts ==
    ASSUME Types, FramesOK, NEW t \in Threads, Busy(t)
    PROVE  /\ Top(t) \in Frames /\ GoodFrame(Top(t), pc[t])
           /\ frames[t] \in Seq(Frames) /\ Len(frames[t]) \in DOMAIN frames[t]
           /\ Len(frames[t]) \in Nat /\ Len(frames[t]) >= 1 /\ DOMAIN frames[t] = 1 .. Len(frames[t])
           /\ Top(t) = frames[t][Len(frames[t])]
<1>1. /\ frames[t] \in Seq(Frames) /\ Len(frames[t]) \in DOMAIN frames[t]
      /\ Len(frames[t]) \in Nat /\ Len(frames[t]) >= 1 /\ DOMAIN frames[t] = 1 .. Len(frames[t])
  BY DEF Types, Busy
<1>2. Top(t) = frames[t][Len(frames[t])] /\ Top(t) \in Frames
  BY <1>1 DEF Top
<1>3. GoodFrame(frames[t][Len(frames[t])], At(t, Len(frames[t])))
  BY <1>1 DEF FramesOK
<1>4. At(t, Len(frames[t])) = pc[t]
  BY DEF At
<1> QED BY <1>1, <1>2, <1>3, <1>4

\* The steps that write to memory, and what they replace.
LEMMA MemFacts ==
    ASSUME Inv, NEW t \in Threads, Step(t)
    PROVE  \/ mem' = mem
           \/ InstallRdcss(t) /\ rdesc[t].addr \in Addrs
              /\ mem' = [mem EXCEPT ![rdesc[t].addr] = mem'[rdesc[t].addr]]
              /\ mem[rdesc[t].addr] = Value(rdesc[t].old2) /\ mem'[rdesc[t].addr] = MyRdcss(t)
           \/ LET h == helped[t]
              IN  RdcssSets(t) /\ h.desc.addr \in Addrs
                  /\ mem' = [mem EXCEPT ![h.desc.addr] = mem'[h.desc.addr]]
                  /\ mem[h.desc.addr] = h.tag
                  /\ mem'[h.desc.addr] = IF h.undecided THEN h.desc.tag ELSE Value(h.desc.old2)
           \/ LET a == Entry(t)[1]
              IN  Release(t) /\ a \in Addrs /\ mem' = [mem EXCEPT ![a] = mem'[a]]
                  /\ mem[a] = Top(t).tag
                  /\ mem'[a] = Value(IF Top(t).newstate = "succeeded" THEN Entry(t)[3] ELSE Entry(t)[2])
<1>1. CASE InstallRdcss(t)
  <2> DEFINE a == rdesc[t].addr
  <2>1. mem' = [mem EXCEPT ![a] = IF mem[a] = Value(rdesc[t].old2) THEN MyRdcss(t) ELSE mem[a]]
    BY <1>1 DEF InstallRdcss, CAS, SetMem, MyRdcss
  <2>2. pc[t] = "install"
    BY <1>1 DEF InstallRdcss
  <2>3. Busy(t)
    BY <2>2 DEF Inv, ControlOK, Control
  <2>4. rdesc[t].seq >= 1
    BY <2>2, <2>3 DEF Inv, PreparedOK, Prepared
  <2>5. DescOK(rdesc[t])
    BY <2>4 DEF Inv, RdescOK
  <2>6. rdesc[t].addr \in Addrs
    <3>1. PICK j \in DOMAIN EntriesOf(rdesc[t].tag) : rdesc[t].addr = AddrOf(rdesc[t].tag, j)
      BY <2>5 DEF DescOK
    <3>2. rdesc[t].tag \in Ops
      BY <2>5 DEF DescOK
    <3> QED BY <3>1, <3>2, OpFacts DEF Inv
  <2>7. CASE mem[a] = Value(rdesc[t].old2)
    BY <2>1, <2>6, <2>7, <1>1 DEF Inv, Types
  <2>8. CASE mem[a] # Value(rdesc[t].old2)
    BY <2>1, <2>8 DEF Inv, Types
  <2> QED BY <2>7, <2>8
<1>2. CASE RdcssSets(t)
  <2> DEFINE h == helped[t]
             a == h.desc.addr
             w == IF h.undecided THEN h.desc.tag ELSE Value(h.desc.old2)
  <2>1. mem' = [mem EXCEPT ![a] = IF mem[a] = h.tag THEN w ELSE mem[a]]
    BY <1>2 DEF RdcssSets, CAS, SetMem
  <2>2. HelpsRdcss(t)
    BY <1>2 DEF RdcssSets, HelpsRdcss
  <2>3. DescOK(h.desc)
    BY <2>2 DEF Inv, HelpedOK
  <2>4. a \in Addrs
    <3>1. PICK j \in DOMAIN EntriesOf(h.desc.tag) : h.desc.addr = AddrOf(h.desc.tag, j)
      BY <2>3 DEF DescOK
    <3>2. h.desc.tag \in Ops
      BY <2>3 DEF DescOK
    <3> QED BY <3>1, <3>2, OpFacts DEF Inv
  <2> HIDE DEF w
  <2>5. CASE mem[a] = h.tag
    <3>1. mem' = [mem EXCEPT ![a] = mem'[a]] /\ mem'[a] = w
      BY <2>1, <2>4, <2>5 DEF Inv, Types
    <3> QED BY <3>1, <2>4, <2>5, <1>2 DEF w
  <2>6. CASE mem[a] # h.tag
    BY <2>1, <2>6 DEF Inv, Types
  <2> QED BY <2>5, <2>6
<1>3. CASE Release(t)
  <2> DEFINE a == Entry(t)[1]
             w == Value(IF Top(t).newstate = "succeeded" THEN Entry(t)[3] ELSE Entry(t)[2])
  <2>1. mem' = [mem EXCEPT ![a] = IF mem[a] = Top(t).tag THEN w ELSE mem[a]]
    BY <1>3 DEF Release, CAS, SetMem
  <2>2. pc[t] = "release" /\ Busy(t)
    BY <1>3 DEF Release, Inv, ControlOK, Control
  <2>4. Top(t) \in Frames /\ GoodFrame(Top(t), "release")
    BY <2>2, TopFacts DEF Inv
  <2>6. Top(t).i \in DOMAIN Top(t).entries /\ Top(t).entries \in Seq(Entries)
    BY <2>4 DEF GoodFrame, Frames
  <2>7. a \in Addrs
    BY <2>6, EntryFacts DEF Entry
  <2> HIDE DEF w
  <2>8. CASE mem[a] = Top(t).tag
    <3>1. mem' = [mem EXCEPT ![a] = mem'[a]] /\ mem'[a] = w
      BY <2>1, <2>7, <2>8 DEF Inv, Types
    <3> QED BY <3>1, <2>7, <2>8, <1>3 DEF w
  <2>9. CASE mem[a] # Top(t).tag
    BY <2>1, <2>9 DEF Inv, Types
  <2> QED BY <2>8, <2>9
<1>4. CASE ~InstallRdcss(t) /\ ~RdcssSets(t) /\ ~Release(t)
  BY <1>4 DEF Step, Work, CallRead, CallExecute, Read, Return, HelpOther, HelpReadsState,
              PrepareRdcss, RdcssHelpOther, RdcssReadsState, Decide, Phase2
<1> QED BY <1>1, <1>2, <1>3, <1>4

LEMMA TagsKeptStep ==
    ASSUME Inv, NEW t \in Threads, Step(t)
    PROVE  TagsKept
<1> SUFFICES ASSUME NEW k \in Ops, NEW a \in Addrs, Undec(k), mem[a] = k PROVE mem'[a] = k
  BY DEF TagsKept
<1>1. k[1] = "kcas"
  BY DEF Ops
<1>2. mem \in [Addrs -> Words \ {NoWord}]
  BY DEF Inv, Types
<1>3. CASE mem' = mem
  BY <1>3
<1>4. CASE /\ mem' = [mem EXCEPT ![rdesc[t].addr] = mem'[rdesc[t].addr]]
           /\ mem[rdesc[t].addr] = Value(rdesc[t].old2)
  BY <1>1, <1>2, <1>4 DEF Value
<1>5. CASE LET h == helped[t]
           IN  /\ RdcssSets(t) /\ mem' = [mem EXCEPT ![h.desc.addr] = mem'[h.desc.addr]]
               /\ mem[h.desc.addr] = h.tag
  <2>1. helped[t].tag \in Rds
    BY <1>5 DEF RdcssSets, HelpsRdcss, Inv, HelpedOK
  <2>2. helped[t].tag[1] = "rdcss"
    BY <2>1 DEF Rds
  <2> QED BY <2>2, <1>1, <1>2, <1>5
<1>6. CASE LET b == Entry(t)[1]
           IN  Release(t) /\ mem' = [mem EXCEPT ![b] = mem'[b]] /\ mem[b] = Top(t).tag
  <2>1. pc[t] = "release" /\ Busy(t)
    BY <1>6 DEF Release, Inv, ControlOK, Control
  <2>2. ~Undec(Top(t).tag)
    BY <2>1, TopFacts DEF GoodFrame, Inv
  <2>3. Entry(t)[1] # a
    BY <2>2, <1>6
  <2> QED BY <2>3, <1>2, <1>6
<1> QED BY <1>3, <1>4, <1>5, <1>6, MemFacts

\* So what a thread knows of an operation stays true.
LEMMA UndecKept ==
    ASSUME OpsKept, NEW k \in Ops
    PROVE  /\ k \in Ops' /\ EntriesOf(k)' = EntriesOf(k)
           /\ ~Undec(k) => ~Undec(k)' /\ State(k)' = State(k)
           /\ Undec(k)' => Undec(k)
  BY DEF OpsKept, Undec

LEMMA HeldKept ==
    ASSUME Types, OpsOK, OpsKept, TagsKept, NEW k \in Ops, NEW j \in DOMAIN EntriesOf(k), Undec(k), Holds(k, j)
    PROVE  Holds(k, j)'
<1>1. EntriesOf(k)' = EntriesOf(k)
  BY UndecKept
<1>2. AddrOf(k, j) \in Addrs /\ AddrOf(k, j)' = AddrOf(k, j)
  BY <1>1, OpFacts DEF AddrOf
<1>3. mem'[AddrOf(k, j)] = k
  BY <1>2 DEF TagsKept, Holds
<1> QED BY <1>2, <1>3 DEF Holds

LEMMA HeldBeforeKept ==
    ASSUME Types, OpsOK, OpsKept, TagsKept, NEW k \in Ops, NEW i, HeldBefore(k, i)
    PROVE  HeldBefore(k, i)'
<1> SUFFICES ASSUME Undec(k)' PROVE (\A j \in DOMAIN EntriesOf(k) : j < i => Holds(k, j))'
  BY DEF HeldBefore
<1>1. Undec(k) /\ EntriesOf(k)' = EntriesOf(k)
  BY UndecKept
<1>2. ASSUME NEW j \in DOMAIN EntriesOf(k), j < i PROVE Holds(k, j)'
  BY <1>1, <1>2, HeldKept DEF HeldBefore
<1> QED BY <1>1, <1>2

LEMMA FirstKept ==
    ASSUME Types, OpsOK, OpsKept, TagsKept, NEW k \in Ops, First(k)
    PROVE  First(k)'
<1> SUFFICES ASSUME Undec(k)' PROVE Holds(k, 1)'
  BY DEF First
<1>1. Undec(k) /\ 1 \in DOMAIN EntriesOf(k)
  BY UndecKept, OpFacts
<1> QED BY <1>1, HeldKept DEF First

LEMMA DescKept ==
    ASSUME Types, OpsOK, OpsKept, TagsKept, NEW d, DescOK(d)
    PROVE  DescOK(d)'
<1>1. d.tag \in Ops /\ d.tag \in Ops' /\ EntriesOf(d.tag)' = EntriesOf(d.tag)
  BY UndecKept DEF DescOK
<1>2. PICK j \in DOMAIN EntriesOf(d.tag) :
          /\ d.addr = AddrOf(d.tag, j) /\ d.old2 = EntriesOf(d.tag)[j][2]
          /\ j = 1 \/ First(d.tag)
  BY DEF DescOK
<1>3. d.addr = AddrOf(d.tag, j)' /\ d.old2 = EntriesOf(d.tag)'[j][2] /\ j \in DOMAIN (EntriesOf(d.tag)')
  BY <1>1, <1>2 DEF AddrOf
<1>4. j = 1 \/ First(d.tag)'
  BY <1>1, <1>2, FirstKept
<1> QED BY <1>1, <1>3, <1>4 DEF DescOK

LEMMA FrameKept ==
    ASSUME Types, OpsOK, OpsKept, TagsKept, NEW f, NEW l, GoodFrame(f, l)
    PROVE  GoodFrame(f, l)'
<1>1. /\ f.tag \in Ops /\ f.tag \in Ops' /\ EntriesOf(f.tag)' = EntriesOf(f.tag)
      /\ ~Undec(f.tag) => ~Undec(f.tag)' /\ State(f.tag)' = State(f.tag)
  BY UndecKept DEF GoodFrame
<1>2. HeldBefore(f.tag, f.i) => HeldBefore(f.tag, f.i)'
  BY <1>1, HeldBeforeKept
<1>3. f.entries = EntriesOf(f.tag)' /\ f.i >= 1
  BY <1>1 DEF GoodFrame
<1>4. l = "release" => l \in {"phase2", "release"}
  OBVIOUS
<1> QED BY <1>1, <1>2, <1>3, <1>4 DEF GoodFrame

-----------------------------------------------------------------------------
\* Types, and what a step leaves alone.
Others(t) ==
    \A u \in Threads \ {t} :
        /\ pc'[u] = pc[u] /\ frames'[u] = frames[u] /\ word'[u] = word[u]
        /\ helped'[u] = helped[u] /\ rdesc'[u] = rdesc[u] /\ request'[u] = request[u]
        /\ answer'[u] = answer[u]

LEMMA OthersStep ==
    ASSUME Types, NEW t \in Threads, Step(t)
    PROVE  Others(t)
<1> USE DEF Others, Types, Goto, SetTop, HelpReturns, Resume, Retry, NextEntry, Called, local
<1>1. CASE CallRead(t)
  BY <1>1 DEF CallRead
<1>2. CASE CallExecute(t)
  BY <1>2 DEF CallExecute
<1>3. CASE Read(t)
  BY <1>3 DEF Read
<1>4. CASE Return(t)
  BY <1>4 DEF Return
<1>5. CASE HelpOther(t)
  BY <1>5 DEF HelpOther
<1>6. CASE HelpReadsState(t)
  BY <1>6 DEF HelpReadsState
<1>7. CASE PrepareRdcss(t)
  BY <1>7 DEF PrepareRdcss
<1>8. CASE InstallRdcss(t)
  BY <1>8 DEF InstallRdcss
<1>9. CASE RdcssHelpOther(t)
  BY <1>9 DEF RdcssHelpOther
<1>10. CASE RdcssReadsState(t)
  BY <1>10 DEF RdcssReadsState
<1>11. CASE RdcssSets(t)
  BY <1>11 DEF RdcssSets
<1>12. CASE Decide(t)
  BY <1>12 DEF Decide
<1>13. CASE Phase2(t)
  BY <1>13 DEF Phase2
<1>14. CASE Release(t)
  BY <1>14 DEF Release
<1> QED BY <1>1, <1>2, <1>3, <1>4, <1>5, <1>6, <1>7, <1>8, <1>9, <1>10, <1>11, <1>12, <1>13, <1>14
        DEF Step, Work

\* The four things that a step does to a stack.
NewTop(t, f) ==
    /\ frames' \in [Threads -> Seq(Frames)]
    /\ Len(frames'[t]) = Len(frames[t]) /\ Len(frames[t]) \in Nat /\ Len(frames[t]) >= 1
    /\ frames'[t][Len(frames[t])] = f
    /\ \A p \in 1 .. Len(frames[t]) - 1 : frames'[t][p] = frames[t][p]

Popped(t) ==
    /\ frames' \in [Threads -> Seq(Frames)]
    /\ Len(frames'[t]) = Len(frames[t]) - 1 /\ Len(frames[t]) \in Nat /\ Len(frames[t]) >= 1
    /\ \A p \in 1 .. Len(frames[t]) - 1 : frames'[t][p] = frames[t][p]
    /\ frames'[t] = << >> <=> Len(frames[t]) = 1

Pushed(t, f) ==
    /\ frames' \in [Threads -> Seq(Frames)]
    /\ Len(frames'[t]) = Len(frames[t]) + 1 /\ Len(frames[t]) \in Nat
    /\ frames'[t][Len(frames[t]) + 1] = f
    /\ \A p \in 1 .. Len(frames[t]) : frames'[t][p] = frames[t][p]

LEMMA NewTopFacts ==
    ASSUME Types, NEW t \in Threads, Busy(t), NEW f \in Frames, SetTop(t, f)
    PROVE  NewTop(t, f)
<1>1. frames[t] \in Seq(Frames) /\ frames[t] # << >> /\ frames'[t] = Append(Under(t), f)
  BY DEF Types, Busy, SetTop
<1>2. frames' = [frames EXCEPT ![t] = Append(Under(t), f)]
  BY DEF SetTop
<1> DEFINE s == Append(Under(t), f)
<1>3. /\ s \in Seq(Frames) /\ Len(s) = Len(frames[t]) /\ Len(frames[t]) \in Nat /\ Len(frames[t]) >= 1
      /\ s[Len(frames[t])] = f
      /\ \A p \in 1 .. Len(frames[t]) - 1 : s[p] = frames[t][p]
  BY <1>1, SetTopFacts DEF Under
<1> HIDE DEF s
<1>4. frames' \in [Threads -> Seq(Frames)] /\ frames'[t] = s
  BY <1>1, <1>2, <1>3 DEF s, Types
<1> QED BY <1>3, <1>4 DEF NewTop

LEMMA PoppedFacts ==
    ASSUME Types, NEW t \in Threads, Busy(t), frames' = [frames EXCEPT ![t] = Under(t)]
    PROVE  Popped(t) /\ (Under(t) = << >> <=> Len(frames[t]) = 1)
<1>1. frames[t] \in Seq(Frames) /\ frames[t] # << >> /\ frames'[t] = Under(t)
  BY DEF Types, Busy
<1> DEFINE s == Under(t)
<1>3. /\ s \in Seq(Frames) /\ Len(s) = Len(frames[t]) - 1 /\ Len(frames[t]) \in Nat /\ Len(frames[t]) >= 1
      /\ \A p \in 1 .. Len(frames[t]) - 1 : s[p] = frames[t][p]
      /\ s = << >> <=> Len(frames[t]) = 1
  BY <1>1, PopFacts DEF Under
<1> HIDE DEF s
<1>4. frames' \in [Threads -> Seq(Frames)] /\ frames'[t] = s
  BY <1>1, <1>3 DEF s, Types
<1> QED BY <1>3, <1>4 DEF Popped, s

LEMMA PushedFacts ==
    ASSUME Types, NEW t \in Threads, NEW f \in Frames, frames' = [frames EXCEPT ![t] = Append(@, f)]
    PROVE  Pushed(t, f)
<1>1. frames[t] \in Seq(Frames) /\ frames'[t] = Append(frames[t], f)
  BY DEF Types
<1> DEFINE s == Append(frames[t], f)
<1>3. /\ s \in Seq(Frames) /\ Len(s) = Len(frames[t]) + 1 /\ Len(frames[t]) \in Nat
      /\ s[Len(frames[t]) + 1] = f
      /\ \A p \in 1 .. Len(frames[t]) : s[p] = frames[t][p]
  BY <1>1, PushFacts
<1>2. frames' = [frames EXCEPT ![t] = s]
  OBVIOUS
<1> HIDE DEF s
<1>4. frames' \in [Threads -> Seq(Frames)] /\ frames'[t] = s
  BY <1>1, <1>2, <1>3 DEF s, Types
<1> QED BY <1>3, <1>4 DEF Pushed

\* If the frame that changes is good, all are.
LEMMA FramesOKSame ==
    ASSUME Inv, OpsKept, TagsKept, NEW t \in Threads, Others(t), frames' = frames,
           NEW l, l = pc'[t], Busy(t) => GoodFrame(Top(t), l)'
    PROVE  FramesOK'
<1> SUFFICES ASSUME NEW u \in Threads, NEW p \in DOMAIN frames[u]
             PROVE  GoodFrame(frames[u][p], At(u, p))'
  BY DEF FramesOK
<1>1. PICK f : f = frames[u][p]
  OBVIOUS
<1>2. PICK m : m = At(u, p)
  OBVIOUS
<1>3. GoodFrame(f, m)'
  BY <1>1, <1>2, FrameKept DEF Inv, FramesOK
<1>4. CASE m = At(u, p)'
  <2>1. f = frames'[u][p]
    BY <1>1
  <2> QED BY <1>3, <2>1, <1>4
<1>5. CASE m # At(u, p)'
  <2>1. u = t /\ p = Len(frames[t])
    BY <1>2, <1>5 DEF At, Others
  <2>2. Busy(t)
    BY <2>1 DEF Busy
  <2>3. f = Top(t)'
    BY <1>1, <2>1 DEF Top
  <2>4. l = At(u, p)'
    BY <2>1 DEF At
  <2>5. GoodFrame(f, l)'
    BY <2>2, <2>3
  <2> QED BY <2>4, <2>5, <1>1
<1> QED BY <1>4, <1>5

\* The frames of the other threads.
LEMMA OtherFrames ==
    ASSUME Inv, OpsKept, TagsKept, NEW t \in Threads, Others(t),
           NEW u \in Threads \ {t}, NEW p \in DOMAIN (frames'[u])
    PROVE  GoodFrame(frames[u][p], At(u, p))'
<1>1. PICK f : f = frames[u][p]
  OBVIOUS
<1>2. PICK m : m = At(u, p)
  OBVIOUS
<1>3. frames'[u] = frames[u] /\ pc'[u] = pc[u]
  BY DEF Others
<1>4. GoodFrame(f, m)'
  BY <1>1, <1>2, <1>3, FrameKept DEF Inv, FramesOK
<1>5. f = frames'[u][p] /\ m = At(u, p)'
  BY <1>1, <1>2, <1>3 DEF At
<1> QED BY <1>4, <1>5

\* The frames below the one that changes.
LEMMA LowerFrames ==
    ASSUME Inv, OpsKept, TagsKept, NEW t \in Threads,
           Len(frames[t]) \in Nat, NEW p \in 1 .. Len(frames[t]) - 1, NEW f, f = frames[t][p]
    PROVE  GoodFrame(f, "waits")'
<1>1. p \in DOMAIN frames[t] /\ At(t, p) = "waits"
  BY DEF Inv, Types, At
<1>2. GoodFrame(f, "waits")
  BY <1>1 DEF Inv, FramesOK
<1> QED BY <1>2, FrameKept DEF Inv

LEMMA FramesOKNewTop ==
    ASSUME Inv, OpsKept, TagsKept, NEW t \in Threads, Others(t), NEW f, NewTop(t, f),
           NEW l, l = pc'[t], GoodFrame(f, l)'
    PROVE  FramesOK'
<1> SUFFICES ASSUME NEW u \in Threads, NEW p \in DOMAIN (frames'[u])
             PROVE  GoodFrame(frames[u][p], At(u, p))'
  BY DEF FramesOK
<1>1. CASE u # t
  BY <1>1, OtherFrames
<1>2. CASE u = t
  <2> DEFINE n == Len(frames[t])
  <2>1. p \in 1 .. n /\ n \in Nat /\ Len(frames'[t]) = n
    BY <1>2 DEF NewTop
  <2>2. CASE p = n
    <3>1. f = frames'[u][p] /\ l = At(u, p)'
      BY <2>1, <2>2, <1>2 DEF NewTop, At
    <3> QED BY <3>1
  <2>3. CASE p # n
    <3>1. p \in 1 .. n - 1
      BY <2>1, <2>3
    <3>2. PICK g : g = frames[t][p]
      OBVIOUS
    <3>3. GoodFrame(g, "waits")'
      BY <3>1, <3>2, <2>1, LowerFrames DEF NewTop
    <3>4. g = frames'[u][p] /\ At(u, p)' = "waits"
      BY <3>1, <3>2, <2>1, <2>3, <1>2 DEF NewTop, At
    <3> QED BY <3>3, <3>4
  <2> QED BY <2>2, <2>3
<1> QED BY <1>1, <1>2

\* The frame that waited goes on.
LEMMA WaitsOver ==
    ASSUME NEW f, NEW l \in OnEntry, GoodFrame(f, "waits")'
    PROVE  GoodFrame(f, l)'
  BY DEF GoodFrame, AtEntry, OnEntry, Phase1

LEMMA FramesOKPopped ==
    ASSUME Inv, OpsKept, TagsKept, NEW t \in Threads, Others(t), Popped(t),
           frames'[t] # << >> => pc'[t] = "prepare"
    PROVE  FramesOK'
<1> SUFFICES ASSUME NEW u \in Threads, NEW p \in DOMAIN (frames'[u])
             PROVE  GoodFrame(frames[u][p], At(u, p))'
  BY DEF FramesOK
<1>1. CASE u # t
  BY <1>1, OtherFrames
<1>2. CASE u = t
  <2> DEFINE n == Len(frames[t])
  <2>1. p \in 1 .. n - 1 /\ n \in Nat /\ Len(frames'[t]) = n - 1 /\ frames'[t] \in Seq(Frames)
    BY <1>2 DEF Popped
  <2>2. PICK g : g = frames[t][p]
    OBVIOUS
  <2>3. GoodFrame(g, "waits")'
    BY <2>1, <2>2, LowerFrames DEF Popped
  <2>4. g = frames'[u][p]
    BY <2>1, <2>2, <1>2 DEF Popped
  <2>5. frames'[t] # << >>
    BY <2>1
  <2>6. At(u, p)' \in {"waits", "prepare"}
    BY <2>5, <1>2 DEF At
  <2>7. GoodFrame(g, "prepare")'
    BY <2>3, WaitsOver DEF OnEntry
  <2> QED BY <2>3, <2>4, <2>6, <2>7
<1> QED BY <1>1, <1>2

LEMMA FramesOKPushed ==
    ASSUME Inv, OpsKept, TagsKept, NEW t \in Threads, Others(t), NEW f, Pushed(t, f),
           NEW l, l = pc'[t], GoodFrame(f, l)', Busy(t) => pc[t] \in OnEntry
    PROVE  FramesOK'
<1> SUFFICES ASSUME NEW u \in Threads, NEW p \in DOMAIN (frames'[u])
             PROVE  GoodFrame(frames[u][p], At(u, p))'
  BY DEF FramesOK
<1>1. CASE u # t
  BY <1>1, OtherFrames
<1>2. CASE u = t
  <2> DEFINE n == Len(frames[t])
  <2>1. p \in 1 .. n + 1 /\ n \in Nat /\ Len(frames'[t]) = n + 1
    BY <1>2 DEF Pushed
  <2>2. CASE p = n + 1
    <3>1. f = frames'[u][p] /\ l = At(u, p)'
      BY <2>1, <2>2, <1>2 DEF Pushed, At
    <3> QED BY <3>1
  <2>3. CASE p # n + 1
    <3>1. p \in 1 .. n /\ p \in DOMAIN frames[t]
      BY <2>1, <2>3 DEF Inv, Types
    <3>2. PICK g : g = frames[t][p]
      OBVIOUS
    <3>3. GoodFrame(frames[t][p], At(t, p))
      BY <3>1 DEF Inv, FramesOK
    <3>4. At(t, p) \in AtEntry
      BY <3>1, <2>1 DEF At, AtEntry, Busy
    <3>5. GoodFrame(g, "waits")
      BY <3>2, <3>3, <3>4 DEF GoodFrame, AtEntry, Phase1, OnEntry
    <3>6. GoodFrame(g, "waits")'
      BY <3>5, FrameKept DEF Inv
    <3>7. g = frames'[u][p] /\ At(u, p)' = "waits"
      BY <3>1, <3>2, <2>1, <2>3, <1>2 DEF Pushed, At
    <3> QED BY <3>6, <3>7
  <2> QED BY <2>2, <2>3
<1> QED BY <1>1, <1>2

LEMMA ReturnsFacts ==
    ASSUME Types, NEW t \in Threads, Busy(t), NEW r, HelpReturns(t, r)
    PROVE  /\ Popped(t) /\ (Under(t) = << >> <=> Len(frames[t]) = 1)
           /\ Own(t) => pc'[t] = "return" /\ answer'[t] = r
           /\ ~Own(t) => answer' = answer /\ pc'[t] = IF Len(frames[t]) = 1 THEN "read" ELSE "prepare"
           /\ frames'[t] # << >> => pc'[t] = "prepare"
           /\ pc' = [pc EXCEPT ![t] = pc'[t]] /\ pc'[t] \in Labels
<1>1. Popped(t) /\ (Under(t) = << >> <=> Len(frames[t]) = 1)
  BY PoppedFacts DEF HelpReturns
<1>2. CASE Own(t)
  <2>1. pc' = [pc EXCEPT ![t] = "return"] /\ answer' = [answer EXCEPT ![t] = r]
    BY <1>2 DEF HelpReturns, Goto
  <2>2. frames'[t] = << >>
    BY <1>1, <1>2 DEF Own, Popped
  <2> QED BY <2>1, <2>2, <1>1, <1>2 DEF Types, Labels
<1>3. CASE ~Own(t)
  <2>1. pc' = [pc EXCEPT ![t] = IF Under(t) = << >> THEN "read" ELSE "prepare"] /\ answer' = answer
    BY <1>3 DEF HelpReturns, Resume, Goto
  <2>2. frames'[t] = << >> <=> Len(frames[t]) = 1
    BY <1>1 DEF Popped
  <2>3. pc'[t] = IF Under(t) = << >> THEN "read" ELSE "prepare"
    BY <2>1 DEF Types
  <2> QED BY <2>1, <2>2, <2>3, <1>1, <1>3 DEF Types, Labels, OnEntry
<1> QED BY <1>2, <1>3

LEMMA OnEntryFacts ==
    ASSUME NEW f, NEW l \in OnEntry, NEW m \in OnEntry, GoodFrame(f, l)
    PROVE  GoodFrame(f, m)
  BY DEF GoodFrame, AtEntry, OnEntry, Phase1

\* The stack stays, and the top frame is at another place of its loop.
LEMMA FramesOKOnEntry ==
    ASSUME Inv, OpsKept, TagsKept, NEW t \in Threads, Others(t), frames' = frames,
           Busy(t) => pc[t] \in OnEntry /\ pc'[t] \in OnEntry
    PROVE  FramesOK'
<1>1. PICK l : l = pc'[t]
  OBVIOUS
<1>2. ASSUME Busy(t) PROVE GoodFrame(Top(t), l)'
  <2>1. PICK f : f = Top(t)
    OBVIOUS
  <2>2. GoodFrame(f, pc[t])
    BY <2>1, <1>2, TopFacts DEF Inv
  <2>3. PICK m : m = pc[t]
    OBVIOUS
  <2>4. GoodFrame(f, l)
    BY <2>2, <2>3, <1>1, <1>2, OnEntryFacts
  <2>5. GoodFrame(f, l)'
    BY <2>4, FrameKept DEF Inv
  <2>6. f = Top(t)'
    BY <2>1 DEF Top
  <2> QED BY <2>5, <2>6
<1> QED BY <1>1, <1>2, FramesOKSame

\* The loop goes on to the next entry once the tag is at this one.
LEMMA FramesOKNextEntry ==
    ASSUME Inv, OpsKept, TagsKept, NEW t \in Threads, Others(t), Busy(t), pc[t] \in OnEntry, NextEntry(t),
           NEW k, k = Top(t).tag, NEW i, i = Top(t).i, Undec(k)' => Holds(k, i)'
    PROVE  FramesOK'
<1>1. PICK f : f = Top(t)
  OBVIOUS
<1>2. f \in Frames /\ GoodFrame(f, pc[t])
  BY <1>1, TopFacts DEF Inv
<1>3. PICK m : m = pc[t]
  OBVIOUS
<1>4. /\ GoodFrame(f, m) /\ m \in AtEntry /\ m \in Phase1
  BY <1>2, <1>3 DEF AtEntry, Phase1
<1>5. /\ k \in Ops /\ f.entries = EntriesOf(k) /\ i \in 1 .. Len(f.entries) /\ Len(f.entries) \in Nat
      /\ f.newstate = "succeeded" /\ HeldBefore(k, i) /\ f.entries \in Seq(Entries) /\ i \in Nat
  BY <1>1, <1>2, <1>4 DEF GoodFrame, Frames
<1>6. k \in Ops' /\ f.entries = EntriesOf(k)'
  BY <1>5, UndecKept
<1>7. HeldBefore(k, i)'
  BY <1>5, HeldBeforeKept DEF Inv
<1>8. ASSUME Undec(k)', NEW j \in DOMAIN (EntriesOf(k)'), j < i + 1
      PROVE  Holds(k, j)'
  <2>1. j \in 1 .. Len(f.entries)
    BY <1>6, <1>5
  <2>2. CASE j < i
    BY <2>2, <1>7, <1>8 DEF HeldBefore
  <2>3. CASE j = i
    BY <2>3, <1>8
  <2> QED BY <2>1, <2>2, <2>3, <1>8, <1>5
<1>9. HeldBefore(k, i + 1)'
  BY <1>8 DEF HeldBefore
<1>10. PICK g : g = [f EXCEPT !.i = i + 1]
  OBVIOUS
<1>11. /\ g \in Frames /\ g.tag = k /\ g.entries = f.entries /\ g.i = i + 1 /\ g.newstate = "succeeded"
  BY <1>1, <1>2, <1>5, <1>10 DEF Frames
<1>12. SetTop(t, g)
  BY <1>1, <1>10 DEF NextEntry
<1>13. NewTop(t, g)
  BY <1>11, <1>12, NewTopFacts DEF Inv
<1>14. pc'[t] = IF i < Len(f.entries) THEN "prepare" ELSE "decide"
  BY <1>1 DEF NextEntry, Goto, Inv, Types
<1>15. PICK l : l = pc'[t]
  OBVIOUS
<1>16. i < Len(f.entries) => i + 1 <= Len(f.entries)
  BY <1>5
<1>17. ~(i < Len(f.entries)) => i + 1 > Len(f.entries)
  BY <1>5
<1>18. i + 1 >= 1
  BY <1>5
<1>19. GoodFrame(g, l)'
  BY <1>6, <1>9, <1>11, <1>14, <1>15, <1>16, <1>17, <1>18 DEF GoodFrame, AtEntry, Phase1, OnEntry
<1> QED BY <1>13, <1>15, <1>19, FramesOKNewTop

\* The values a step assigns to pc.
LEMMA GotoFacts ==
    ASSUME Types, NEW t \in Threads, NEW l, Goto(t, l)
    PROVE  pc'[t] = l
  BY DEF Types, Goto

LEMMA ExecuteFrames ==
    ASSUME Inv, SeqsFit, NEW t \in Threads, CallExecute(t), Record, OpsKept, TagsKept, Others(t)
    PROVE  FramesOK' /\ frames' \in [Threads -> Seq(Frames)]
           /\ Busy(t)' /\ frames'[t][1].tag = KcasTag(t, kdesc'[t].seq) /\ Len(frames'[t]) = 1
<1> DEFINE n == kdesc'[t].seq
<1>1. /\ n = kdesc[t].seq + 1 /\ kdesc[t].seq \in Nat /\ n \in 1 .. SeqLimit /\ kdesc'[t].state = "undecided"
      /\ kdesc' \in [Threads -> KDescs]
      /\ frames' = [frames EXCEPT ![t] = <<[tag |-> KcasTag(t, kdesc'[t].seq),
                             entries |-> kdesc'[t].entries, i |-> 1, newstate |-> "succeeded"]>>]
  BY ExecuteFacts DEF Inv
<1>2. PICK k : k = KcasTag(t, n)
  OBVIOUS
<1>3. PICK f : f = [tag |-> k, entries |-> kdesc'[t].entries, i |-> 1, newstate |-> "succeeded"]
  OBVIOUS
<1>4. k \in Tags /\ k[2] = t /\ k[3] = n /\ k \in {"kcas"} \X Threads \X (1 .. SeqLimit)
  BY <1>1, <1>2 DEF Tags, KcasTag
<1>5. f \in Frames
  BY <1>1, <1>3, <1>4 DEF Frames, KDescs, Outcomes
<1>6. ~Busy(t) /\ frames[t] = << >>
  BY DEF CallExecute, Called, Inv, ControlOK, Control, Busy
<1>7. Append(frames[t], f) = <<f>>
  BY <1>6
<1>8. frames' = [frames EXCEPT ![t] = Append(@, f)]
  BY <1>1, <1>2, <1>3, <1>7
<1>9. Pushed(t, f)
  BY <1>5, <1>8, PushedFacts DEF Inv
<1>10. k \in Ops'
  BY <1>4, <1>1 DEF Ops
<1>11. EntriesOf(k)' = kdesc'[t].entries
  BY <1>4 DEF EntriesOf, DescOf, Current
<1>12. HeldBefore(k, 1)'
  <2>1. \A j \in DOMAIN (EntriesOf(k)') : ~(j < 1)
    BY <1>11, <1>1 DEF KDescs
  <2> QED BY <2>1 DEF HeldBefore
<1>13. GoodFrame(f, "help")'
  BY <1>3, <1>10, <1>11, <1>12 DEF GoodFrame, Phase1, AtEntry, OnEntry
<1>14. pc'[t] = "help"
  BY GotoFacts DEF Inv, CallExecute
<1>15. FramesOK'
  BY <1>6, <1>9, <1>13, <1>14, FramesOKPushed
<1>16. frames'[t] = <<f>>
  BY <1>7, <1>8 DEF Inv, Types
<1> QED BY <1>15, <1>9, <1>16, <1>2, <1>3 DEF Pushed, Busy

LEMMA HelpOtherFrames ==
    ASSUME Inv, NEW t \in Threads, HelpOther(t), OpsKept, TagsKept, Others(t)
    PROVE  /\ FramesOK' /\ frames' \in [Threads -> Seq(Frames)]
           /\ Current(word[t]) => \E f : Pushed(t, f)
           /\ ~Current(word[t]) => frames' = frames
<1>1. pc[t] = "snapKcas" /\ word[t] \in Ops /\ First(word[t])
  BY DEF HelpOther, Inv, WordOK
<1>2. CASE Current(word[t])
  <2>1. PICK k : k = word[t]
    OBVIOUS
  <2>2. PICK f : f = [tag |-> k, entries |-> kdesc[k[2]].entries, i |-> 2, newstate |-> "succeeded"]
    OBVIOUS
  <2>3. frames' = [frames EXCEPT ![t] = Append(@, f)] /\ pc'[t] = "help"
    BY <1>2, <2>1, <2>2, GotoFacts DEF HelpOther, Inv
  <2>4. k \in Ops /\ First(k) /\ k \in Tags /\ kdesc[k[2]].entries = EntriesOf(k) /\ EntriesOf(k) \in Seq(Entries)
    BY <1>1, <1>2, <2>1, OpFacts DEF Inv, EntriesOf, DescOf
  <2>5. f \in Frames
    BY <2>2, <2>4 DEF Frames, Outcomes
  <2>6. Pushed(t, f)
    BY <2>3, <2>5, PushedFacts DEF Inv
  <2>7. k \in Ops' /\ EntriesOf(k)' = EntriesOf(k) /\ First(k)'
    BY <2>4, UndecKept, FirstKept DEF Inv
  <2>8. HeldBefore(k, 2)'
    <3>1. \A j \in DOMAIN (EntriesOf(k)') : j < 2 => j = 1
      BY <2>4, <2>7
    <3> QED BY <3>1, <2>7 DEF HeldBefore, First
  <2>9. GoodFrame(f, "help")'
    BY <2>2, <2>4, <2>7, <2>8 DEF GoodFrame, Phase1, AtEntry, OnEntry
  <2>10. FramesOK'
    BY <2>3, <2>6, <2>9, <1>1, FramesOKPushed DEF OnEntry
  <2> QED BY <2>6, <2>10, <1>2 DEF Pushed
<1>3. CASE ~Current(word[t])
  <2>1. frames' = frames /\ pc'[t] = IF frames[t] = << >> THEN "read" ELSE "prepare"
    BY <1>3, GotoFacts DEF HelpOther, Inv, Resume
  <2>2. FramesOK'
    BY <1>1, <2>1, FramesOKOnEntry DEF OnEntry, Busy
  <2> QED BY <2>1, <2>2, <1>3 DEF Inv, Types
<1> QED BY <1>2, <1>3

LEMMA HelpReadsStateFrames ==
    ASSUME Inv, NEW t \in Threads, HelpReadsState(t), OpsKept, TagsKept, Others(t)
    PROVE  FramesOK' /\ frames' \in [Threads -> Seq(Frames)]
<1>1. pc[t] = "help" /\ Busy(t)
  BY DEF HelpReadsState, Inv, ControlOK, Control
<1>2. CASE ~Current(Top(t).tag)
  <2>1. HelpReturns(t, 0)
    BY <1>2 DEF HelpReadsState
  <2>2. Popped(t) /\ (frames'[t] # << >> => pc'[t] = "prepare")
    BY <1>1, <2>1, ReturnsFacts DEF Inv
  <2> QED BY <2>2, FramesOKPopped DEF Popped
<1>3. CASE Current(Top(t).tag)
  <2>1. PICK f : f = Top(t)
    OBVIOUS
  <2>2. GoodFrame(f, "help") /\ f \in Frames
    BY <1>1, <2>1, TopFacts DEF Inv
  <2>3. PICK l : l = pc'[t]
    OBVIOUS
  <2>4. frames' = frames
    BY <1>3 DEF HelpReadsState
  <2>5. l = IF StateOf(f.tag) # "undecided" THEN "phase2"
            ELSE IF f.i > Len(f.entries) THEN "decide" ELSE "prepare"
    BY <1>3, <2>1, <2>3, GotoFacts DEF HelpReadsState, Inv
  <2>6. State(f.tag) = StateOf(f.tag)
    BY <1>3, <2>1 DEF State, DescOf, StateOf
  <2>7. Len(f.entries) \in Nat /\ f.i \in Nat
    BY <2>2 DEF Frames
  <2>8. GoodFrame(f, l)
    BY <2>2, <2>5, <2>6, <2>7 DEF GoodFrame, Undec, Phase1, AtEntry, OnEntry
  <2>9. GoodFrame(f, l)'
    BY <2>8, FrameKept DEF Inv
  <2>10. f = Top(t)'
    BY <2>1, <2>4 DEF Top
  <2>11. FramesOK'
    BY <2>3, <2>4, <2>9, <2>10, FramesOKSame
  <2> QED BY <2>4, <2>11 DEF Inv, Types
<1> QED BY <1>2, <1>3

LEMMA DecideFrames ==
    ASSUME Inv, NEW t \in Threads, Decide(t), Record, OpsKept, TagsKept, Others(t)
    PROVE  FramesOK' /\ frames' = frames
<1>1. pc[t] = "decide" /\ Busy(t) /\ frames' = frames /\ pc'[t] = "phase2"
  BY GotoFacts DEF Decide, Inv, ControlOK, Control
<1>2. PICK f : f = Top(t)
  OBVIOUS
<1>3. f \in Frames /\ GoodFrame(f, "decide")
  BY <1>1, <1>2, TopFacts DEF Inv
<1>4. PICK k : k = f.tag
  OBVIOUS
<1>5. k \in Ops /\ k[2] \in Threads /\ k \in Ops' /\ EntriesOf(k)' = EntriesOf(k)
  BY <1>3, <1>4, OpFacts, UndecKept DEF GoodFrame, Inv
<1>6. ~Undec(k)'
  <2>1. CASE ~Undec(k)
    BY <2>1, <1>5, UndecKept
  <2>2. CASE Undec(k)
    <3>1. Current(k) /\ StateOf(k) = "undecided"
      BY <2>2, <1>5 DEF Inv, OpsOK, Undec, State, DescOf, StateOf
    <3>2. kdesc' = [kdesc EXCEPT ![k[2]].state = f.newstate]
      BY <3>1, <1>2, <1>4 DEF Decide
    <3>3. kdesc'[k[2]].state = f.newstate /\ kdesc'[k[2]].seq = kdesc[k[2]].seq
      BY <3>2, <1>5 DEF Inv, Types, KDescs
    <3>4. State(k)' = f.newstate
      BY <3>1, <3>3 DEF State, DescOf, Current
    <3>5. f.newstate # "undecided"
      BY <1>3 DEF Frames, Outcomes
    <3> QED BY <3>4, <3>5 DEF Undec
  <2> QED BY <2>1, <2>2
<1>7. GoodFrame(f, "phase2")'
  BY <1>3, <1>4, <1>5, <1>6 DEF GoodFrame, Phase1, AtEntry, OnEntry
<1>8. f = Top(t)'
  BY <1>1, <1>2 DEF Top
<1> QED BY <1>1, <1>7, <1>8, FramesOKSame

\* The entry that t's RDCSS is for.
LEMMA PreparedFacts ==
    ASSUME Inv, NEW t \in Threads, Prepared(t)
    PROVE  LET k == Top(t).tag
               i == Top(t).i
           IN  /\ k \in Ops /\ i \in DOMAIN EntriesOf(k) /\ i \in Nat
               /\ rdesc[t].tag = k /\ rdesc[t].addr = AddrOf(k, i)
               /\ rdesc[t].old2 = EntriesOf(k)[i][2] /\ rdesc[t].seq >= 1
               /\ Entry(t) = EntriesOf(k)[i] /\ Busy(t) /\ pc[t] \in OnEntry
<1>1. Busy(t) /\ pc[t] \in OnEntry
  BY DEF Prepared, OnEntry
<1>2. Top(t) \in Frames /\ GoodFrame(Top(t), pc[t])
  BY <1>1, TopFacts DEF Inv
<1>3. /\ Top(t).tag \in Ops /\ Top(t).entries = EntriesOf(Top(t).tag)
      /\ Top(t).i \in 1 .. Len(Top(t).entries) /\ Top(t).entries \in Seq(Entries) /\ Top(t).i \in Nat
  BY <1>1, <1>2 DEF GoodFrame, Frames, AtEntry
<1>4. /\ rdesc[t].seq >= 1 /\ rdesc[t].tag = Top(t).tag
      /\ rdesc[t].addr = Entry(t)[1] /\ rdesc[t].old2 = Entry(t)[2]
  BY DEF Inv, PreparedOK
<1> QED BY <1>1, <1>3, <1>4 DEF Entry, AddrOf

LEMMA Phase2Frames ==
    ASSUME Inv, NEW t \in Threads, Phase2(t), OpsKept, TagsKept, Others(t)
    PROVE  FramesOK' /\ frames' \in [Threads -> Seq(Frames)]
<1>1. pc[t] = "phase2" /\ Busy(t)
  BY DEF Phase2, Inv, ControlOK, Control
<1>2. CASE ~Current(Top(t).tag)
  <2>1. HelpReturns(t, 0)
    BY <1>2 DEF Phase2
  <2>2. Popped(t) /\ (frames'[t] # << >> => pc'[t] = "prepare")
    BY <1>1, <2>1, ReturnsFacts DEF Inv
  <2> QED BY <2>2, FramesOKPopped DEF Popped
<1>3. CASE Current(Top(t).tag)
  <2>1. PICK f : f = Top(t)
    OBVIOUS
  <2>2. PICK k : k = f.tag
    OBVIOUS
  <2>3. f \in Frames /\ GoodFrame(f, "phase2")
    BY <1>1, <2>1, TopFacts DEF Inv
  <2>4. k \in Ops /\ ~Undec(k) /\ f.entries = EntriesOf(k)
    BY <2>2, <2>3 DEF GoodFrame
  <2>5. StateOf(k) = State(k) /\ State(k) \in Outcomes
    BY <1>3, <2>1, <2>2, <2>4, OpFacts DEF Inv, State, DescOf, StateOf, Undec, Outcomes
  <2>6. PICK g : g = [f EXCEPT !.i = 1, !.newstate = State(k)]
    OBVIOUS
  <2>7. g \in Frames /\ g.tag = k /\ g.entries = f.entries /\ g.i = 1 /\ g.newstate = State(k)
    BY <2>2, <2>3, <2>5, <2>6 DEF Frames
  <2>8. SetTop(t, g) /\ pc'[t] = "release"
    BY <1>3, <2>1, <2>2, <2>5, <2>6, GotoFacts DEF Phase2, Inv
  <2>9. NewTop(t, g)
    BY <1>1, <2>7, <2>8, NewTopFacts DEF Inv
  <2>10. k \in Ops' /\ EntriesOf(k)' = EntriesOf(k) /\ ~Undec(k)' /\ State(k)' = State(k)
    BY <2>4, UndecKept
  <2>11. 1 <= Len(f.entries)
    BY <2>4, OpFacts DEF Inv
  <2>12. GoodFrame(g, "release")'
    BY <2>4, <2>7, <2>10, <2>11 DEF GoodFrame, Phase1, AtEntry, OnEntry
  <2>13. FramesOK'
    BY <2>8, <2>9, <2>12, FramesOKNewTop
  <2> QED BY <2>9, <2>13 DEF NewTop
<1> QED BY <1>2, <1>3

LEMMA ReleaseFrames ==
    ASSUME Inv, NEW t \in Threads, Release(t), OpsKept, TagsKept, Others(t)
    PROVE  FramesOK' /\ frames' \in [Threads -> Seq(Frames)]
<1>1. pc[t] = "release" /\ Busy(t)
  BY DEF Release, Inv, ControlOK, Control
<1>2. CASE ~(Top(t).i < Len(Top(t).entries))
  <2>1. PICK r : HelpReturns(t, r)
    BY <1>2 DEF Release
  <2>2. Popped(t) /\ (frames'[t] # << >> => pc'[t] = "prepare")
    BY <1>1, <2>1, ReturnsFacts DEF Inv
  <2> QED BY <2>2, FramesOKPopped DEF Popped
<1>3. CASE Top(t).i < Len(Top(t).entries)
  <2>1. PICK f : f = Top(t)
    OBVIOUS
  <2>2. f \in Frames /\ GoodFrame(f, "release") /\ f.i \in Nat /\ f.i + 1 <= Len(f.entries)
    BY <1>1, <1>3, <2>1, TopFacts DEF Inv, Frames
  <2>3. PICK g : g = [f EXCEPT !.i = f.i + 1]
    OBVIOUS
  <2>4. g \in Frames /\ g.tag = f.tag /\ g.entries = f.entries /\ g.i = f.i + 1 /\ g.newstate = f.newstate
    BY <2>2, <2>3 DEF Frames
  <2>5. SetTop(t, g) /\ pc'[t] = "release"
    BY <1>1, <1>3, <2>1, <2>3 DEF Release
  <2>6. NewTop(t, g)
    BY <1>1, <2>4, <2>5, NewTopFacts DEF Inv
  <2>7. GoodFrame(g, "release")
    BY <2>2, <2>4 DEF GoodFrame, Phase1, AtEntry, OnEntry
  <2>8. GoodFrame(g, "release")'
    BY <2>7, FrameKept DEF Inv
  <2>9. FramesOK'
    BY <2>5, <2>6, <2>8, FramesOKNewTop
  <2> QED BY <2>6, <2>9 DEF NewTop
<1> QED BY <1>2, <1>3

LEMMA NextEntryTypes ==
    ASSUME Types, FramesOK, NEW t \in Threads, Busy(t), NextEntry(t)
    PROVE  /\ frames' \in [Threads -> Seq(Frames)] /\ pc'[t] \in {"prepare", "decide"}
           /\ Len(frames'[t]) = Len(frames[t]) /\ Busy(t)'
           /\ Len(frames[t]) > 1 => frames'[t][1] = frames[t][1]
           /\ frames'[t][1].tag = frames[t][1].tag
<1>1. PICK g : g = [Top(t) EXCEPT !.i = @ + 1]
  OBVIOUS
<1>2. Top(t) \in Frames /\ Top(t) = frames[t][Len(frames[t])]
  BY TopFacts
<1>3. g \in Frames /\ g.tag = Top(t).tag
  BY <1>1, <1>2 DEF Frames
<1>4. NewTop(t, g)
  BY <1>1, <1>3, NewTopFacts DEF NextEntry
<1>5. pc'[t] = IF Top(t).i < Len(Top(t).entries) THEN "prepare" ELSE "decide"
  BY GotoFacts DEF NextEntry
<1>6. Len(frames[t]) = 1 => frames'[t][1].tag = frames[t][1].tag
  BY <1>4, <1>3, <1>2 DEF NewTop
<1>7. Len(frames[t]) > 1 => frames'[t][1] = frames[t][1]
  BY <1>4 DEF NewTop
<1>8. frames'[t] \in Seq(Frames) /\ Len(frames'[t]) >= 1 /\ Len(frames'[t]) = Len(frames[t])
      /\ frames' \in [Threads -> Seq(Frames)] /\ Len(frames[t]) \in Nat
  BY <1>4 DEF NewTop
<1>9. frames'[t] # << >>
  BY <1>8
<1>10. pc'[t] \in {"prepare", "decide"}
  BY <1>5
<1>11. frames'[t][1].tag = frames[t][1].tag
  <2>1. PICK n \in Nat : n = Len(frames[t]) /\ n >= 1
    BY TopFacts
  <2>2. CASE n = 1
    BY <2>1, <2>2, <1>6
  <2>3. CASE n > 1
    BY <2>1, <2>3, <1>7
  <2>4. \A m \in Nat : m >= 1 => m = 1 \/ m > 1
    OBVIOUS
  <2> QED BY <2>1, <2>2, <2>3, <2>4
<1> QED BY <1>7, <1>8, <1>9, <1>10, <1>11 DEF Busy

LEMMA InstallFrames ==
    ASSUME Inv, NEW t \in Threads, InstallRdcss(t), OpsKept, TagsKept, Others(t)
    PROVE  FramesOK' /\ frames' \in [Threads -> Seq(Frames)]
<1>1. pc[t] = "install" /\ Busy(t) /\ Prepared(t)
  BY DEF InstallRdcss, Inv, ControlOK, Control, Prepared
<1>2. CASE frames' = frames /\ pc'[t] \in OnEntry
  <2>1. FramesOK'
    BY <1>1, <1>2, FramesOKOnEntry DEF OnEntry
  <2> QED BY <2>1, <1>2 DEF Inv, Types
<1>3. CASE mem[rdesc[t].addr] = Top(t).tag /\ NextEntry(t)
  <2>1. PICK k : k = Top(t).tag
    OBVIOUS
  <2>2. PICK i : i = Top(t).i
    OBVIOUS
  <2>3. k \in Ops /\ i \in DOMAIN EntriesOf(k) /\ rdesc[t].addr = AddrOf(k, i)
    BY <1>1, <2>1, <2>2, PreparedFacts
  <2>4. Holds(k, i)
    BY <1>3, <2>1, <2>3 DEF Holds
  <2>5. Undec(k)' => Holds(k, i)'
    BY <2>3, <2>4, UndecKept, HeldKept DEF Inv
  <2>6. FramesOK'
    BY <1>1, <1>3, <2>1, <2>2, <2>5, FramesOKNextEntry DEF OnEntry
  <2>7. frames' \in [Threads -> Seq(Frames)]
    BY <1>1, <1>3, NextEntryTypes DEF Inv
  <2> QED BY <2>6, <2>7
<1>4. CASE SetTop(t, [Top(t) EXCEPT !.newstate = "failed"]) /\ pc'[t] = "decide"
  <2>1. PICK f : f = Top(t)
    OBVIOUS
  <2>2. f \in Frames /\ GoodFrame(f, "install")
    BY <1>1, <2>1, TopFacts DEF Inv
  <2>3. PICK g : g = [f EXCEPT !.newstate = "failed"]
    OBVIOUS
  <2>4. g \in Frames /\ g.tag = f.tag /\ g.entries = f.entries /\ g.i = f.i /\ g.newstate = "failed"
    BY <2>2, <2>3 DEF Frames, Outcomes
  <2>5. SetTop(t, g)
    BY <1>4, <2>1, <2>3
  <2>6. NewTop(t, g)
    BY <1>1, <2>4, <2>5, NewTopFacts DEF Inv
  <2>7. GoodFrame(g, "decide")
    BY <2>2, <2>4 DEF GoodFrame, Phase1, AtEntry, OnEntry
  <2>8. GoodFrame(g, "decide")'
    BY <2>7, FrameKept DEF Inv
  <2>9. FramesOK'
    BY <1>4, <2>6, <2>8, FramesOKNewTop
  <2> QED BY <2>6, <2>9 DEF NewTop
<1>5. \/ frames' = frames /\ pc'[t] \in {"rdcssState", "snapRdcss", "snapKcas"}
      \/ mem[rdesc[t].addr] = Top(t).tag /\ NextEntry(t)
      \/ SetTop(t, [Top(t) EXCEPT !.newstate = "failed"]) /\ pc'[t] = "decide"
  BY GotoFacts DEF InstallRdcss, Inv
<1> QED BY <1>2, <1>3, <1>4, <1>5 DEF OnEntry

LEMMA RdcssSetsFrames ==
    ASSUME Inv, NEW t \in Threads, RdcssSets(t), Step(t), OpsKept, TagsKept, Others(t)
    PROVE  FramesOK' /\ frames' \in [Threads -> Seq(Frames)]
<1>1. pc[t] = "rdcssSet" /\ HelpsRdcss(t)
  BY DEF RdcssSets, HelpsRdcss
<1>2. CASE helped[t].tag[2] # t
  <2>1. frames' = frames /\ Retry(t)
    BY <1>2 DEF RdcssSets
  <2>2. Busy(t) => pc'[t] = "install"
    BY <2>1, GotoFacts DEF Inv, Retry
  <2>3. FramesOK'
    BY <1>1, <2>1, <2>2, FramesOKOnEntry DEF OnEntry
  <2> QED BY <2>1, <2>3 DEF Inv, Types
<1>3. CASE helped[t].tag[2] = t
  <2>1. NextEntry(t)
    BY <1>3 DEF RdcssSets
  <2>2. PICK h : h = helped[t]
    OBVIOUS
  <2>3. /\ Busy(t) /\ h.tag = MyRdcss(t) /\ (h.tag[3] = rdesc[h.tag[2]].seq => h.desc = rdesc[h.tag[2]])
        /\ Undec(h.desc.tag) => mem[h.desc.addr] \in {h.tag, h.desc.tag}
        /\ ~h.undecided => ~Undec(h.desc.tag)
    BY <1>1, <1>3, <2>2 DEF Inv, HelpedOK
  <2>4. h.desc = rdesc[t] /\ Prepared(t)
    BY <2>3, <1>1, TagFacts DEF MyRdcss, Prepared
  <2>5. PICK k : k = Top(t).tag
    OBVIOUS
  <2>6. PICK i : i = Top(t).i
    OBVIOUS
  <2>7. k \in Ops /\ i \in DOMAIN EntriesOf(k) /\ h.desc.addr = AddrOf(k, i) /\ h.desc.tag = k
    BY <2>4, <2>5, <2>6, PreparedFacts
  <2>8. ASSUME Undec(k)' PROVE Holds(k, i)'
    <3>1. Undec(k) /\ EntriesOf(k)' = EntriesOf(k)
      BY <2>7, <2>8, UndecKept
    <3>2. mem[h.desc.addr] \in {h.tag, k} /\ h.undecided = TRUE
      BY <3>1, <2>3, <2>7, <2>2 DEF Inv, Types
    <3>3. CASE mem[h.desc.addr] = k
      <4>1. Holds(k, i)
        BY <3>3, <2>7 DEF Holds
      <4> QED BY <4>1, <3>1, <2>7, HeldKept DEF Inv
    <3>4. CASE mem[h.desc.addr] = h.tag
      <4>1. h.desc.addr \in Addrs
        BY <2>7, OpFacts DEF Inv
      <4>2. mem' = [mem EXCEPT ![h.desc.addr] = k]
        BY <2>2, <2>7, <3>2, <3>4 DEF RdcssSets, CAS, SetMem
      <4>3. mem'[h.desc.addr] = k
        BY <4>1, <4>2 DEF Inv, Types
      <4>4. AddrOf(k, i)' = h.desc.addr
        BY <3>1, <2>7 DEF AddrOf
      <4> QED BY <4>3, <4>4 DEF Holds
    <3> QED BY <3>2, <3>3, <3>4
  <2>9. FramesOK'
    BY <1>1, <2>1, <2>3, <2>5, <2>6, <2>8, FramesOKNextEntry DEF OnEntry
  <2>10. frames' \in [Threads -> Seq(Frames)]
    BY <2>1, <2>3, NextEntryTypes DEF Inv
  <2> QED BY <2>9, <2>10
<1> QED BY <1>2, <1>3

LEMMA FramesOKStep ==
    ASSUME Inv, SeqsFit, NEW t \in Threads, Step(t), OpsKept, TagsKept, Others(t)
    PROVE  FramesOK' /\ frames' \in [Threads -> Seq(Frames)]
<1>1. CASE CallExecute(t)
  BY <1>1, ExecuteFrames DEF Step
<1>2. CASE CallRead(t) \/ Read(t) \/ Return(t)
  <2>1. frames' = frames /\ pc[t] \in {"idle", "read", "return"}
    BY <1>2 DEF CallRead, Called, Read, Return
  <2>2. ~Busy(t)
    BY <2>1 DEF Inv, ControlOK, Control
  <2>3. FramesOK'
    BY <2>1, <2>2, FramesOKOnEntry
  <2> QED BY <2>1, <2>3 DEF Inv, Types
<1>3. CASE PrepareRdcss(t) \/ RdcssHelpOther(t) \/ RdcssReadsState(t)
  <2>1. frames' = frames /\ pc[t] \in OnEntry
    BY <1>3 DEF PrepareRdcss, RdcssHelpOther, RdcssReadsState, OnEntry
  <2>2. Busy(t) => pc'[t] \in OnEntry
    BY <1>3, GotoFacts DEF PrepareRdcss, RdcssHelpOther, RdcssReadsState, OnEntry, Retry, Inv
  <2>3. FramesOK'
    BY <2>1, <2>2, FramesOKOnEntry
  <2> QED BY <2>1, <2>3 DEF Inv, Types
<1>4. CASE HelpOther(t)
  BY <1>4, HelpOtherFrames
<1>5. CASE HelpReadsState(t)
  BY <1>5, HelpReadsStateFrames
<1>6. CASE InstallRdcss(t)
  BY <1>6, InstallFrames
<1>7. CASE RdcssSets(t)
  BY <1>7, RdcssSetsFrames
<1>8. CASE Decide(t)
  <2>1. FramesOK' /\ frames' = frames
    BY <1>8, DecideFrames DEF Step
  <2> QED BY <2>1 DEF Inv, Types
<1>9. CASE Phase2(t)
  BY <1>9, Phase2Frames
<1>10. CASE Release(t)
  BY <1>10, ReleaseFrames
<1> QED BY <1>1, <1>2, <1>3, <1>4, <1>5, <1>6, <1>7, <1>8, <1>9, <1>10 DEF Step, Work

\* A thread in a call has a request.
LEMMA RequestMade ==
    ASSUME Inv, NEW t \in Threads, pc[t] # "idle"
    PROVE  request[t] \in Requests
<1>1. request[t] \in Requests \cup {NoRequest}
  BY DEF Inv, Types
<1>2. Control(t)
  BY DEF Inv, ControlOK
<1>3. request[t].kind # "none"
  BY <1>2 DEF Control
<1>4. NoRequest.kind = "none"
  BY DEF NoRequest
<1> QED BY <1>1, <1>3, <1>4

-----------------------------------------------------------------------------
LEMMA TypesStep ==
    ASSUME Inv, SeqsFit, NEW t \in Threads, Step(t), frames' \in [Threads -> Seq(Frames)]
    PROVE  Types'
<1>1. Types
  BY DEF Inv
<1>2. mem' \in [Addrs -> Words \ {NoWord}]
  <2>1. mem \in [Addrs -> Words \ {NoWord}]
    BY <1>1 DEF Types
  <2>2. \A v \in Values : Value(v) \in Words \ {NoWord}
    BY DEF Words, Value, NoWord
  <2>3. ASSUME NEW d, DescOK(d) PROVE d.old2 \in Values /\ d.tag \in Words \ {NoWord}
    <3>1. PICK j \in DOMAIN EntriesOf(d.tag) : d.old2 = EntriesOf(d.tag)[j][2]
      BY <2>3 DEF DescOK
    <3>2. d.tag \in Ops /\ EntriesOf(d.tag)[j] \in Entries
      BY <2>3, <3>1, OpFacts DEF DescOK, Inv
    <3>3. d.tag \in Tags
      BY <3>2 DEF Ops, Tags
    <3> QED BY <3>1, <3>2, <3>3, EntryFacts DEF Tags, Words, NoWord
  <2>4. CASE mem' = mem
    BY <2>1, <2>4
  <2>5. CASE /\ mem' = [mem EXCEPT ![rdesc[t].addr] = mem'[rdesc[t].addr]]
             /\ mem'[rdesc[t].addr] = MyRdcss(t)
    <3>1. MyRdcss(t) \in Words \ {NoWord}
      BY <1>1 DEF MyRdcss, RdcssTag, Words, NoWord, Types, RDescs
    <3> QED BY <3>1, <2>1, <2>5
  <2>6. CASE LET h == helped[t]
             IN  /\ RdcssSets(t) /\ mem' = [mem EXCEPT ![h.desc.addr] = mem'[h.desc.addr]]
                 /\ mem'[h.desc.addr] = IF h.undecided THEN h.desc.tag ELSE Value(h.desc.old2)
    <3>1. DescOK(helped[t].desc)
      BY <2>6 DEF RdcssSets, HelpsRdcss, Inv, HelpedOK
    <3>2. mem'[helped[t].desc.addr] \in Words \ {NoWord}
      BY <3>1, <2>2, <2>3, <2>6
    <3> QED BY <3>2, <2>1, <2>6
  <2>7. CASE LET a == Entry(t)[1]
             IN  /\ Release(t) /\ mem' = [mem EXCEPT ![a] = mem'[a]]
                 /\ mem'[a] = Value(IF Top(t).newstate = "succeeded" THEN Entry(t)[3] ELSE Entry(t)[2])
    <3>1. pc[t] = "release" /\ Busy(t)
      BY <2>7 DEF Release, Inv, ControlOK, Control
    <3>2. Top(t) \in Frames /\ GoodFrame(Top(t), "release")
      BY <3>1, TopFacts DEF Inv
    <3>3. Entry(t) \in Entries
      BY <3>2 DEF GoodFrame, Frames, Entry
    <3>4. mem'[Entry(t)[1]] \in Words \ {NoWord}
      BY <3>3, <2>2, <2>7, EntryFacts
    <3> QED BY <3>4, <2>1, <2>7
  <2> QED BY <2>4, <2>5, <2>6, <2>7, MemFacts
<1>3. kdesc' \in [Threads -> KDescs] /\ past' \in [Threads -> Seq(KDescs)]
  <2>1. CASE CallExecute(t)
    BY <2>1, ExecuteFacts DEF Inv, Step
  <2>2. CASE Decide(t)
    <3>1. pc[t] = "decide" /\ Busy(t)
      BY <2>2 DEF Decide, Inv, ControlOK, Control
    <3>2. Top(t).newstate \in Outcomes
      BY <3>1, TopFacts DEF Inv, Frames
    <3>3. kdesc' \in [Threads -> KDescs]
      BY <1>1, <2>2, <3>2, ZenonT(60) DEF Decide, Types, KDescs
    <3> QED BY <3>3, <1>1, <2>2, DecideFacts DEF Step, Types
  <2>3. CASE ~CallExecute(t) /\ ~Decide(t)
    BY <2>3, <1>1, DescriptorsKept DEF Types
  <2> QED BY <2>1, <2>2, <2>3
<1>4. rdesc' \in [Threads -> RDescs]
  <2>1. CASE PrepareRdcss(t)
    <3>1. pc[t] = "prepare" /\ Busy(t)
      BY <2>1 DEF PrepareRdcss, Inv, ControlOK, Control
    <3>2. Top(t) \in Frames /\ GoodFrame(Top(t), "prepare")
      BY <3>1, TopFacts DEF Inv
    <3>3. Entry(t) \in Entries /\ Top(t).tag \in Tags
      BY <3>2 DEF GoodFrame, Frames, Entry, AtEntry, OnEntry
    <3>4. NextSeq(rdesc[t].seq) \in Nat
      BY <1>1, NextSeqFacts DEF SeqsFit, Types, RDescs
    <3>5. Entry(t)[1] \in Nat /\ Entry(t)[2] \in Nat
      BY <3>3, EntryFacts
    <3> QED BY <3>3, <3>4, <3>5, <2>1, <1>1 DEF PrepareRdcss, Types, RDescs
  <2>2. CASE ~PrepareRdcss(t)
    <3>1. rdesc' = rdesc
      BY <2>2 DEF Step, Work, CallRead, CallExecute, Read, Return, HelpOther, HelpReadsState,
                  InstallRdcss, RdcssHelpOther, RdcssReadsState, RdcssSets, Decide, Phase2, Release
    <3> QED BY <3>1, <1>1 DEF Types
  <2> QED BY <2>1, <2>2
<1>5. pc' \in [Threads -> Labels]
  <2> USE <1>1 DEF Types, Goto, Labels, OnEntry
  <2>1. CASE CallRead(t) \/ CallExecute(t) \/ Read(t) \/ Return(t) \/ PrepareRdcss(t) \/ RdcssReadsState(t)
    BY <2>1 DEF CallRead, CallExecute, Read, Return, PrepareRdcss, RdcssReadsState
  <2>2. CASE HelpOther(t) \/ RdcssHelpOther(t)
    BY <2>2, ZenonT(60) DEF HelpOther, Resume, RdcssHelpOther, Retry
  <2>3. CASE HelpReadsState(t) \/ Phase2(t)
    <3>1. \E l \in Labels : Goto(t, l)
      BY <2>3, ZenonT(60) DEF HelpReadsState, Phase2, HelpReturns, Resume
    <3> QED BY <3>1
  <2>4. CASE InstallRdcss(t)
    <3>1. \E l \in Labels : Goto(t, l)
      BY <2>4, ZenonT(60) DEF InstallRdcss, NextEntry
    <3> QED BY <3>1
  <2>5. CASE RdcssSets(t)
    BY <2>5 DEF RdcssSets, NextEntry, Retry
  <2>6. CASE Decide(t) \/ Release(t)
    BY <2>6, ZenonT(60) DEF Decide, Release, HelpReturns, Resume
  <2> QED BY <2>1, <2>2, <2>3, <2>4, <2>5, <2>6 DEF Step, Work
<1>6. request' \in [Threads -> Requests \cup {NoRequest}] /\ plan' \in [Threads -> Seq(Requests)]
  <2>1. CASE CallRead(t) \/ CallExecute(t)
    <3>1. /\ plan[t] \in Seq(Requests) /\ plan[t] # << >> /\ plan' = [plan EXCEPT ![t] = Tail(plan[t])]
          /\ request' = [request EXCEPT ![t] = Head(plan[t])]
      BY <2>1, <1>1 DEF Types, CallRead, CallExecute, Called
    <3>2. Head(plan[t]) \in Requests /\ Tail(plan[t]) \in Seq(Requests)
      BY <3>1
    <3> QED BY <3>1, <3>2, <1>1 DEF Types
  <2>2. CASE Return(t)
    BY <2>2, <1>1 DEF Return, Types
  <2>3. CASE ~(CallRead(t) \/ CallExecute(t) \/ Return(t))
    <3>1. request' = request /\ plan' = plan
      BY <2>3 DEF Step, Work, Read, HelpOther, HelpReadsState, PrepareRdcss,
             InstallRdcss, RdcssHelpOther, RdcssReadsState, RdcssSets, Decide, Phase2, Release, local
    <3> QED BY <3>1, <1>1 DEF Types
  <2> QED BY <2>1, <2>2, <2>3
<1>7. word' \in [Threads -> Words]
  <2>1. CASE Read(t)
    <3>1. PICK a : a = request[t].entries[1][1]
      OBVIOUS
    <3>2. word' = [word EXCEPT ![t] = IF mem[a][1] = "value" THEN NoWord ELSE mem[a]]
      BY <2>1, <3>1 DEF Read
    <3>3. a \in Addrs
      <4>1. request[t] \in Requests
        BY <2>1, RequestMade DEF Read
      <4>2. request[t].entries \in Seq(Entries) /\ request[t].entries # << >>
        BY <4>1, KcasAssumption
      <4>3. request[t].entries[1] \in Entries
        BY <4>2
      <4> QED BY <4>3, <3>1, EntryFacts
    <3> QED BY <3>2, <3>3, <1>1 DEF Types, Words
  <2>2. CASE InstallRdcss(t)
    <3>1. \/ word' = word
          \/ word' = [word EXCEPT ![t] = mem[rdesc[t].addr]]
      BY <2>2 DEF InstallRdcss
    <3>2. rdesc[t].addr \in Addrs
      <4>1. Prepared(t)
        BY <2>2 DEF InstallRdcss, Inv, ControlOK, Control, Prepared
      <4> QED BY <4>1, PreparedFacts, OpFacts DEF Inv
    <3> QED BY <3>1, <3>2, <1>1 DEF Types
  <2>3. CASE HelpOther(t) \/ RdcssHelpOther(t)
    BY <2>3, <1>1 DEF HelpOther, RdcssHelpOther, Types, Words
  <2>4. CASE ~(Read(t) \/ InstallRdcss(t) \/ HelpOther(t) \/ RdcssHelpOther(t))
    <3>1. word' = word
      BY <2>4 DEF Step, Work, CallRead, CallExecute, Return, HelpReadsState, PrepareRdcss,
             RdcssReadsState, RdcssSets, Decide, Phase2, Release
    <3> QED BY <3>1, <1>1 DEF Types
  <2> QED BY <2>1, <2>2, <2>3, <2>4
<1>8. helped' \in [Threads -> [tag : Words, undecided : BOOLEAN, desc : RDescs]]
  <2> DEFINE H == [tag : Words, undecided : BOOLEAN, desc : RDescs]
  <2>1. helped \in [Threads -> H] /\ rdesc \in [Threads -> RDescs] /\ word \in [Threads -> Words]
    BY <1>1 DEF Types
  <2>7. \A w \in Words, d \in RDescs : [tag |-> w, desc |-> d, undecided |-> FALSE] \in H
    OBVIOUS
  <2>2. CASE InstallRdcss(t)
    <3>1. RdcssTag(t, rdesc[t].seq) \in Words
      BY <2>1 DEF RdcssTag, Words, RDescs
    <3>2. \/ helped' = helped
          \/ helped' = [helped EXCEPT ![t] =
                    [tag |-> RdcssTag(t, rdesc[t].seq), desc |-> rdesc[t], undecided |-> FALSE]]
      BY <2>2 DEF InstallRdcss
    <3>3. [tag |-> RdcssTag(t, rdesc[t].seq), desc |-> rdesc[t], undecided |-> FALSE] \in H
      BY <3>1, <2>1, <2>7
    <3> HIDE DEF H
    <3>4. helped' \in [Threads -> H]
      BY <3>2, <3>3, <2>1
    <3> QED BY <3>4 DEF H
  <2>3. CASE RdcssHelpOther(t)
    <3>1. pc[t] = "snapRdcss"
      BY <2>3 DEF RdcssHelpOther
    <3>2. word[t] \in Rds
      BY <3>1 DEF Inv, WordOK
    <3>3. rdesc[word[t][2]] \in RDescs
      BY <3>2, <2>1 DEF Rds
    <3>4. \/ helped' = helped
          \/ helped' = [helped EXCEPT ![t] =
                    [tag |-> word[t], desc |-> rdesc[word[t][2]], undecided |-> FALSE]]
      BY <2>3 DEF RdcssHelpOther
    <3>5. [tag |-> word[t], desc |-> rdesc[word[t][2]], undecided |-> FALSE] \in H
      BY <3>3, <2>1, <2>7
    <3> HIDE DEF H
    <3>6. helped' \in [Threads -> H]
      BY <3>4, <3>5, <2>1
    <3> QED BY <3>6 DEF H
  <2>4. CASE RdcssReadsState(t)
    BY <2>1, <2>4 DEF RdcssReadsState
  <2>5. CASE RdcssSets(t)
    <3>1. NoRdcss \in H
      BY DEF NoRdcss, Words, RDescs
    <3> QED BY <3>1, <2>1, <2>5 DEF RdcssSets
  <2>6. CASE ~(InstallRdcss(t) \/ RdcssHelpOther(t) \/ RdcssReadsState(t) \/ RdcssSets(t))
    <3>1. helped' = helped
      BY <2>6 DEF Step, Work, CallRead, CallExecute, Read, Return, HelpOther, HelpReadsState, PrepareRdcss,
             Decide, Phase2, Release
    <3> QED BY <3>1, <2>1
  <2> QED BY <2>2, <2>3, <2>4, <2>5, <2>6
<1>9. answer' \in [Threads -> Nat]
  <2> USE <1>1 DEF Types
  <2>1. CASE Read(t)
    <3>1. PICK a : a = request[t].entries[1][1]
      OBVIOUS
    <3>2. answer' = [answer EXCEPT ![t] = IF mem[a][1] = "value" THEN mem[a][2] ELSE 0]
      BY <2>1, <3>1 DEF Read
    <3>3. a \in Addrs
      <4>1. request[t] \in Requests
        BY <2>1, RequestMade DEF Read
      <4>2. request[t].entries \in Seq(Entries) /\ request[t].entries # << >>
        BY <4>1, KcasAssumption
      <4>3. request[t].entries[1] \in Entries
        BY <4>2
      <4> QED BY <4>3, <3>1, EntryFacts
    <3>4. mem[a][1] = "value" => mem[a][2] \in Nat
      BY <3>3, KcasAssumption DEF Words
    <3> QED BY <3>2, <3>4
  <2>2. CASE Return(t)
    BY <2>2 DEF Return
  <2>3. CASE HelpReadsState(t) \/ Phase2(t) \/ Release(t)
    <3>1. \/ answer' = answer
          \/ answer' = [answer EXCEPT ![t] = 0] \/ answer' = [answer EXCEPT ![t] = 1]
      BY <2>3 DEF HelpReadsState, Phase2, Release, HelpReturns
    <3> QED BY <3>1
  <2>4. CASE ~(Read(t) \/ Return(t) \/ HelpReadsState(t) \/ Phase2(t) \/ Release(t))
    BY <2>4 DEF Step, Work, CallRead, CallExecute, HelpOther, PrepareRdcss,
             InstallRdcss, RdcssHelpOther, RdcssReadsState, RdcssSets, Decide
  <2> QED BY <2>1, <2>2, <2>3, <2>4
<1> QED BY <1>2, <1>3, <1>4, <1>5, <1>6, <1>7, <1>8, <1>9 DEF Types

LEMMA NewOp ==
    ASSUME Types, OpsOK, SeqsFit, NEW t \in Threads, Step(t), NEW k \in Ops', k \notin Ops
    PROVE  CallExecute(t) /\ k[2] = t /\ k[3] = kdesc'[t].seq
<1>1. k \in {"kcas"} \X Threads \X (1 .. SeqLimit) /\ k[3] <= kdesc'[k[2]].seq /\ ~(k[3] <= kdesc[k[2]].seq)
  BY DEF Ops
<1>2. k[2] \in Threads /\ k[3] \in Nat
  BY <1>1
<1>3. kdesc[k[2]].seq \in Nat
  BY <1>2 DEF Types, KDescs
<1>4. kdesc'[k[2]].seq # kdesc[k[2]].seq
  BY <1>1
<1>5. CallExecute(t)
  <2>1. CASE Decide(t)
    BY <2>1, <1>2, <1>4, DecideFacts DEF Step
  <2>2. CASE ~CallExecute(t) /\ ~Decide(t)
    BY <2>2, <1>4, DescriptorsKept
  <2> QED BY <2>1, <2>2
<1>6. kdesc'[t].seq = kdesc[t].seq + 1 /\ \A u \in Threads \ {t} : kdesc'[u] = kdesc[u]
  BY <1>5, ExecuteFacts DEF Step
<1>7. k[2] = t
  BY <1>2, <1>4, <1>6
<1>8. k[3] <= kdesc[t].seq + 1 /\ ~(k[3] <= kdesc[t].seq) /\ kdesc[t].seq \in Nat
  BY <1>1, <1>3, <1>6, <1>7
<1>9. k[3] = kdesc[t].seq + 1
  BY <1>8, <1>2
<1> QED BY <1>5, <1>6, <1>7, <1>9

LEMMA OpsOKStep ==
    ASSUME Inv, SeqsFit, NEW t \in Threads, Step(t), OpsKept
    PROVE  OpsOK'
<1>1. ASSUME NEW u \in Threads PROVE kdesc'[u].seq = Len(past'[u])
  <2>1. kdesc[u].seq = Len(past[u]) /\ past[u] \in Seq(KDescs) /\ kdesc[u] \in KDescs
    BY DEF Inv, OpsOK, Types
  <2>2. CASE ~CallExecute(t) /\ ~Decide(t)
    BY <2>1, <2>2, DescriptorsKept DEF Inv
  <2>3. CASE Decide(t)
    BY <2>1, <2>3, DecideFacts DEF Inv, Step
  <2>4. CASE CallExecute(t)
    <3>1. CASE u # t
      BY <2>1, <2>4, <3>1, ExecuteFacts DEF Inv, Step
    <3>2. CASE u = t
      BY <2>1, <2>4, <3>2, ExecuteFacts, PushFacts DEF Inv, Step
    <3> QED BY <3>1, <3>2
  <2> QED BY <2>2, <2>3, <2>4
<1>2. ASSUME NEW k \in Ops'
      PROVE  (EntriesOf(k) # << >> /\ Distinct(EntriesOf(k)) /\ (Undec(k) => Current(k)))'
  <2>1. CASE k \in Ops
    <3>1. EntriesOf(k)' = EntriesOf(k) /\ (Undec(k)' => Undec(k))
      BY <2>1, UndecKept
    <3>2. EntriesOf(k) # << >> /\ Distinct(EntriesOf(k))
      BY <2>1 DEF Inv, OpsOK
    <3>3. ASSUME Undec(k)' PROVE Current(k)'
      <4>1. Undec(k) /\ Current(k) /\ k[2] \in Threads
        BY <2>1, <3>1, <3>3, OpFacts DEF Inv, OpsOK
      <4>2. CASE CallExecute(t) /\ k[2] = t
        <5>0. k[3] >= 1 /\ k[3] = kdesc[t].seq
          BY <4>1, <4>2, <2>1, OpFacts DEF Current, Inv
        <5>3. DescOf(k) = kdesc[t]
          BY <4>1, <4>2 DEF DescOf
        <5>1. kdesc[t].state = "undecided" /\ kdesc[t].seq >= 1
          BY <4>1, <5>0, <5>3 DEF Undec, State
        <5>2. request[t].kind = "kcas" /\ pc[t] = "idle"
          BY <5>1, <4>2 DEF Inv, ControlOK, Control, CallExecute, Called
        <5> QED BY <5>2 DEF Inv, ControlOK, Control
      <4>3. CASE CallExecute(t) /\ k[2] # t
        BY <4>1, <4>3, ExecuteFacts DEF Inv, Step, Current
      <4>4. CASE Decide(t)
        BY <4>1, <4>4, DecideFacts DEF Inv, Step, Current
      <4>5. CASE ~CallExecute(t) /\ ~Decide(t)
        BY <4>1, <4>5, DescriptorsKept DEF Inv, Current
      <4> QED BY <4>2, <4>3, <4>4, <4>5
    <3> QED BY <3>1, <3>2, <3>3 DEF Distinct
  <2>2. CASE k \notin Ops
    <3>1. CallExecute(t) /\ k[2] = t /\ k[3] = kdesc'[t].seq
      BY <2>2, NewOp DEF Inv
    <3>2. kdesc'[t].entries # << >> /\ Distinct(kdesc'[t].entries)
      BY <3>1, ExecuteFacts DEF Inv, Step
    <3>3. Current(k)' /\ EntriesOf(k)' = kdesc'[t].entries
      BY <3>1 DEF Current, EntriesOf, DescOf
    <3> QED BY <3>2, <3>3 DEF Distinct
  <2> QED BY <2>1, <2>2
<1> QED BY <1>1, <1>2 DEF OpsOK

\* The call at the bottom of its stack is t's own.
LEMMA OwnFacts ==
    ASSUME Inv, NEW t \in Threads, Busy(t), Own(t)
    PROVE  /\ Top(t).tag = KcasTag(t, kdesc[t].seq) /\ Current(Top(t).tag)
           /\ State(Top(t).tag) = kdesc[t].state
<1>1. request[t].kind = "kcas" /\ pc[t] # "return" /\ Len(frames[t]) = 1
  BY DEF Inv, ControlOK, Control, Own
<1>2. Top(t) = frames[t][1]
  BY <1>1 DEF Top
<1>3. Top(t).tag = KcasTag(t, kdesc[t].seq)
  BY <1>1, <1>2 DEF Inv, ControlOK, Control
<1> QED BY <1>3, TagFacts DEF Current, State, DescOf

\* Of Control, only the part about the stack is not obvious for the steps inside a call.
LEMMA ControlInside ==
    ASSUME Inv, NEW t \in Threads, kdesc' = kdesc, request'[t] = request[t],
           pc[t] \notin {"idle", "return"}, pc'[t] # "idle",
           pc'[t] \in {"read", "return"} => ~Busy(t)',
           pc'[t] \in {"help", "prepare", "install", "decide", "phase2", "release"} => Busy(t)',
           request[t].kind = "kcas" /\ pc'[t] # "return" =>
               Busy(t)' /\ frames'[t][1].tag = frames[t][1].tag,
           request[t].kind = "kcas" /\ pc'[t] = "return" => kdesc[t].state # "undecided"
    PROVE  Control(t)'
<1>1. Control(t)
  BY DEF Inv, ControlOK
<1> QED BY <1>1, SMTT(60) DEF Control

LEMMA ControlReturns ==
    ASSUME Inv, NEW t \in Threads, kdesc' = kdesc, request'[t] = request[t], Busy(t),
           NEW r, HelpReturns(t, r), Own(t) => ~Undec(Top(t).tag)
    PROVE  Control(t)'
<1>1. /\ Popped(t) /\ (Own(t) => pc'[t] = "return")
      /\ ~Own(t) => pc'[t] = IF Len(frames[t]) = 1 THEN "read" ELSE "prepare"
  BY ReturnsFacts DEF Inv
<1>2. Own(t) => kdesc[t].state # "undecided"
  BY OwnFacts DEF Undec
<1>3. pc[t] \notin {"idle", "return"}
  BY DEF Inv, ControlOK, Control
<1>4. /\ frames'[t] = << >> <=> Len(frames[t]) = 1
      /\ Len(frames[t]) # 1 => frames'[t][1] = frames[t][1]
  <2>1. \A n \in Nat : n >= 1 /\ n # 1 => 1 \in 1 .. n - 1
    OBVIOUS
  <2> QED BY <1>1, <2>1 DEF Popped
<1>5. CASE Own(t)
  BY <1>1, <1>2, <1>3, <1>4, <1>5, ControlInside DEF Busy, Own
<1>6. CASE ~Own(t)
  <2>1. Len(frames[t]) = 1 => request[t].kind # "kcas"
    BY <1>6 DEF Own
  <2>2. CASE Len(frames[t]) = 1
    <3>1. pc'[t] = "read" /\ ~Busy(t)' /\ request[t].kind # "kcas"
      BY <1>1, <1>4, <1>6, <2>1, <2>2 DEF Busy
    <3> QED BY <3>1, <1>3, ControlInside
  <2>3. CASE Len(frames[t]) # 1
    <3>1. pc'[t] = "prepare" /\ Busy(t)' /\ frames'[t][1] = frames[t][1]
      BY <1>1, <1>4, <1>6, <2>3 DEF Busy
    <3> QED BY <3>1, <1>3, ControlInside
  <2> QED BY <2>2, <2>3
<1> QED BY <1>5, <1>6

\* A new frame on top is for the same operation.
LEMMA BottomKept ==
    ASSUME Inv, NEW t \in Threads, Busy(t), NEW g, g.tag = Top(t).tag, NewTop(t, g)
    PROVE  Busy(t)' /\ frames'[t][1].tag = frames[t][1].tag
<1>1. PICK n \in Nat : n = Len(frames[t]) /\ n >= 1 /\ Top(t) = frames[t][n]
  BY TopFacts DEF Inv
<1>5. Busy(t)'
  <2>1. frames'[t] \in Seq(Frames) /\ Len(frames'[t]) >= 1
    BY <1>1 DEF NewTop
  <2> QED BY <2>1 DEF Busy
<1>2. CASE n = 1
  BY <1>1, <1>2, <1>5 DEF NewTop
<1>3. CASE n > 1
  <2>1. 1 \in 1 .. n - 1
    BY <1>3
  <2> QED BY <1>1, <2>1, <1>5 DEF NewTop
<1>4. \A m \in Nat : m >= 1 => m = 1 \/ m > 1
  OBVIOUS
<1> QED BY <1>1, <1>2, <1>3, <1>4

LEMMA ControlOthers ==
    ASSUME Inv, SeqsFit, NEW t \in Threads, Step(t), Others(t), NEW u \in Threads \ {t}
    PROVE  Control(u)'
<1>1. pc'[u] = pc[u] /\ request'[u] = request[u] /\ frames'[u] = frames[u]
  BY DEF Others
<1>2. /\ kdesc'[u].seq = kdesc[u].seq /\ kdesc'[u].entries = kdesc[u].entries
      /\ kdesc'[u].state = "undecided" => kdesc[u].state = "undecided"
  <2>1. CASE CallExecute(t)
    BY <2>1, ExecuteFacts DEF Inv, Step
  <2>2. CASE Decide(t)
    <3>1. pc[t] = "decide" /\ Busy(t)
      BY <2>2 DEF Decide, Inv, ControlOK, Control
    <3>2. Top(t).newstate # "undecided"
      BY <3>1, TopFacts DEF Inv, Frames, Outcomes
    <3> QED BY <2>2, <3>2, DecideFacts DEF Inv, Step
  <2>3. CASE ~CallExecute(t) /\ ~Decide(t)
    BY <2>3, DescriptorsKept DEF Inv
  <2> QED BY <2>1, <2>2, <2>3
<1>3. Control(u)
  BY DEF Inv, ControlOK
<1> QED BY <1>1, <1>2, <1>3, ZenonT(60) DEF Control, Busy

LEMMA ControlStep ==
    ASSUME Inv, SeqsFit, NEW t \in Threads, Step(t), OpsKept, TagsKept, Others(t)
    PROVE  Control(t)'
<1>2. Control(t)
  BY DEF Inv, ControlOK
<1>3. CASE CallRead(t)
  <2>1. pc'[t] = "read" /\ frames' = frames /\ kdesc' = kdesc /\ pc[t] = "idle"
    BY <1>3, GotoFacts DEF CallRead, Called, Inv
  <2>2. request'[t].kind = "read"
    BY <1>3 DEF CallRead, Called, Inv, Types
  <2>3. ~Busy(t)'
    BY <1>2, <2>1 DEF Control, Busy
  <2> QED BY <1>2, <2>1, <2>2, <2>3 DEF Control
<1>4. CASE CallExecute(t)
  <2>1. pc'[t] = "help" /\ request'[t].kind = "kcas"
    BY <1>4, GotoFacts, ExecuteFacts DEF CallExecute, Inv, Step
  <2>2. Busy(t)' /\ frames'[t][1].tag = KcasTag(t, kdesc'[t].seq)
    BY <1>4, ExecuteFrames DEF Step
  <2>3. /\ kdesc'[t].seq >= 1
        /\ {kdesc'[t].entries[i] : i \in DOMAIN kdesc'[t].entries}
                = {request'[t].entries[i] : i \in DOMAIN request'[t].entries}
    <3>1. kdesc'[t].seq = kdesc[t].seq + 1 /\ kdesc[t].seq \in Nat
      BY <1>4, ExecuteFacts DEF Inv, Step
    <3>2. {kdesc'[t].entries[i] : i \in DOMAIN kdesc'[t].entries}
                = {request'[t].entries[i] : i \in DOMAIN request'[t].entries}
      BY <1>4, ExecuteFacts DEF Inv, Step
    <3>3. kdesc'[t].seq >= 1
      BY <3>1
    <3> QED BY <3>2, <3>3
  <2> QED BY <2>1, <2>2, <2>3 DEF Control
<1>5. CASE Return(t)
  <2>1. pc'[t] = "idle" /\ frames' = frames /\ kdesc' = kdesc /\ pc[t] = "return"
    BY <1>5, GotoFacts DEF Return, Inv
  <2>2. request'[t].kind = "none"
    BY <1>5 DEF Return, Inv, Types, NoRequest
  <2> QED BY <1>2, <2>1, <2>2 DEF Control, Busy
<1>6. CASE Decide(t)
  <2>1. pc[t] = "decide" /\ Busy(t) /\ frames' = frames /\ pc'[t] = "phase2" /\ request' = request
    BY <1>6, GotoFacts DEF Decide, Inv, ControlOK, Control, local
  <2>2. Top(t).newstate # "undecided"
    BY <2>1, TopFacts DEF Inv, Frames, Outcomes
  <2>3. /\ kdesc'[t].seq = kdesc[t].seq /\ kdesc'[t].entries = kdesc[t].entries
        /\ kdesc'[t].state = "undecided" => kdesc[t].state = "undecided"
    BY <1>6, <2>2, DecideFacts DEF Inv, Step
  <2> QED BY <1>2, <2>1, <2>3, ZenonT(60) DEF Control, Busy
<1>7. CASE Work(t) /\ ~Return(t) /\ ~Decide(t)
  <2>1. kdesc' = kdesc /\ request' = request
    BY <1>7 DEF Work, Read, HelpOther, HelpReadsState, PrepareRdcss, InstallRdcss,
                RdcssHelpOther, RdcssReadsState, RdcssSets, Phase2, Release, local
  <2>2. CASE Read(t)
    <3>1. pc[t] = "read" /\ pc'[t] \in {"snapRdcss", "snapKcas", "return"} /\ frames' = frames
      BY <2>2, GotoFacts DEF Read, Inv
    <3>2. request[t].kind # "kcas" /\ ~Busy(t)
      BY <1>2, <3>1 DEF Control
    <3> QED BY <2>1, <3>1, <3>2, ControlInside DEF Busy
  <2>3. CASE HelpOther(t)
    <3>1. pc[t] = "snapKcas"
      BY <2>3 DEF HelpOther
    <3>2. CASE Current(word[t])
      <4>1. pc'[t] = "help"
        BY <2>3, <3>2, GotoFacts DEF HelpOther, Inv
      <4>2. PICK f : Pushed(t, f)
        BY <2>3, <3>2, HelpOtherFrames
      <4>3. Busy(t)'
        BY <4>2 DEF Pushed, Busy
      <4>4. Busy(t) => frames'[t][1] = frames[t][1]
        BY <4>2 DEF Pushed, Busy, Inv, Types
      <4>5. request[t].kind = "kcas" => Busy(t)
        BY <1>2, <3>1 DEF Control
      <4> QED BY <2>1, <3>1, <4>1, <4>3, <4>4, <4>5, ControlInside
    <3>3. CASE ~Current(word[t])
      <4>1. pc'[t] = IF frames[t] = << >> THEN "read" ELSE "prepare"
        BY <2>3, <3>3, GotoFacts DEF HelpOther, Resume, Inv
      <4>2. frames' = frames
        BY <2>3, <3>3 DEF HelpOther
      <4>3. request[t].kind = "kcas" => Busy(t)
        BY <1>2, <3>1 DEF Control
      <4> QED BY <2>1, <3>1, <4>1, <4>2, <4>3, ControlInside DEF Busy
    <3> QED BY <3>2, <3>3
  <2>4. CASE HelpReadsState(t)
    <3>1. pc[t] = "help" /\ Busy(t)
      BY <1>2, <2>4 DEF HelpReadsState, Control
    <3>2. CASE ~Current(Top(t).tag)
      BY <2>1, <2>4, <3>1, <3>2, OwnFacts, ControlReturns DEF HelpReadsState
    <3>3. CASE Current(Top(t).tag)
      <4>1. frames' = frames /\ pc'[t] \in {"phase2", "decide", "prepare"}
        BY <2>4, <3>3, GotoFacts DEF HelpReadsState, Inv
      <4> QED BY <2>1, <3>1, <4>1, ControlInside DEF Busy
    <3> QED BY <3>2, <3>3
  <2>5. CASE PrepareRdcss(t)
    <3>1. pc[t] = "prepare" /\ pc'[t] = "install" /\ Busy(t) /\ frames' = frames
      BY <1>2, <2>5, GotoFacts DEF PrepareRdcss, Control, Inv
    <3> QED BY <2>1, <3>1, ControlInside DEF Busy
  <2>6. CASE InstallRdcss(t)
    <3>1. pc[t] = "install" /\ Busy(t)
      BY <1>2, <2>6 DEF InstallRdcss, Control
    <3>2. CASE NextEntry(t)
      <4>1. pc'[t] \in {"prepare", "decide"} /\ Busy(t)' /\ frames'[t][1].tag = frames[t][1].tag
        BY <3>1, <3>2, NextEntryTypes DEF Inv
      <4> QED BY <2>1, <3>1, <4>1, ControlInside
    <3>3. CASE frames' = frames /\ pc'[t] \in {"rdcssState", "snapRdcss", "snapKcas"}
      BY <2>1, <3>1, <3>3, ControlInside DEF Busy
    <3>4. CASE SetTop(t, [Top(t) EXCEPT !.newstate = "failed"]) /\ pc'[t] = "decide"
      <4>1. PICK g : g = [Top(t) EXCEPT !.newstate = "failed"]
        OBVIOUS
      <4>2. g \in Frames /\ g.tag = Top(t).tag
        BY <3>1, <4>1, TopFacts DEF Inv, Frames, Outcomes
      <4>3. NewTop(t, g)
        BY <3>1, <3>4, <4>1, <4>2, NewTopFacts DEF Inv
      <4>4. Busy(t)' /\ frames'[t][1].tag = frames[t][1].tag
        BY <3>1, <4>2, <4>3, BottomKept
      <4> QED BY <2>1, <3>1, <3>4, <4>4, ControlInside
    <3>5. \/ frames' = frames /\ pc'[t] \in {"rdcssState", "snapRdcss", "snapKcas"}
          \/ NextEntry(t)
          \/ SetTop(t, [Top(t) EXCEPT !.newstate = "failed"]) /\ pc'[t] = "decide"
      BY <2>6, GotoFacts DEF InstallRdcss, Inv
    <3> QED BY <3>2, <3>3, <3>4, <3>5
  <2>7. CASE RdcssHelpOther(t) \/ RdcssReadsState(t)
    <3>1. /\ pc[t] \in {"snapRdcss", "rdcssState"} /\ frames' = frames
          /\ pc'[t] \in {"rdcssState", "rdcssSet"} \/ pc'[t] = IF Busy(t) THEN "install" ELSE "read"
      BY <2>7, GotoFacts DEF RdcssHelpOther, RdcssReadsState, Retry, Inv
    <3>2. request[t].kind = "kcas" => Busy(t)
      BY <1>2, <3>1 DEF Control
    <3> QED BY <2>1, <3>1, <3>2, ControlInside DEF Busy
  <2>8. CASE RdcssSets(t)
    <3>1. pc[t] = "rdcssSet"
      BY <2>8 DEF RdcssSets
    <3>2. CASE helped[t].tag[2] = t
      <4>1. NextEntry(t) /\ Busy(t)
        BY <2>8, <3>1, <3>2 DEF RdcssSets, Inv, HelpedOK, HelpsRdcss
      <4>2. pc'[t] \in {"prepare", "decide"} /\ Busy(t)' /\ frames'[t][1].tag = frames[t][1].tag
        BY <4>1, NextEntryTypes DEF Inv
      <4> QED BY <2>1, <3>1, <4>1, <4>2, ControlInside
    <3>3. CASE helped[t].tag[2] # t
      <4>1. frames' = frames /\ pc'[t] = IF Busy(t) THEN "install" ELSE "read"
        BY <2>8, <3>3, GotoFacts DEF RdcssSets, Retry, Inv
      <4>2. request[t].kind = "kcas" => Busy(t)
        BY <1>2, <3>1 DEF Control
      <4> QED BY <2>1, <3>1, <4>1, <4>2, ControlInside DEF Busy
    <3> QED BY <3>2, <3>3
  <2>9. CASE Phase2(t)
    <3>1. pc[t] = "phase2" /\ Busy(t)
      BY <1>2, <2>9 DEF Phase2, Control
    <3>2. CASE ~Current(Top(t).tag)
      BY <2>1, <2>9, <3>1, <3>2, OwnFacts, ControlReturns DEF Phase2
    <3>3. CASE Current(Top(t).tag)
      <4>1. PICK k : k = Top(t).tag
        OBVIOUS
      <4>2. pc'[t] = "release"
        BY <2>9, <3>3, GotoFacts DEF Phase2, Inv
      <4>3. PICK g : g = [Top(t) EXCEPT !.i = 1, !.newstate = StateOf(k)]
        OBVIOUS
      <4>4. Top(t) \in Frames /\ k \in Ops /\ ~Undec(k)
        BY <3>1, <4>1, TopFacts DEF Inv, GoodFrame
      <4>5. StateOf(k) \in Outcomes
        BY <3>3, <4>1, <4>4, OpFacts DEF Inv, State, DescOf, StateOf, Undec, Outcomes
      <4>6. g \in Frames /\ g.tag = Top(t).tag
        BY <4>3, <4>4, <4>5 DEF Frames
      <4>7. NewTop(t, g)
        BY <2>9, <3>1, <3>3, <4>1, <4>3, <4>6, NewTopFacts DEF Inv, Phase2
      <4>8. Busy(t)' /\ frames'[t][1].tag = frames[t][1].tag
        BY <3>1, <4>6, <4>7, BottomKept
      <4> QED BY <2>1, <3>1, <4>2, <4>8, ControlInside
    <3> QED BY <3>2, <3>3
  <2>10. CASE Release(t)
    <3>1. pc[t] = "release" /\ Busy(t)
      BY <1>2, <2>10 DEF Release, Control
    <3>2. CASE ~(Top(t).i < Len(Top(t).entries))
      <4>1. PICK r : HelpReturns(t, r)
        BY <2>10, <3>2 DEF Release
      <4>2. ~Undec(Top(t).tag)
        BY <3>1, TopFacts DEF Inv, GoodFrame
      <4> QED BY <2>1, <3>1, <4>1, <4>2, ControlReturns
    <3>3. CASE Top(t).i < Len(Top(t).entries)
      <4>1. PICK g : g = [Top(t) EXCEPT !.i = @ + 1]
        OBVIOUS
      <4>2. g \in Frames /\ g.tag = Top(t).tag
        BY <3>1, <4>1, TopFacts, SMTT(60) DEF Inv, Frames
      <4>3. NewTop(t, g) /\ pc' = pc
        BY <2>10, <3>1, <3>3, <4>1, <4>2, NewTopFacts DEF Inv, Release
      <4>4. Busy(t)' /\ frames'[t][1].tag = frames[t][1].tag
        BY <3>1, <4>2, <4>3, BottomKept
      <4> QED BY <2>1, <3>1, <4>3, <4>4, ControlInside
    <3> QED BY <3>2, <3>3
  <2> QED BY <1>7, <2>2, <2>3, <2>4, <2>5, <2>6, <2>7, <2>8, <2>9, <2>10 DEF Work
<1> QED BY <1>3, <1>4, <1>5, <1>6, <1>7 DEF Step

-----------------------------------------------------------------------------
\* What a thread does with its own RDCSS descriptor, with a word it met, and with another's.
LEMMA RdescFacts ==
    ASSUME Inv, SeqsFit, NEW t \in Threads, Step(t)
    PROVE  /\ ~PrepareRdcss(t) => rdesc' = rdesc
           /\ PrepareRdcss(t) => rdesc'[t].seq = rdesc[t].seq + 1 /\ rdesc[t].seq \in Nat
           /\ \A u \in Threads \ {t} : rdesc'[u] = rdesc[u]
           /\ \A w \in Rds : w \in Rds'
<1>1. ~PrepareRdcss(t) => rdesc' = rdesc
  BY DEF Step, Work, CallRead, CallExecute, Read, Return, HelpOther, HelpReadsState,
         InstallRdcss, RdcssHelpOther, RdcssReadsState, RdcssSets, Decide, Phase2, Release
<1>2. rdesc \in [Threads -> RDescs] /\ \A u \in Threads : rdesc[u].seq \in Nat
  BY DEF Inv, Types, RDescs
<1>3. PrepareRdcss(t) => rdesc'[t].seq = rdesc[t].seq + 1
  <2> SUFFICES ASSUME PrepareRdcss(t) PROVE rdesc'[t].seq = rdesc[t].seq + 1
    OBVIOUS
  <2>1. NextSeq(rdesc[t].seq) = rdesc[t].seq + 1
    BY <1>2, NextSeqFacts DEF SeqsFit
  <2> QED BY <1>2, <2>1 DEF PrepareRdcss
<1>4. \A u \in Threads \ {t} : rdesc'[u] = rdesc[u]
  BY OthersStep DEF Others, Inv
<1>5. \A u \in Threads : rdesc'[u].seq \in {rdesc[u].seq, rdesc[u].seq + 1}
  BY <1>1, <1>3, <1>4
<1>6. \A w \in Rds : w \in Rds'
  BY <1>2, <1>5 DEF Rds
<1> QED BY <1>1, <1>2, <1>3, <1>4, <1>6

LEMMA PrepareFacts ==
    ASSUME Inv, NEW t \in Threads, PrepareRdcss(t), NEW d, d = rdesc'[t]
    PROVE  /\ DescOK(d) /\ d.tag = Top(t).tag /\ d.addr = Entry(t)[1] /\ d.old2 = Entry(t)[2]
           /\ pc[t] = "prepare" /\ pc'[t] = "install" /\ frames' = frames /\ Busy(t)
<1>1. pc[t] = "prepare" /\ pc'[t] = "install" /\ frames' = frames /\ Busy(t)
  BY GotoFacts DEF PrepareRdcss, Inv, ControlOK, Control
<1>2. d.tag = Top(t).tag /\ d.addr = Entry(t)[1] /\ d.old2 = Entry(t)[2]
  BY DEF PrepareRdcss, Inv, Types
<1>3. Top(t) \in Frames /\ GoodFrame(Top(t), "prepare")
  BY <1>1, TopFacts DEF Inv
<1>4. PICK k : k = Top(t).tag
  OBVIOUS
<1>5. PICK i \in Nat : i = Top(t).i
  BY <1>3 DEF Frames
<1>6. k \in Ops /\ i \in 1 .. Len(EntriesOf(k)) /\ HeldBefore(k, i) /\ Entry(t) = EntriesOf(k)[i]
  BY <1>3, <1>4, <1>5 DEF GoodFrame, AtEntry, Phase1, OnEntry, Entry
<1>7. i \in DOMAIN EntriesOf(k) /\ 1 \in DOMAIN EntriesOf(k)
  BY <1>6, OpFacts DEF Inv
<1>8. i = 1 \/ First(k)
  <2>1. i = 1 \/ 1 < i
    BY <1>6
  <2> QED BY <2>1, <1>6, <1>7 DEF HeldBefore, First
<1>9. DescOK(d)
  BY <1>2, <1>4, <1>6, <1>7, <1>8 DEF DescOK, AddrOf
<1> QED BY <1>1, <1>2, <1>9

LEMMA WordFacts ==
    ASSUME Inv, NEW t \in Threads, Step(t), pc'[t] \in {"snapRdcss", "snapKcas"}
    PROVE  /\ pc[t] \in {"read", "install"}
           /\ \E a \in Addrs : /\ word'[t] = mem[a]
                               /\ pc'[t] = "snapRdcss" => isRdcss(mem[a])
                               /\ pc'[t] = "snapKcas" => isKcas(mem[a])
<1>1. CASE Read(t)
  <2>1. PICK a : a = request[t].entries[1][1]
    OBVIOUS
  <2>2. a \in Addrs
    <3>1. request[t] \in Requests
      BY <1>1, RequestMade DEF Read
    <3>2. request[t].entries \in Seq(Entries) /\ request[t].entries # << >>
      BY <3>1, KcasAssumption
    <3>3. request[t].entries[1] \in Entries
      BY <3>2
    <3> QED BY <2>1, <3>3, EntryFacts
  <2>3. pc'[t] = CASE isRdcss(mem[a]) -> "snapRdcss" [] isKcas(mem[a])  -> "snapKcas" [] OTHER -> "return"
    BY <1>1, <2>1, GotoFacts DEF Read, Inv
  <2>4. word'[t] = IF mem[a][1] = "value" THEN NoWord ELSE mem[a]
    BY <1>1, <2>1 DEF Read, Inv, Types
  <2>5. pc[t] = "read"
    BY <1>1 DEF Read
  <2> QED BY <2>2, <2>3, <2>4, <2>5 DEF isRdcss, isKcas
<1>2. CASE InstallRdcss(t)
  <2>1. pc[t] = "install" /\ Prepared(t)
    BY <1>2 DEF InstallRdcss, Inv, ControlOK, Control, Prepared
  <2>2. rdesc[t].addr \in Addrs
    BY <2>1, PreparedFacts, OpFacts DEF Inv
  <2>3. /\ word'[t] = mem[rdesc[t].addr]
        /\ pc'[t] = "snapRdcss" => isRdcss(mem[rdesc[t].addr])
        /\ pc'[t] = "snapKcas" => isKcas(mem[rdesc[t].addr])
    BY <1>2 DEF InstallRdcss, Inv, Types, Goto, NextEntry
  <2> QED BY <2>1, <2>2, <2>3
<1>3. CASE ~Read(t) /\ ~InstallRdcss(t)
  <2>1. CASE CallRead(t) \/ CallExecute(t) \/ Return(t) \/ PrepareRdcss(t) \/ RdcssReadsState(t) \/ Decide(t)
    BY <2>1, GotoFacts DEF CallRead, CallExecute, Return, PrepareRdcss, RdcssReadsState, Decide, Inv
  <2>2. CASE HelpOther(t) \/ RdcssHelpOther(t)
    BY <2>2 DEF HelpOther, Resume, RdcssHelpOther, Retry, Inv, Types, Goto
  <2>3. CASE HelpReadsState(t) \/ Phase2(t)
    BY <2>3 DEF HelpReadsState, Phase2, HelpReturns, Resume, Inv, Types, Goto
  <2>4. CASE RdcssSets(t)
    BY <2>4 DEF RdcssSets, NextEntry, Retry, Inv, Types, Goto
  <2>5. CASE Release(t)
    BY <2>5 DEF Release, HelpReturns, Resume, Inv, Types, Goto
  <2> QED BY <1>3, <2>1, <2>2, <2>3, <2>4, <2>5 DEF Step, Work
<1> QED BY <1>1, <1>2, <1>3

LEMMA HelpedFacts ==
    ASSUME Inv, NEW t \in Threads, Step(t), HelpsRdcss(t)'
    PROVE  \/ /\ InstallRdcss(t) /\ mem[rdesc[t].addr] = Value(rdesc[t].old2)
              /\ helped'[t] = [tag |-> MyRdcss(t), desc |-> rdesc[t], undecided |-> FALSE]
              /\ pc[t] = "install" /\ pc'[t] = "rdcssState" /\ frames' = frames
           \/ /\ RdcssHelpOther(t) /\ rdesc[word[t][2]].seq = word[t][3]
              /\ helped'[t] = [tag |-> word[t], desc |-> rdesc[word[t][2]], undecided |-> FALSE]
              /\ pc[t] = "snapRdcss" /\ pc'[t] = "rdcssState"
           \/ LET k == helped[t].desc.tag
              IN  /\ RdcssReadsState(t)
                  /\ helped'[t].tag = helped[t].tag /\ helped'[t].desc = helped[t].desc
                  /\ helped'[t].undecided = (Current(k) /\ StateOf(k) = "undecided")
                  /\ pc[t] = "rdcssState" /\ pc'[t] = "rdcssSet"
<1>1. CASE InstallRdcss(t)
  BY <1>1 DEF InstallRdcss, Inv, Types, Goto, NextEntry, HelpsRdcss, MyRdcss
<1>2. CASE RdcssHelpOther(t)
  BY <1>2 DEF RdcssHelpOther, Retry, Inv, Types, Goto, HelpsRdcss
<1>3. CASE RdcssReadsState(t)
  <2>1. helped \in [Threads -> [tag : Words, undecided : BOOLEAN, desc : RDescs]]
    BY DEF Inv, Types
  <2>2. PICK b : b = (Current(helped[t].desc.tag) /\ StateOf(helped[t].desc.tag) = "undecided")
    OBVIOUS
  <2>3. helped' = [helped EXCEPT ![t].undecided = b]
    BY <1>3, <2>2 DEF RdcssReadsState
  <2>4. helped'[t].tag = helped[t].tag /\ helped'[t].desc = helped[t].desc /\ helped'[t].undecided = b
    BY <2>1, <2>3
  <2>5. pc[t] = "rdcssState" /\ pc'[t] = "rdcssSet"
    BY <1>3, GotoFacts DEF RdcssReadsState, Inv
  <2> QED BY <1>3, <2>2, <2>4, <2>5
<1>4. CASE ~InstallRdcss(t) /\ ~RdcssHelpOther(t) /\ ~RdcssReadsState(t)
  <2>1. CASE CallRead(t) \/ CallExecute(t) \/ Return(t) \/ PrepareRdcss(t) \/ Decide(t) \/ Read(t)
    BY <2>1, GotoFacts DEF CallRead, CallExecute, Return, PrepareRdcss, Decide, Read, Inv, HelpsRdcss
  <2>2. CASE HelpOther(t)
    BY <2>2 DEF HelpOther, Resume, Inv, Types, Goto, HelpsRdcss
  <2>3. CASE HelpReadsState(t) \/ Phase2(t)
    BY <2>3 DEF HelpReadsState, Phase2, HelpReturns, Resume, Inv, Types, Goto, HelpsRdcss
  <2>4. CASE RdcssSets(t)
    BY <2>4 DEF RdcssSets, NextEntry, Retry, Inv, Types, Goto, HelpsRdcss
  <2>5. CASE Release(t)
    BY <2>5 DEF Release, HelpReturns, Resume, Inv, Types, Goto, HelpsRdcss
  <2> QED BY <1>4, <2>1, <2>2, <2>3, <2>4, <2>5 DEF Step, Work
<1> QED BY <1>1, <1>2, <1>3, <1>4

\* An operation changes its state when it is decided.
LEMMA StateFacts ==
    ASSUME Inv, SeqsFit, NEW t \in Threads, Step(t), OpsKept, NEW k \in Ops, State(k)' # State(k)
    PROVE  Decide(t) /\ Busy(t) /\ k = Top(t).tag /\ Undec(k) /\ State(k)' = Top(t).newstate
<1>1. Undec(k) /\ Current(k) /\ k[2] \in Threads /\ k = KcasTag(k[2], k[3]) /\ k[3] = kdesc[k[2]].seq
      /\ k[3] >= 1 /\ State(k) = kdesc[k[2]].state
  <2>1. Undec(k) /\ Current(k)
    BY DEF OpsKept, Inv, OpsOK
  <2> QED BY <2>1, OpFacts DEF Inv, Current, State, DescOf
<1>2. CASE CallExecute(t)
  <2>1. k[2] # t
    <3> SUFFICES ASSUME k[2] = t PROVE FALSE
      OBVIOUS
    <3>1. kdesc[t].state = "undecided" /\ kdesc[t].seq >= 1
      BY <1>1 DEF Undec
    <3>2. request[t].kind = "kcas" /\ pc[t] = "idle"
      BY <3>1, <1>2 DEF Inv, ControlOK, Control, CallExecute, Called
    <3> QED BY <3>2 DEF Inv, ControlOK, Control
  <2>2. kdesc'[k[2]] = kdesc[k[2]]
    BY <1>1, <1>2, <2>1, ExecuteFacts DEF Inv, Step
  <2>3. State(k)' = State(k)
    BY <1>1, <2>2 DEF State, DescOf, Current
  <2> QED BY <2>3
<1>3. CASE Decide(t)
  <2>1. Busy(t)
    BY <1>3 DEF Decide, Inv, ControlOK, Control
  <2>2. /\ kdesc'[k[2]].seq = kdesc[k[2]].seq
        /\ kdesc'[k[2]] # kdesc[k[2]] => k[2] = Top(t).tag[2] /\ Current(Top(t).tag)
                                         /\ kdesc'[k[2]].state = Top(t).newstate
    BY <1>1, <1>3, DecideFacts DEF Inv, Step
  <2>3. State(k)' = kdesc'[k[2]].state
    BY <1>1, <2>2 DEF State, DescOf, Current
  <2>4. kdesc'[k[2]] # kdesc[k[2]]
    BY <1>1, <2>3
  <2>5. Top(t).tag \in Ops
    BY <2>1, TopFacts DEF Inv, GoodFrame
  <2>6. Top(t).tag = KcasTag(Top(t).tag[2], Top(t).tag[3]) /\ Top(t).tag[3] = kdesc[Top(t).tag[2]].seq
    BY <2>2, <2>4, <2>5, OpFacts DEF Inv, Current
  <2>7. k = Top(t).tag
    BY <1>1, <2>2, <2>4, <2>6
  <2> QED BY <1>1, <1>3, <2>1, <2>2, <2>3, <2>4, <2>7
<1>4. CASE ~CallExecute(t) /\ ~Decide(t)
  <2>1. kdesc' = kdesc /\ past' = past
    BY <1>4, DescriptorsKept DEF Inv
  <2> QED BY <2>1 DEF State, DescOf, Current
<1> QED BY <1>2, <1>3, <1>4

LEMMA DecidesHeld ==
    ASSUME Inv, NEW t \in Threads, Decide(t), Top(t).newstate = "succeeded",
           NEW k, k = Top(t).tag, Undec(k), NEW j \in DOMAIN EntriesOf(k)
    PROVE  k \in Ops /\ Holds(k, j)
<1>1. pc[t] = "decide" /\ Busy(t)
  BY DEF Decide, Inv, ControlOK, Control
<1>2. Top(t) \in Frames /\ GoodFrame(Top(t), "decide")
  BY <1>1, TopFacts DEF Inv
<1>3. /\ k \in Ops /\ Top(t).entries = EntriesOf(k) /\ Top(t).i > Len(EntriesOf(k)) /\ Top(t).i \in Nat
      /\ HeldBefore(k, Top(t).i) /\ EntriesOf(k) \in Seq(Entries)
  BY <1>2 DEF GoodFrame, Frames
<1>4. j < Top(t).i
  BY <1>3
<1> QED BY <1>3, <1>4 DEF HeldBefore

LEMMA RdescOKStep ==
    ASSUME Inv, SeqsFit, NEW t \in Threads, Step(t), OpsKept, TagsKept
    PROVE  RdescOK'
<1> SUFFICES ASSUME NEW u \in Threads, rdesc'[u].seq >= 1 PROVE DescOK(rdesc[u])'
  BY DEF RdescOK
<1>1. PICK d : d = rdesc'[u]
  OBVIOUS
<1>2. CASE PrepareRdcss(t) /\ u = t
  <2>1. DescOK(d)
    BY <1>1, <1>2, PrepareFacts
  <2>2. DescOK(d)'
    BY <2>1, DescKept DEF Inv
  <2> QED BY <1>1, <2>2
<1>3. CASE ~PrepareRdcss(t) \/ u # t
  <2>1. d = rdesc[u]
    BY <1>1, <1>3, RdescFacts
  <2>2. DescOK(d)
    BY <1>1, <2>1 DEF Inv, RdescOK
  <2>3. DescOK(d)'
    BY <2>2, DescKept DEF Inv
  <2> QED BY <1>1, <2>3
<1> QED BY <1>2, <1>3

\* A tag read from memory: its owner is at work on it, so it is not the reader's own.
LEMMA TagRead ==
    ASSUME Inv, NEW a \in Addrs
    PROVE  /\ isRdcss(mem[a]) => LET u == mem[a][2]
                                 IN  /\ mem[a] \in Rds /\ u \in Threads /\ mem[a] = MyRdcss(u)
                                     /\ OwnRdcss(u) /\ rdesc[u].addr = a /\ helped[u].tag = mem[a]
           /\ isKcas(mem[a]) => mem[a] \in Ops /\ First(mem[a])
<1>1. ASSUME isRdcss(mem[a])
      PROVE  LET u == mem[a][2]
             IN  /\ mem[a] \in Rds /\ u \in Threads /\ mem[a] = MyRdcss(u)
                 /\ OwnRdcss(u) /\ rdesc[u].addr = a /\ helped[u].tag = mem[a]
  BY <1>1 DEF Inv, MemOK, OwnRdcss, Rds
<1>2. ASSUME isKcas(mem[a]) PROVE mem[a] \in Ops /\ First(mem[a])
  BY <1>2 DEF Inv, MemOK
<1> QED BY <1>1, <1>2

LEMMA WordOKStep ==
    ASSUME Inv, SeqsFit, NEW t \in Threads, Step(t), OpsKept, TagsKept, Others(t)
    PROVE  WordOK'
<1> SUFFICES ASSUME NEW u \in Threads
             PROVE  /\ pc'[u] = "snapRdcss" => word'[u] \in Rds' /\ word'[u][2] # u
                    /\ pc'[u] = "snapKcas" => word'[u] \in Ops' /\ First(word[u])'
  BY DEF WordOK
<1>1. PICK w : w = word'[u]
  OBVIOUS
<1>2. /\ pc'[u] = "snapRdcss" => w \in Rds /\ w[2] # u
      /\ pc'[u] = "snapKcas" => w \in Ops /\ First(w)
  <2>1. CASE u # t
    BY <1>1, <2>1 DEF Others, Inv, WordOK
  <2>2. CASE u = t /\ pc'[t] \in {"snapRdcss", "snapKcas"}
    <3>1. PICK a \in Addrs : /\ word'[t] = mem[a]
                             /\ pc'[t] = "snapRdcss" => isRdcss(mem[a])
                             /\ pc'[t] = "snapKcas" => isKcas(mem[a])
      BY <2>2, WordFacts
    <3>2. pc[t] \in {"read", "install"}
      BY <2>2, WordFacts
    <3>3. ~OwnRdcss(t)
      BY <3>2 DEF OwnRdcss, HelpsRdcss
    <3> QED BY <1>1, <2>2, <3>1, <3>3, TagRead
  <2>3. CASE u = t /\ pc'[t] \notin {"snapRdcss", "snapKcas"}
    BY <2>3
  <2> QED BY <2>1, <2>2, <2>3
<1>3. w \in Rds => w \in Rds'
  BY RdescFacts
<1>4. w \in Ops /\ First(w) => w \in Ops' /\ First(w)'
  BY UndecKept, FirstKept DEF Inv
<1> QED BY <1>1, <1>2, <1>3, <1>4

\* While v has not installed its RDCSS nobody can learn of its tag.
LEMMA FreshKept ==
    ASSUME Inv, NEW t \in Threads, Step(t), Others(t),
           NEW v \in Threads, Prepared(v), ~OwnRdcss(v), v = t => ~OwnRdcss(v)',
           NEW w, w = MyRdcss(v), NEW u \in Threads
    PROVE  /\ pc'[u] = "snapRdcss" => word'[u] # w
           /\ HelpsRdcss(u)' => helped'[u].tag # w
<1>1. /\ pc[u] = "snapRdcss" => word[u] # w
      /\ HelpsRdcss(u) => helped[u].tag # w
  BY DEF Inv, PreparedOK
<1>2. w[2] = v
  BY DEF MyRdcss, RdcssTag
<1>3. CASE u # t
  BY <1>1, <1>3 DEF Others, HelpsRdcss
<1>4. CASE u = t
  <2>1. ASSUME pc'[t] = "snapRdcss" PROVE word'[t] # w
    <3>1. PICK a \in Addrs : word'[t] = mem[a] /\ isRdcss(mem[a])
      BY <2>1, WordFacts
    <3>2. OwnRdcss(mem[a][2])
      BY <3>1, TagRead
    <3> QED BY <3>1, <3>2, <1>2
  <2>2. ASSUME HelpsRdcss(t)' PROVE helped'[t].tag # w
    <3>1. CASE helped'[t] = [tag |-> MyRdcss(t), desc |-> rdesc[t], undecided |-> FALSE]
      <4>1. helped'[t].tag[2] = t
        BY <3>1 DEF MyRdcss, RdcssTag
      <4>2. v = t => FALSE
        BY <2>2, <4>1 DEF OwnRdcss
      <4> QED BY <4>1, <4>2, <1>2
    <3>2. CASE pc[t] = "snapRdcss" /\ helped'[t].tag = word[t]
      BY <3>2, <1>1, <1>4
    <3>3. CASE pc[t] = "rdcssState" /\ helped'[t].tag = helped[t].tag
      BY <3>3, <1>1, <1>4 DEF HelpsRdcss
    <3>4. \/ helped'[t] = [tag |-> MyRdcss(t), desc |-> rdesc[t], undecided |-> FALSE]
          \/ /\ helped'[t] = [tag |-> word[t], desc |-> rdesc[word[t][2]], undecided |-> FALSE]
             /\ pc[t] = "snapRdcss"
          \/ pc[t] = "rdcssState" /\ helped'[t].tag = helped[t].tag
      BY <2>2, HelpedFacts
    <3>5. helped'[t] = [tag |-> word[t], desc |-> rdesc[word[t][2]], undecided |-> FALSE] =>
              helped'[t].tag = word[t]
      OBVIOUS
    <3> QED BY <3>1, <3>2, <3>3, <3>4, <3>5
  <2> QED BY <1>4, <2>1, <2>2
<1> QED BY <1>3, <1>4

\* Unless it prepares a new RDCSS, t stays at the entry that its RDCSS is for.
LEMMA StaysPrepared ==
    ASSUME Inv, NEW t \in Threads, Step(t), Others(t), ~PrepareRdcss(t), Prepared(t)'
    PROVE  /\ Prepared(t) /\ frames' = frames /\ rdesc' = rdesc
           /\ ~OwnRdcss(t)' => ~OwnRdcss(t)
<1>1. pc'[t] \in {"install", "snapRdcss", "rdcssState", "rdcssSet"} /\ Busy(t)'
  BY DEF Prepared
<1>2. pc[t] = "read" => ~Busy(t)
  BY DEF Inv, ControlOK, Control
<1>3. CASE CallRead(t) \/ CallExecute(t) \/ Return(t) \/ Decide(t)
  BY <1>1, <1>3, GotoFacts DEF CallRead, CallExecute, Return, Decide, Inv
<1>4. CASE Read(t)
  BY <1>1, <1>2, <1>4 DEF Read, Busy
<1>5. CASE HelpOther(t)
  BY <1>1, <1>5 DEF HelpOther, Resume, Inv, Types, Goto
<1>6. CASE HelpReadsState(t) \/ Phase2(t)
  BY <1>1, <1>6 DEF HelpReadsState, Phase2, HelpReturns, Resume, Inv, Types, Goto
<1>7. CASE Release(t)
  BY <1>1, <1>7 DEF Release, HelpReturns, Resume, Inv, Types, Goto
<1>8. CASE InstallRdcss(t)
  <2>1. pc[t] = "install" /\ Busy(t) /\ rdesc' = rdesc
    BY <1>8 DEF InstallRdcss, Inv, ControlOK, Control
  <2>2. frames' = frames
    BY <1>1, <1>8 DEF InstallRdcss, NextEntry, Inv, Types, Goto
  <2> QED BY <2>1, <2>2 DEF Prepared, OwnRdcss, HelpsRdcss
<1>9. CASE RdcssHelpOther(t)
  BY <1>1, <1>9 DEF RdcssHelpOther, Prepared, Busy, OwnRdcss, HelpsRdcss
<1>10. CASE RdcssReadsState(t)
  <2>1. pc[t] = "rdcssState" /\ frames' = frames /\ rdesc' = rdesc /\ pc'[t] = "rdcssSet"
    BY <1>10, GotoFacts DEF RdcssReadsState, Inv
  <2>2. HelpsRdcss(t)'
    BY <2>1 DEF HelpsRdcss
  <2>3. helped'[t].tag = helped[t].tag
    BY <2>1, <2>2, HelpedFacts
  <2> QED BY <1>1, <2>1, <2>3 DEF Prepared, Busy, OwnRdcss, HelpsRdcss
<1>11. CASE RdcssSets(t)
  <2>1. pc[t] = "rdcssSet" /\ rdesc' = rdesc
    BY <1>11 DEF RdcssSets
  <2>2. CASE helped[t].tag[2] = t
    BY <1>1, <1>11, <2>2 DEF RdcssSets, NextEntry, Inv, Types, Goto
  <2>3. CASE helped[t].tag[2] # t
    <3>1. frames' = frames
      BY <1>11, <2>3 DEF RdcssSets
    <3> QED BY <1>1, <2>1, <2>3, <3>1 DEF Prepared, Busy, OwnRdcss
  <2> QED BY <2>2, <2>3
<1> QED BY <1>3, <1>4, <1>5, <1>6, <1>7, <1>8, <1>9, <1>10, <1>11 DEF Step, Work

LEMMA PreparedOKStep ==
    ASSUME Inv, SeqsFit, NEW t \in Threads, Step(t), Others(t)
    PROVE  PreparedOK'
<1> DEFINE Good(v) ==
               /\ rdesc[v].seq >= 1
               /\ rdesc[v].tag = Top(v).tag /\ rdesc[v].addr = Entry(v)[1] /\ rdesc[v].old2 = Entry(v)[2]
               /\ ~OwnRdcss(v) => \A u \in Threads :
                     /\ pc[u] = "snapRdcss" => word[u] # MyRdcss(v)
                     /\ HelpsRdcss(u) => helped[u].tag # MyRdcss(v)
<1> SUFFICES ASSUME NEW v \in Threads, Prepared(v)' PROVE Good(v)'
  BY DEF PreparedOK
<1>1. CASE v # t \/ ~PrepareRdcss(t)
  <2>1. /\ Prepared(v) /\ frames'[v] = frames[v] /\ rdesc'[v] = rdesc[v]
        /\ ~OwnRdcss(v)' => ~OwnRdcss(v)
    <3>1. CASE v # t
      BY <3>1 DEF Others, Prepared, Busy, OwnRdcss, HelpsRdcss
    <3>2. CASE v = t
      BY <1>1, <3>2, StaysPrepared
    <3> QED BY <3>1, <3>2
  <2>2. Good(v)
    BY <2>1 DEF Inv, PreparedOK
  <2>3. PICK w : w = MyRdcss(v)
    OBVIOUS
  <2>4. w = MyRdcss(v)'
    BY <2>1, <2>3 DEF MyRdcss
  <2>5. ASSUME ~OwnRdcss(v)', NEW u \in Threads
        PROVE  /\ pc'[u] = "snapRdcss" => word'[u] # w
               /\ HelpsRdcss(u)' => helped'[u].tag # w
    BY <2>1, <2>3, <2>5, FreshKept
  <2>6. /\ rdesc'[v].seq >= 1
        /\ rdesc'[v].tag = Top(v)'.tag /\ rdesc'[v].addr = Entry(v)'[1] /\ rdesc'[v].old2 = Entry(v)'[2]
    BY <2>1, <2>2 DEF Top, Entry
  <2> QED BY <2>4, <2>5, <2>6
<1>2. CASE v = t /\ PrepareRdcss(t)
  <2>1. PICK d : d = rdesc'[t]
    OBVIOUS
  <2>2. /\ d.tag = Top(t).tag /\ d.addr = Entry(t)[1] /\ d.old2 = Entry(t)[2]
        /\ pc'[t] = "install" /\ frames' = frames
    BY <1>2, <2>1, PrepareFacts
  <2>3. d.seq = rdesc[t].seq + 1 /\ rdesc[t].seq \in Nat
    BY <1>2, <2>1, RdescFacts
  <2>4. \A x \in Rds : x # RdcssTag(t, d.seq)
    BY <2>3 DEF Rds, RdcssTag
  <2>5. ASSUME NEW u \in Threads \ {t}
        PROVE  /\ pc'[u] = "snapRdcss" => word'[u] # RdcssTag(t, d.seq)
               /\ HelpsRdcss(u)' => helped'[u].tag # RdcssTag(t, d.seq)
    <3>1. pc'[u] = pc[u] /\ word'[u] = word[u] /\ helped'[u] = helped[u]
      BY DEF Others
    <3>2. pc[u] = "snapRdcss" => word[u] \in Rds
      BY DEF Inv, WordOK
    <3>3. HelpsRdcss(u) => helped[u].tag \in Rds
      BY DEF Inv, HelpedOK
    <3> QED BY <3>1, <3>2, <3>3, <2>4 DEF HelpsRdcss
  <2>6. MyRdcss(t)' = RdcssTag(t, d.seq)
    BY <2>1 DEF MyRdcss
  <2>7. ~HelpsRdcss(t)' /\ pc'[t] # "snapRdcss"
    BY <2>2 DEF HelpsRdcss
  <2>8. /\ rdesc'[t].seq >= 1
        /\ rdesc'[t].tag = Top(t)'.tag /\ rdesc'[t].addr = Entry(t)'[1] /\ rdesc'[t].old2 = Entry(t)'[2]
    BY <2>1, <2>2, <2>3 DEF Top, Entry
  <2> QED BY <1>2, <2>5, <2>6, <2>7, <2>8
<1> QED BY <1>1, <1>2

\* HelpedOK and MemOK for one thread and one address.
GoodHelp(t, h, l) ==
    LET u == h.tag[2]
        k == h.desc.tag
    IN  /\ h.tag \in Rds /\ DescOK(h.desc)
        /\ h.tag[3] = rdesc[u].seq => h.desc = rdesc[u]
        /\ u = t => /\ Busy(t) /\ h.tag = MyRdcss(t)
                    /\ Undec(k) => mem[h.desc.addr] \in {h.tag, k}
        /\ l = "rdcssSet" /\ ~h.undecided => ~Undec(k)
        /\ l = "rdcssSet" /\ h.undecided /\ mem[h.desc.addr] = h.tag => State(k) # "succeeded"

LEMMA HelpedOKIs ==
    /\ HelpedOK <=> \A t \in Threads : HelpsRdcss(t) => GoodHelp(t, helped[t], pc[t])
    /\ HelpedOK' <=> \A t \in Threads : HelpsRdcss(t)' => GoodHelp(t, helped[t], pc[t])'
  BY DEF HelpedOK, GoodHelp

LEMMA DescAddr ==
    ASSUME Inv, NEW d, DescOK(d)
    PROVE  d.tag \in Ops /\ d.addr \in Addrs /\ isKcas(d.tag)
           /\ \E j \in DOMAIN EntriesOf(d.tag) : d.addr = AddrOf(d.tag, j) /\ d.old2 = EntriesOf(d.tag)[j][2]
  BY OpFacts DEF Inv, DescOK

\* An RDCSS tag leaves memory when somebody executes it, and comes when its owner installs it.
LEMMA RdcssMem ==
    ASSUME Inv, NEW t \in Threads, Step(t), NEW a \in Addrs, mem'[a] # mem[a]
    PROVE  /\ isRdcss(mem'[a]) => /\ InstallRdcss(t) /\ rdesc[t].addr = a /\ mem'[a] = MyRdcss(t)
                                  /\ mem[a] = Value(rdesc[t].old2) /\ pc[t] = "install"
           /\ isRdcss(mem[a]) => /\ RdcssSets(t) /\ helped[t].tag = mem[a] /\ helped[t].desc.addr = a
                                 /\ mem'[a] = IF helped[t].undecided THEN helped[t].desc.tag
                                              ELSE Value(helped[t].desc.old2)
<1>1. mem \in [Addrs -> Words \ {NoWord}]
  BY DEF Inv, Types
<1>2. CASE InstallRdcss(t) /\ rdesc[t].addr \in Addrs
              /\ mem' = [mem EXCEPT ![rdesc[t].addr] = mem'[rdesc[t].addr]]
              /\ mem[rdesc[t].addr] = Value(rdesc[t].old2) /\ mem'[rdesc[t].addr] = MyRdcss(t)
  <2>1. rdesc[t].addr = a
    BY <1>1, <1>2
  <2> QED BY <1>2, <2>1 DEF isRdcss, Value, InstallRdcss
<1>3. CASE LET h == helped[t]
           IN  RdcssSets(t) /\ h.desc.addr \in Addrs
                  /\ mem' = [mem EXCEPT ![h.desc.addr] = mem'[h.desc.addr]]
                  /\ mem[h.desc.addr] = h.tag
                  /\ mem'[h.desc.addr] = IF h.undecided THEN h.desc.tag ELSE Value(h.desc.old2)
  <2>1. helped[t].desc.addr = a
    BY <1>1, <1>3
  <2>2. DescOK(helped[t].desc)
    BY <1>3 DEF RdcssSets, HelpsRdcss, Inv, HelpedOK
  <2>3. ~isRdcss(mem'[a])
    BY <1>3, <2>1, <2>2, DescAddr DEF isRdcss, isKcas, Value
  <2> QED BY <1>3, <2>1, <2>3
<1>4. CASE LET b == Entry(t)[1]
           IN  Release(t) /\ b \in Addrs /\ mem' = [mem EXCEPT ![b] = mem'[b]]
                  /\ mem[b] = Top(t).tag
                  /\ mem'[b] = Value(IF Top(t).newstate = "succeeded" THEN Entry(t)[3] ELSE Entry(t)[2])
  <2>1. Entry(t)[1] = a
    BY <1>1, <1>4
  <2>2. pc[t] = "release" /\ Busy(t)
    BY <1>4 DEF Release, Inv, ControlOK, Control
  <2>3. Top(t).tag \in Ops
    BY <2>2, TopFacts DEF Inv, GoodFrame
  <2>4. isKcas(mem[a])
    BY <1>4, <2>1, <2>3, OpFacts DEF Inv
  <2> QED BY <1>4, <2>1, <2>4 DEF isRdcss, isKcas, Value
<1> QED BY <1>2, <1>3, <1>4, MemFacts

\* What the other threads know stays true.
LEMMA HelpKept ==
    ASSUME Inv, SeqsFit, NEW t \in Threads, Step(t), OpsKept, TagsKept, Others(t),
           NEW u \in Threads, u # t \/ RdcssReadsState(t), HelpsRdcss(u),
           NEW h, h = helped[u], NEW l, l = pc[u]
    PROVE  GoodHelp(u, h, l)'
<1> DEFINE o == h.tag[2]
           k == h.desc.tag
<1>1. GoodHelp(u, h, l)
  BY HelpedOKIs DEF Inv
<1>2. /\ h.tag \in Rds /\ DescOK(h.desc) /\ h.tag \in Rds' /\ k \in Ops /\ h.desc.addr \in Addrs
      /\ o \in Threads /\ h.tag[3] \in Nat /\ h.tag[3] <= rdesc[o].seq /\ isRdcss(h.tag) /\ isKcas(k)
  <2>1. h.tag \in Rds /\ DescOK(h.desc)
    BY <1>1 DEF GoodHelp
  <2>2. o \in Threads /\ h.tag[3] \in Nat /\ h.tag[3] <= rdesc[o].seq /\ isRdcss(h.tag)
    BY <2>1 DEF Rds, isRdcss
  <2> QED BY <2>1, <2>2, DescAddr, RdescFacts
<1>3. DescOK(h.desc)'
  <2>1. PICK d : d = h.desc
    OBVIOUS
  <2>2. DescOK(d)'
    BY <1>2, <2>1, DescKept DEF Inv
  <2> QED BY <2>1, <2>2
<1>4. h.tag[3] = rdesc'[o].seq => h.desc = rdesc'[o]
  <2>1. h.tag[3] = rdesc[o].seq => h.desc = rdesc[o]
    BY <1>1 DEF GoodHelp
  <2>2. CASE PrepareRdcss(t) /\ o = t
    <3>1. rdesc'[o].seq = rdesc[o].seq + 1 /\ rdesc[o].seq \in Nat
      BY <2>2, RdescFacts
    <3> QED BY <3>1, <1>2
  <2>3. CASE ~(PrepareRdcss(t) /\ o = t)
    <3>1. rdesc'[o] = rdesc[o]
      BY <2>3, <1>2, RdescFacts
    <3> QED BY <2>1, <3>1
  <2> QED BY <2>2, <2>3
<1>5. ASSUME o = u
      PROVE  Busy(u)' /\ h.tag = MyRdcss(u)' /\ (Undec(k)' => mem'[h.desc.addr] \in {h.tag, k})
  <2>1. Busy(u) /\ h.tag = MyRdcss(u) /\ (Undec(k) => mem[h.desc.addr] \in {h.tag, k})
    BY <1>1, <1>5 DEF GoodHelp
  <2>2. Busy(u)' /\ rdesc'[u] = rdesc[u]
    BY <2>1 DEF Others, Busy, RdcssReadsState
  <2>3. ASSUME Undec(k)' PROVE mem'[h.desc.addr] \in {h.tag, k}
    <3>1. Undec(k)
      BY <1>2, <2>3, UndecKept
    <3>2. CASE mem[h.desc.addr] = k
      BY <1>2, <3>1, <3>2 DEF TagsKept
    <3>3. CASE mem[h.desc.addr] = h.tag /\ mem'[h.desc.addr] # mem[h.desc.addr]
      <4>1. /\ RdcssSets(t) /\ helped[t].tag = h.tag
            /\ mem'[h.desc.addr] = IF helped[t].undecided THEN helped[t].desc.tag
                                              ELSE Value(helped[t].desc.old2)
        BY <1>2, <3>3, RdcssMem
      <4>2. HelpsRdcss(t) /\ pc[t] = "rdcssSet"
        BY <4>1 DEF RdcssSets, HelpsRdcss
      <4>3. GoodHelp(t, helped[t], pc[t])
        BY <4>2, HelpedOKIs DEF Inv
      <4>4. h.tag[3] = rdesc[u].seq /\ h.tag[2] = u
        BY <2>1 DEF MyRdcss, RdcssTag
      <4>5. helped[t].desc = rdesc[u] /\ h.desc = rdesc[u]
        BY <4>1, <4>3, <4>4, <1>1 DEF GoodHelp
      <4>6. ~helped[t].undecided => ~Undec(helped[t].desc.tag)
        BY <4>2, <4>3 DEF GoodHelp
      <4>7. helped[t].undecided
        BY <3>1, <4>5, <4>6
      <4> QED BY <4>1, <4>5, <4>7
    <3> QED BY <2>1, <3>1, <3>2, <3>3
  <2> QED BY <2>1, <2>2, <2>3 DEF MyRdcss
<1>6. l = "rdcssSet" /\ ~h.undecided => ~Undec(k)'
  <2>1. l = "rdcssSet" /\ ~h.undecided => ~Undec(k)
    BY <1>1 DEF GoodHelp
  <2> QED BY <2>1, <1>2, UndecKept
<1>7. ASSUME l = "rdcssSet", h.undecided, mem'[h.desc.addr] = h.tag PROVE State(k)' # "succeeded"
  <2>1. mem[h.desc.addr] = h.tag
    <3> SUFFICES ASSUME mem[h.desc.addr] # h.tag PROVE FALSE
      OBVIOUS
    <3>1. InstallRdcss(t) /\ h.tag = MyRdcss(t) /\ pc[t] = "install"
      BY <1>2, <1>7, RdcssMem
    <3>2. Prepared(t) /\ ~OwnRdcss(t)
      BY <3>1 DEF Inv, ControlOK, Control, Prepared, OwnRdcss, HelpsRdcss
    <3> QED BY <3>1, <3>2 DEF Inv, PreparedOK
  <2>2. State(k) # "succeeded"
    BY <2>1, <1>7, <1>1 DEF GoodHelp
  <2>3. CASE State(k)' # State(k) /\ State(k)' = "succeeded"
    <3>1. Decide(t) /\ k = Top(t).tag /\ Undec(k) /\ Top(t).newstate = "succeeded"
      BY <1>2, <2>3, StateFacts
    <3>2. PICK j \in DOMAIN EntriesOf(k) : h.desc.addr = AddrOf(k, j)
      BY <1>2, DescAddr
    <3>3. Holds(k, j)
      BY <3>1, <3>2, DecidesHeld
    <3>4. mem[h.desc.addr] = k
      BY <3>2, <3>3 DEF Holds
    <3> QED BY <2>1, <3>4, <1>2 DEF isRdcss, isKcas
  <2> QED BY <2>2, <2>3
<1>8. o = u => /\ Busy(u)' /\ h.tag = MyRdcss(u)'
               /\ Undec(k)' => mem'[h.desc.addr] \in {h.tag, k}
  BY <1>5
<1>9. l = "rdcssSet" /\ h.undecided /\ mem'[h.desc.addr] = h.tag => State(k)' # "succeeded"
  BY <1>7
<1> QED BY <1>2, <1>3, <1>4, <1>6, <1>8, <1>9 DEF GoodHelp

LEMMA HelpedOKStep ==
    ASSUME Inv, SeqsFit, NEW t \in Threads, Step(t), OpsKept, TagsKept, Others(t)
    PROVE  HelpedOK'
<1> SUFFICES ASSUME NEW u \in Threads, HelpsRdcss(u)' PROVE GoodHelp(u, helped[u], pc[u])'
  BY HelpedOKIs
<1>1. PICK g : g = helped'[u]
  OBVIOUS
<1>2. PICK m : m = pc'[u]
  OBVIOUS
<1> SUFFICES GoodHelp(u, g, m)'
  BY <1>1, <1>2
<1>3. CASE u # t
  <2>1. HelpsRdcss(u) /\ g = helped[u] /\ m = pc[u]
    BY <1>1, <1>2, <1>3 DEF Others, HelpsRdcss
  <2> QED BY <1>3, <2>1, HelpKept
<1>4. CASE /\ u = t /\ InstallRdcss(t) /\ mem[rdesc[t].addr] = Value(rdesc[t].old2)
           /\ helped'[t] = [tag |-> MyRdcss(t), desc |-> rdesc[t], undecided |-> FALSE]
           /\ pc[t] = "install" /\ pc'[t] = "rdcssState" /\ frames' = frames
  <2>1. Prepared(t) /\ Busy(t)
    BY <1>4 DEF Inv, ControlOK, Control, Prepared
  <2>2. PICK d : d = rdesc[t]
    OBVIOUS
  <2>3. g.tag = MyRdcss(t) /\ g.desc = d /\ m = "rdcssState"
    BY <1>1, <1>2, <1>4, <2>2
  <2>4. rdesc' = rdesc
    BY <1>4 DEF InstallRdcss
  <2>5. rdesc[t].seq >= 1 /\ rdesc[t].seq \in Nat /\ rdesc[t].seq + 1 < SeqLimit /\ SeqLimit \in Nat
    BY <2>1, PreparedFacts, KcasAssumption DEF Inv, Types, RDescs, SeqsFit
  <2>6. MyRdcss(t) \in Rds /\ MyRdcss(t)[2] = t
    BY <2>5 DEF MyRdcss, RdcssTag, Rds
  <2>7. MyRdcss(t) \in Rds'
    BY <2>6, RdescFacts
  <2>8. DescOK(d)
    BY <2>2, <2>5 DEF Inv, RdescOK
  <2>9. DescOK(d)' /\ d.addr \in Addrs
    BY <2>8, DescKept, DescAddr DEF Inv
  <2>10. MyRdcss(t)' = MyRdcss(t)
    BY <2>4 DEF MyRdcss
  <2>11. mem'[d.addr] = MyRdcss(t)
    BY <1>4, <2>2, <2>9 DEF InstallRdcss, CAS, SetMem, Inv, Types, MyRdcss
  <2>12. Busy(t)'
    BY <1>4, <2>1 DEF Busy
  <2> QED BY <1>4, <2>2, <2>3, <2>4, <2>6, <2>7, <2>9, <2>10, <2>11, <2>12 DEF GoodHelp
<1>5. CASE /\ u = t /\ RdcssHelpOther(t) /\ rdesc[word[t][2]].seq = word[t][3]
           /\ helped'[t] = [tag |-> word[t], desc |-> rdesc[word[t][2]], undecided |-> FALSE]
           /\ pc[t] = "snapRdcss" /\ pc'[t] = "rdcssState"
  <2>1. PICK w : w = word[t]
    OBVIOUS
  <2>2. PICK d : d = rdesc[w[2]]
    OBVIOUS
  <2>3. g.tag = w /\ g.desc = d /\ m = "rdcssState"
    BY <1>1, <1>2, <1>5, <2>1, <2>2
  <2>4. w \in Rds /\ w[2] # t
    BY <1>5, <2>1 DEF Inv, WordOK
  <2>5. w[2] \in Threads /\ d.seq >= 1 /\ w \in Rds'
    BY <1>5, <2>1, <2>2, <2>4, RdescFacts DEF Rds
  <2>6. DescOK(d)
    BY <2>2, <2>5 DEF Inv, RdescOK
  <2>7. DescOK(d)'
    BY <2>6, DescKept DEF Inv
  <2>8. rdesc' = rdesc
    BY <1>5 DEF RdcssHelpOther
  <2> QED BY <1>5, <2>2, <2>3, <2>4, <2>5, <2>7, <2>8 DEF GoodHelp
<1>6. CASE /\ u = t /\ RdcssReadsState(t)
           /\ helped'[t].tag = helped[t].tag /\ helped'[t].desc = helped[t].desc
           /\ helped'[t].undecided = (Current(helped[t].desc.tag) /\ StateOf(helped[t].desc.tag) = "undecided")
           /\ pc[t] = "rdcssState" /\ pc'[t] = "rdcssSet"
  <2>1. PICK h : h = helped[t]
    OBVIOUS
  <2>2. g.tag = h.tag /\ g.desc = h.desc /\ m = "rdcssSet"
        /\ g.undecided = (Current(h.desc.tag) /\ StateOf(h.desc.tag) = "undecided")
    BY <1>1, <1>2, <1>6, <2>1
  <2>3. HelpsRdcss(t)
    BY <1>6 DEF HelpsRdcss
  <2>4. PICK l : l = pc[t]
    OBVIOUS
  <2>5. GoodHelp(t, h, l)'
    BY <1>6, <2>1, <2>3, <2>4, HelpKept
  <2>6. GoodHelp(t, h, l)
    BY <2>1, <2>3, <2>4, HelpedOKIs DEF Inv
  <2>7. PICK k : k = h.desc.tag
    OBVIOUS
  <2>8. k \in Ops
    BY <2>6, <2>7, DescAddr DEF GoodHelp
  <2>9. kdesc' = kdesc /\ past' = past
    BY <1>6, DescriptorsKept DEF Step, RdcssReadsState, Decide, CallExecute, Called, Inv
  <2>10. Undec(k) <=> g.undecided
    <3>1. Undec(k) => Current(k)
      BY <2>8 DEF Inv, OpsOK
    <3> QED BY <2>2, <2>7, <3>1 DEF Undec, State, DescOf, StateOf
  <2>11. State(k)' = State(k) /\ (Undec(k)' <=> Undec(k))
    BY <2>9 DEF State, Undec, DescOf, Current
  <2>12. g.undecided => State(k)' # "succeeded"
    BY <2>10, <2>11 DEF Undec
  <2> QED BY <1>6, <2>2, <2>5, <2>7, <2>10, <2>11, <2>12 DEF GoodHelp
<1> QED BY <1>3, <1>4, <1>5, <1>6, HelpedFacts

LEMMA MemOKStep ==
    ASSUME Inv, SeqsFit, NEW t \in Threads, Step(t), OpsKept, TagsKept, Others(t)
    PROVE  MemOK'
<1> SUFFICES ASSUME NEW a \in Addrs, NEW w, w = mem'[a]
             PROVE  /\ isRdcss(w) => LET u == w[2]
                                     IN  /\ w = MyRdcss(u)' /\ w \in Rds' /\ rdesc'[u].addr = a
                                         /\ HelpsRdcss(u)' /\ helped'[u].tag = w
                    /\ isKcas(w) => /\ w \in Ops' /\ First(w)'
                                    /\ \E j \in DOMAIN (EntriesOf(w)') : AddrOf(w, j)' = a
  BY DEF MemOK
<1>1. CASE mem[a] = w
  <2>1. ASSUME isRdcss(w), NEW u, u = w[2]
        PROVE  /\ w = MyRdcss(u)' /\ w \in Rds' /\ rdesc'[u].addr = a
               /\ HelpsRdcss(u)' /\ helped'[u].tag = w
    <3>1. /\ w \in Rds /\ u \in Threads /\ w = MyRdcss(u) /\ OwnRdcss(u) /\ rdesc[u].addr = a
          /\ helped[u].tag = w /\ HelpsRdcss(u)
      BY <1>1, <2>1, TagRead DEF OwnRdcss
    <3>2. rdesc'[u] = rdesc[u]
      BY <3>1, RdescFacts DEF PrepareRdcss, HelpsRdcss
    <3>3. w = MyRdcss(u)' /\ w \in Rds' /\ rdesc'[u].addr = a
      BY <3>1, <3>2, RdescFacts DEF MyRdcss
    <3>4. HelpsRdcss(u)' /\ helped'[u].tag = w
      <4>1. CASE u # t
        BY <3>1, <4>1 DEF Others, HelpsRdcss
      <4>2. CASE u = t /\ RdcssReadsState(t)
        <5>1. HelpsRdcss(t)'
          BY <4>2, GotoFacts DEF RdcssReadsState, HelpsRdcss, Inv
        <5> QED BY <3>1, <4>2, <5>1, HelpedFacts DEF HelpsRdcss
      <4>3. CASE u = t /\ RdcssSets(t)
        <5>1. GoodHelp(t, helped[t], pc[t])
          BY <3>1, <4>3, HelpedOKIs DEF Inv
        <5>2. helped[t].desc = rdesc[t]
          BY <3>1, <4>3, <5>1 DEF GoodHelp, MyRdcss, RdcssTag
        <5>3. DescOK(helped[t].desc)
          BY <5>1 DEF GoodHelp
        <5>4. mem'[a] = IF helped[t].undecided THEN helped[t].desc.tag ELSE Value(helped[t].desc.old2)
          BY <1>1, <3>1, <4>3, <5>2 DEF RdcssSets, CAS, SetMem, Inv, Types
        <5>5. ~isRdcss(mem'[a])
          BY <5>3, <5>4, DescAddr DEF isRdcss, isKcas, Value
        <5> QED BY <2>1, <5>5
      <4>4. CASE u = t /\ ~RdcssReadsState(t) /\ ~RdcssSets(t)
        BY <3>1, <4>4 DEF HelpsRdcss, Step, Work, CallRead, CallExecute, Called, Read, Return, HelpOther,
              HelpReadsState, PrepareRdcss, InstallRdcss, RdcssHelpOther, Decide, Phase2, Release
      <4> QED BY <4>1, <4>2, <4>3, <4>4
    <3> QED BY <3>3, <3>4
  <2>2. ASSUME isKcas(w)
        PROVE  w \in Ops' /\ First(w)' /\ \E j \in DOMAIN (EntriesOf(w)') : AddrOf(w, j)' = a
    <3>1. w \in Ops /\ First(w) /\ \E j \in DOMAIN EntriesOf(w) : AddrOf(w, j) = a
      BY <1>1, <2>2 DEF Inv, MemOK
    <3>2. w \in Ops' /\ EntriesOf(w)' = EntriesOf(w) /\ First(w)'
      BY <3>1, UndecKept, FirstKept DEF Inv
    <3> QED BY <3>1, <3>2 DEF AddrOf
  <2> QED BY <2>1, <2>2
<1>2. CASE mem[a] # w /\ isRdcss(w)
  <2>1. InstallRdcss(t) /\ rdesc[t].addr = a /\ w = MyRdcss(t) /\ mem[a] = Value(rdesc[t].old2) /\ pc[t] = "install"
    BY <1>2, RdcssMem
  <2>2. Prepared(t) /\ Busy(t)
    BY <2>1 DEF Inv, ControlOK, Control, Prepared
  <2>3. Top(t).tag \in Ops
    BY <2>2, PreparedFacts
  <2>4. mem[a] # Top(t).tag /\ ~isRdcss(mem[a]) /\ ~isKcas(mem[a])
    BY <2>1, <2>3, OpFacts DEF Inv, isKcas, isRdcss, Value
  <2>5. /\ helped'[t] = [tag |-> MyRdcss(t), desc |-> rdesc[t], undecided |-> FALSE]
        /\ pc'[t] = "rdcssState" /\ rdesc' = rdesc
    BY <2>1, <2>4, GotoFacts DEF InstallRdcss, Inv, Types, MyRdcss
  <2>6. rdesc[t].seq >= 1 /\ rdesc[t].seq \in Nat /\ rdesc[t].seq + 1 < SeqLimit /\ SeqLimit \in Nat
    BY <2>2, PreparedFacts, KcasAssumption DEF Inv, Types, RDescs, SeqsFit
  <2>7. w \in Rds /\ w[2] = t
    BY <2>1, <2>6 DEF MyRdcss, RdcssTag, Rds
  <2>8. w \in Rds'
    BY <2>7, RdescFacts
  <2>9. ~isKcas(w)
    BY <1>2 DEF isKcas, isRdcss
  <2> QED BY <2>1, <2>5, <2>7, <2>8, <2>9 DEF MyRdcss, HelpsRdcss
<1>3. CASE mem[a] # w /\ isKcas(w)
  <2>1. /\ RdcssSets(t) /\ helped[t].desc.addr = a /\ helped[t].undecided /\ w = helped[t].desc.tag
    <3>1. mem' # mem
      BY <1>3
    <3>2. CASE /\ mem' = [mem EXCEPT ![rdesc[t].addr] = mem'[rdesc[t].addr]]
               /\ mem'[rdesc[t].addr] = MyRdcss(t)
      BY <1>3, <3>2 DEF Inv, Types, MyRdcss, RdcssTag, isKcas
    <3>3. CASE LET b == Entry(t)[1]
               IN  /\ mem' = [mem EXCEPT ![b] = mem'[b]]
                   /\ mem'[b] = Value(IF Top(t).newstate = "succeeded" THEN Entry(t)[3] ELSE Entry(t)[2])
      BY <1>3, <3>3 DEF Inv, Types, Value, isKcas
    <3>4. CASE LET h == helped[t]
               IN  RdcssSets(t) /\ h.desc.addr \in Addrs
                  /\ mem' = [mem EXCEPT ![h.desc.addr] = mem'[h.desc.addr]]
                  /\ mem'[h.desc.addr] = IF h.undecided THEN h.desc.tag ELSE Value(h.desc.old2)
      BY <1>3, <3>4 DEF Inv, Types, Value, isKcas
    <3> QED BY <3>1, <3>2, <3>3, <3>4, MemFacts
  <2>2. HelpsRdcss(t)
    BY <2>1 DEF RdcssSets, HelpsRdcss
  <2>3. PICK d : d = helped[t].desc
    OBVIOUS
  <2>4. DescOK(d)
    BY <2>2, <2>3 DEF Inv, HelpedOK
  <2>5. PICK j \in DOMAIN EntriesOf(w) : d.addr = AddrOf(w, j) /\ (j = 1 \/ First(w))
    BY <2>1, <2>3, <2>4 DEF DescOK
  <2>6. w \in Ops /\ w \in Ops' /\ EntriesOf(w)' = EntriesOf(w) /\ d.addr = a
    BY <2>1, <2>3, <2>4, UndecKept DEF DescOK
  <2>7. AddrOf(w, j)' = a
    BY <2>5, <2>6 DEF AddrOf
  <2>8. First(w)'
    <3>1. CASE j = 1
      BY <2>7, <3>1 DEF First, Holds
    <3>2. CASE First(w)
      BY <2>6, <3>2, FirstKept DEF Inv
    <3> QED BY <2>5, <3>1, <3>2
  <2>9. ~isRdcss(w)
    BY <1>3 DEF isKcas, isRdcss
  <2> QED BY <2>5, <2>6, <2>7, <2>8, <2>9
<1>4. CASE ~isRdcss(w) /\ ~isKcas(w)
  BY <1>4
<1> QED BY <1>1, <1>2, <1>3, <1>4

-----------------------------------------------------------------------------
LEMMA InvInit == Init => Inv
<1> SUFFICES ASSUME Init PROVE Inv
  OBVIOUS
<1>1. Types
  <2>1. mem \in [Addrs -> Words \ {NoWord}]
    BY KcasAssumption DEF Init, Words, Value, NoWord
  <2>2. kdesc \in [Threads -> KDescs] /\ past \in [Threads -> Seq(KDescs)]
    BY DEF Init, KDescs
  <2>3. rdesc \in [Threads -> RDescs]
    BY DEF Init, RDescs, NoRdcss
  <2>4. pc \in [Threads -> Labels] /\ request \in [Threads -> Requests \cup {NoRequest}]
        /\ answer \in [Threads -> Nat] /\ plan \in [Threads -> Seq(Requests)]
    BY KcasAssumption DEF Init, Labels
  <2>5. frames \in [Threads -> Seq(Frames)] /\ word \in [Threads -> Words]
    BY DEF Init, Words
  <2>6. helped \in [Threads -> [tag : Words, undecided : BOOLEAN, desc : RDescs]]
    <3>1. NoRdcss \in [tag : Words, undecided : BOOLEAN, desc : RDescs]
      BY DEF NoRdcss, Words, RDescs
    <3> QED BY <3>1 DEF Init
  <2> QED BY <2>1, <2>2, <2>3, <2>4, <2>5, <2>6 DEF Types
<1>2. Ops = {}
  BY DEF Ops, Init
<1>3. OpsOK
  BY <1>2 DEF OpsOK, Init
<1>4. ControlOK
  <2> SUFFICES ASSUME NEW t \in Threads PROVE Control(t)
    BY DEF ControlOK
  <2>1. /\ pc[t] = "idle" /\ request[t].kind = "none" /\ kdesc[t].seq = 0 /\ ~Busy(t)
    BY DEF Init, Busy, NoRequest
  <2>2. ~(kdesc[t].seq >= 1)
    BY <2>1
  <2> QED BY <2>1, <2>2 DEF Control
<1>5. FramesOK
  BY DEF FramesOK, Init
<1>6. RdescOK
  BY DEF RdescOK, Init, NoRdcss
<1>7. PreparedOK /\ WordOK /\ HelpedOK
  BY DEF PreparedOK, WordOK, HelpedOK, Prepared, HelpsRdcss, Busy, Init
<1>8. MemOK
  BY DEF MemOK, Init, Value, isRdcss, isKcas
<1> QED BY <1>1, <1>3, <1>4, <1>5, <1>6, <1>7, <1>8 DEF Inv

LEMMA InvStep == Inv /\ SeqsFit /\ [Next]_vars => Inv'
<1> SUFFICES ASSUME Inv, SeqsFit, [Next]_vars PROVE Inv'
  OBVIOUS
<1>1. ASSUME NEW t \in Threads, Step(t) PROVE Inv'
  <2>1. OpsKept /\ TagsKept /\ Others(t)
    BY <1>1, OpsKeptStep, TagsKeptStep, OthersStep DEF Inv
  <2>2. FramesOK' /\ Types'
    BY <1>1, <2>1, FramesOKStep, TypesStep
  <2>3. OpsOK'
    BY <1>1, <2>1, OpsOKStep
  <2>4. ControlOK'
    BY <1>1, <2>1, ControlOthers, ControlStep DEF ControlOK
  <2>5. RdescOK' /\ WordOK' /\ PreparedOK' /\ HelpedOK' /\ MemOK'
    BY <1>1, <2>1, RdescOKStep, WordOKStep, PreparedOKStep, HelpedOKStep, MemOKStep
  <2> QED BY <2>2, <2>3, <2>4, <2>5 DEF Inv
<1>2. ASSUME UNCHANGED vars PROVE Inv'
  <2> USE <1>2 DEF vars, Inv
  <2>1. Types'
    BY DEF Types
  <2>2. Ops' = Ops /\ Rds' = Rds
    BY DEF Ops, Rds
  <2> USE DEF EntriesOf, State, Undec, DescOf, Current, AddrOf, Holds
  <2>3. OpsOK'
    BY <2>2 DEF OpsOK
  <2>4. ControlOK'
    <3> SUFFICES ASSUME NEW t \in Threads PROVE Control(t)'
      BY DEF ControlOK
    <3>1. Control(t)
      BY DEF ControlOK
    <3>2. /\ pc'[t] = pc[t] /\ request'[t] = request[t] /\ frames'[t] = frames[t] /\ kdesc'[t] = kdesc[t]
      OBVIOUS
    <3> QED BY <3>1, <3>2, ZenonT(60) DEF Control, Busy
  <2>5. FramesOK'
    <3> SUFFICES ASSUME NEW t \in Threads, NEW p \in DOMAIN (frames'[t])
                 PROVE  GoodFrame(frames[t][p], At(t, p))'
      BY DEF FramesOK
    <3>1. PICK f : f = frames[t][p]
      OBVIOUS
    <3>2. PICK l : l = At(t, p)
      OBVIOUS
    <3>3. GoodFrame(f, l)
      BY <3>1, <3>2 DEF FramesOK
    <3>4. HeldBefore(f.tag, f.i)' <=> HeldBefore(f.tag, f.i)
      BY DEF HeldBefore
    <3>5. GoodFrame(f, l)'
      BY <2>2, <3>3, <3>4 DEF GoodFrame
    <3>6. f = frames'[t][p] /\ l = At(t, p)'
      BY <3>1, <3>2 DEF At
    <3> QED BY <3>5, <3>6
  <2>6. RdescOK'
    BY <2>2, ZenonT(60) DEF RdescOK, DescOK, First
  <2>7. PreparedOK'
    BY DEF PreparedOK, Prepared, Busy, OwnRdcss, HelpsRdcss, MyRdcss, Top, Entry
  <2>8. WordOK'
    BY <2>2 DEF WordOK, First
  <2>9. HelpedOK'
    <3> SUFFICES ASSUME NEW t \in Threads, HelpsRdcss(t)' PROVE GoodHelp(t, helped[t], pc[t])'
      BY HelpedOKIs
    <3>1. PICK h : h = helped[t]
      OBVIOUS
    <3>2. PICK l : l = pc[t]
      OBVIOUS
    <3>3. GoodHelp(t, h, l)
      BY <3>1, <3>2, HelpedOKIs DEF HelpsRdcss
    <3>4. DescOK(h.desc)' <=> DescOK(h.desc)
      BY <2>2 DEF DescOK, First
    <3>5. GoodHelp(t, h, l)'
      BY <2>2, <3>3, <3>4 DEF GoodHelp, Busy, MyRdcss
    <3>6. h = helped'[t] /\ l = pc'[t]
      BY <3>1, <3>2
    <3> QED BY <3>5, <3>6
  <2>10. MemOK'
    <3>1. \A k : EntriesOf(k)' = EntriesOf(k) /\ (First(k)' <=> First(k))
      BY DEF First
    <3>2. \A u : MyRdcss(u)' = MyRdcss(u) /\ (HelpsRdcss(u)' <=> HelpsRdcss(u))
      BY DEF MyRdcss, HelpsRdcss
    <3>3. mem' = mem /\ rdesc' = rdesc /\ helped' = helped
      OBVIOUS
    <3>4. \A k, j : AddrOf(k, j)' = AddrOf(k, j)
      BY <3>1
    <3>5. MemOK
      OBVIOUS
    <3> HIDE <1>2 DEF EntriesOf, State, Undec, DescOf, Current, AddrOf, Holds, vars, Inv
    <3> QED BY <2>2, <3>1, <3>2, <3>3, <3>4, <3>5 DEF MemOK
  <2> QED BY <2>1, <2>3, <2>4, <2>5, <2>6, <2>7, <2>8, <2>9, <2>10
<1> QED BY <1>1, <1>2 DEF Next, CallStep, WorkStep, Step

\* Every descriptor that a tag leads to is the one that the tag was made for, and a tag is in
\* memory only while its operation needs it (kcas.h:140-190, 317-367).
THEOREM TagsLead == Spec /\ []SeqsFit => []Inv
<1>1. Init => Inv
  BY InvInit
<1>2. Inv /\ SeqsFit /\ [Next]_vars => Inv'
  BY InvStep
<1> QED BY <1>1, <1>2, PTL DEF Spec

\* A KCAS is decided SUCCEEDED only while its tag is at every one of its addresses
\* (kcas.h:317-350).
THEOREM DecidedOnlyWhenHeld == Spec /\ []SeqsFit => SuccessHoldsAll
<1> DEFINE Held == \A t \in Threads :
          (kdesc[t].state = "undecided" /\ kdesc'[t].state = "succeeded")
          => \A i \in DOMAIN kdesc[t].entries :
                mem[kdesc[t].entries[i][1]] = KcasTag(t, kdesc[t].seq)
<1>1. Inv /\ SeqsFit /\ [Next]_vars => [Held]_vars
  <2> SUFFICES ASSUME Inv, SeqsFit, NEW t \in Threads, Step(t), NEW u \in Threads,
                      kdesc[u].state = "undecided", kdesc'[u].state = "succeeded",
                      NEW i \in DOMAIN kdesc[u].entries
               PROVE  mem[kdesc[u].entries[i][1]] = KcasTag(u, kdesc[u].seq)
    BY DEF Next, CallStep, WorkStep, Step
  <2>1. kdesc'[u] # kdesc[u]
    OBVIOUS
  <2>2. ~CallExecute(t)
    BY <2>1, ExecuteFacts DEF Inv, Step
  <2>3. Decide(t)
    BY <2>1, <2>2, DescriptorsKept DEF Inv
  <2>4. PICK k : k = Top(t).tag
    OBVIOUS
  <2>5. u = k[2] /\ Current(k) /\ StateOf(k) = "undecided" /\ Top(t).newstate = "succeeded"
    BY <2>1, <2>3, <2>4, DecideFacts DEF Inv, Step
  <2>6. Undec(k) /\ EntriesOf(k) = kdesc[u].entries
    BY <2>5 DEF Undec, State, EntriesOf, DescOf, StateOf
  <2>7. k \in Ops /\ Holds(k, i)
    BY <2>3, <2>4, <2>5, <2>6, DecidesHeld
  <2>8. k = KcasTag(u, kdesc[u].seq)
    BY <2>5, <2>7, OpFacts DEF Inv, Current
  <2> QED BY <2>6, <2>7, <2>8 DEF Holds, AddrOf
<1>2. Spec /\ []SeqsFit => []Inv
  BY TagsLead
<1> QED BY <1>1, <1>2, PTL DEF Spec, SuccessHoldsAll

-----------------------------------------------------------------------------
\* The refinement.  What the addresses hold for the callers changes at one instant only.
LEMMA ChooseEntry ==
    ASSUME NEW es, NEW j \in DOMAIN es, Distinct(es)
    PROVE  (CHOOSE e \in {es[i] : i \in DOMAIN es} : e[1] = es[j][1]) = es[j]
<1>1. es[j] \in {es[i] : i \in DOMAIN es}
  OBVIOUS
<1>2. \A e \in {es[i] : i \in DOMAIN es} : e[1] = es[j][1] => e = es[j]
  BY DEF Distinct
<1> QED BY <1>1, <1>2

LEMMA MeaningFacts ==
    ASSUME NEW w, NEW a
    PROVE  /\ w[1] = "value" => Meaning(w, a) = w[2] /\ Meaning(w, a)' = w[2]
           /\ isRdcss(w) => Meaning(w, a) = rdesc[w[2]].old2 /\ Meaning(w, a)' = rdesc'[w[2]].old2
           /\ \A v : Meaning(Value(v), a) = v /\ Meaning(Value(v), a)' = v
  BY DEF Meaning, isRdcss, isKcas, Value

LEMMA KcasMeaning ==
    ASSUME NEW w, isKcas(w), NEW es, Distinct(es), NEW j \in DOMAIN es, NEW a, a = es[j][1]
    PROVE  /\ EntriesOf(w) = es => Meaning(w, a) = IF State(w) = "succeeded" THEN es[j][3] ELSE es[j][2]
           /\ EntriesOf(w)' = es => Meaning(w, a)' = IF State(w)' = "succeeded" THEN es[j][3] ELSE es[j][2]
<1>1. PICK x : x = CHOOSE e \in {es[i] : i \in DOMAIN es} : e[1] = a
  OBVIOUS
<1>2. x = es[j]
  BY <1>1, ChooseEntry
<1>3. ASSUME EntriesOf(w) = es
      PROVE  Meaning(w, a) = IF State(w) = "succeeded" THEN es[j][3] ELSE es[j][2]
  <2>1. PICK d : d = DescOf(w)
    OBVIOUS
  <2>2. d.entries = es /\ State(w) = d.state
    BY <1>3, <2>1 DEF EntriesOf, State
  <2>3. x = CHOOSE e \in {d.entries[i] : i \in DOMAIN d.entries} : e[1] = a
    BY <1>1, <2>2
  <2>4. Meaning(w, a) = IF d.state = "succeeded" THEN x[3] ELSE x[2]
    BY <2>1, <2>3 DEF Meaning, isKcas, isRdcss
  <2> QED BY <2>2, <2>4, <1>2
<1>4. ASSUME EntriesOf(w)' = es
      PROVE  Meaning(w, a)' = IF State(w)' = "succeeded" THEN es[j][3] ELSE es[j][2]
  <2>1. PICK d : d = DescOf(w)'
    OBVIOUS
  <2>2. d.entries = es /\ State(w)' = d.state
    BY <1>4, <2>1 DEF EntriesOf, State
  <2>3. x = CHOOSE e \in {d.entries[i] : i \in DOMAIN d.entries} : e[1] = a
    BY <1>1, <2>2
  <2>4. Meaning(w, a)' = IF d.state = "succeeded" THEN x[3] ELSE x[2]
    BY <2>1, <2>3 DEF Meaning, isKcas, isRdcss
  <2> QED BY <2>2, <2>4, <1>2
<1> QED BY <1>3, <1>4

LEMMA WordKinds ==
    ASSUME Inv, NEW a \in Addrs
    PROVE  (mem[a][1] = "value" /\ mem[a] = Value(mem[a][2])) \/ isRdcss(mem[a]) \/ isKcas(mem[a])
  BY DEF Inv, Types, Words, isRdcss, isKcas, Value, NoWord

\* A step that replaces no word at a changes nothing there, unless it makes a KCAS succeed.
LEMMA SameWord ==
    ASSUME Inv, SeqsFit, NEW t \in Threads, Step(t), OpsKept, NEW a \in Addrs, NEW w,
           w = mem[a], w = mem'[a], isKcas(w) => State(w) = "succeeded" \/ State(w)' # "succeeded"
    PROVE  Meaning(w, a)' = Meaning(w, a)
<1>1. CASE w[1] = "value"
  BY <1>1, MeaningFacts
<1>2. CASE isRdcss(w)
  <2>1. w[2] \in Threads /\ OwnRdcss(w[2])
    BY <1>2, TagRead
  <2>2. rdesc'[w[2]] = rdesc[w[2]]
    BY <2>1, RdescFacts DEF PrepareRdcss, OwnRdcss, HelpsRdcss
  <2> QED BY <1>2, <2>2, MeaningFacts
<1>3. CASE isKcas(w)
  <2>1. PICK es : es = EntriesOf(w)
    OBVIOUS
  <2>2. w \in Ops /\ \E j \in DOMAIN es : AddrOf(w, j) = a
    BY <1>3, <2>1 DEF Inv, MemOK
  <2>3. PICK j \in DOMAIN es : a = es[j][1]
    BY <2>1, <2>2 DEF AddrOf
  <2>4. Distinct(es) /\ EntriesOf(w)' = es
    BY <2>1, <2>2, UndecKept DEF Inv, OpsOK
  <2>5. State(w)' = "succeeded" <=> State(w) = "succeeded"
    <3>1. State(w) = "succeeded" => State(w)' = State(w)
      BY <2>2, UndecKept DEF Undec
    <3>2. State(w)' = "succeeded" => State(w) = "succeeded"
      BY <1>3
    <3> QED BY <3>1, <3>2
  <2> QED BY <1>3, <2>1, <2>3, <2>4, <2>5, KcasMeaning
<1> QED BY <1>1, <1>2, <1>3, WordKinds

\* Neither do the steps that replace a word.
LEMMA OtherWord ==
    ASSUME Inv, SeqsFit, NEW t \in Threads, Step(t), OpsKept, NEW a \in Addrs, NEW w, NEW v,
           w = mem[a], v = mem'[a], w # v
    PROVE  Meaning(v, a)' = Meaning(w, a)
<1>1. CASE isRdcss(v)
  <2>1. InstallRdcss(t) /\ rdesc[t].addr = a /\ v = MyRdcss(t) /\ w = Value(rdesc[t].old2)
    BY <1>1, RdcssMem
  <2>2. v[2] = t /\ rdesc' = rdesc
    BY <2>1 DEF MyRdcss, RdcssTag, InstallRdcss
  <2>3. Meaning(v, a)' = rdesc[t].old2
    BY <1>1, <2>2, MeaningFacts
  <2>4. Meaning(w, a) = rdesc[t].old2
    BY <2>1, MeaningFacts
  <2> QED BY <2>3, <2>4
<1>2. CASE isRdcss(w)
  <2>1. /\ RdcssSets(t) /\ helped[t].tag = w /\ helped[t].desc.addr = a
        /\ v = IF helped[t].undecided THEN helped[t].desc.tag ELSE Value(helped[t].desc.old2)
    BY <1>2, RdcssMem
  <2>2. HelpsRdcss(t) /\ pc[t] = "rdcssSet"
    BY <2>1 DEF RdcssSets, HelpsRdcss
  <2>3. GoodHelp(t, helped[t], pc[t])
    BY <2>2, HelpedOKIs DEF Inv
  <2>4. w = MyRdcss(w[2])
    BY <1>2, TagRead
  <2>5. w[3] = rdesc[w[2]].seq
    BY <2>4 DEF MyRdcss, RdcssTag
  <2>6. helped[t].desc = rdesc[w[2]]
    BY <2>1, <2>3, <2>5 DEF GoodHelp
  <2>7. Meaning(w, a) = helped[t].desc.old2
    BY <1>2, <2>6, MeaningFacts
  <2>8. CASE ~helped[t].undecided
    BY <2>1, <2>7, <2>8, MeaningFacts
  <2>9. CASE helped[t].undecided
    <3>1. DescOK(helped[t].desc) /\ v = helped[t].desc.tag
      BY <2>1, <2>3, <2>9 DEF GoodHelp
    <3>2. PICK es : es = EntriesOf(v)
      OBVIOUS
    <3>3. /\ v \in Ops /\ isKcas(v)
          /\ \E j \in DOMAIN EntriesOf(v) :
                helped[t].desc.addr = AddrOf(v, j) /\ helped[t].desc.old2 = EntriesOf(v)[j][2]
      BY <3>1, DescAddr
    <3>4. PICK j \in DOMAIN es : a = es[j][1] /\ helped[t].desc.old2 = es[j][2]
      BY <2>1, <3>2, <3>3 DEF AddrOf
    <3>5. Distinct(es) /\ EntriesOf(v)' = es
      BY <3>2, <3>3, UndecKept DEF Inv, OpsOK
    <3>6. State(v) # "succeeded"
      BY <2>1, <2>2, <2>3, <2>9, <3>1 DEF GoodHelp
    <3>7. ~Decide(t)
      BY <2>2 DEF Decide
    <3>8. State(v)' # "succeeded"
      BY <3>3, <3>6, <3>7, StateFacts
    <3>9. Meaning(v, a)' = es[j][2]
      BY <3>3, <3>4, <3>5, <3>8, KcasMeaning
    <3> QED BY <2>7, <3>4, <3>9
  <2> QED BY <2>8, <2>9
<1>3. CASE ~isRdcss(v) /\ ~isRdcss(w)
  <2>1. /\ Release(t) /\ Entry(t)[1] = a /\ w = Top(t).tag
        /\ v = Value(IF Top(t).newstate = "succeeded" THEN Entry(t)[3] ELSE Entry(t)[2])
    <3>1. CASE LET b == Entry(t)[1]
               IN  Release(t) /\ b \in Addrs /\ mem' = [mem EXCEPT ![b] = mem'[b]]
                  /\ mem[b] = Top(t).tag
                  /\ mem'[b] = Value(IF Top(t).newstate = "succeeded" THEN Entry(t)[3] ELSE Entry(t)[2])
      <4>1. Entry(t)[1] = a
        BY <3>1 DEF Inv, Types
      <4> QED BY <3>1, <4>1
    <3>2. CASE rdesc[t].addr \in Addrs /\ mem' = [mem EXCEPT ![rdesc[t].addr] = mem'[rdesc[t].addr]]
                  /\ mem'[rdesc[t].addr] = MyRdcss(t)
      <4>1. rdesc[t].addr = a
        BY <3>2 DEF Inv, Types
      <4> QED BY <1>3, <3>2, <4>1 DEF MyRdcss, RdcssTag, isRdcss
    <3>3. CASE LET h == helped[t]
               IN  RdcssSets(t) /\ h.desc.addr \in Addrs
                  /\ mem' = [mem EXCEPT ![h.desc.addr] = mem'[h.desc.addr]] /\ mem[h.desc.addr] = h.tag
      <4>1. helped[t].desc.addr = a
        BY <3>3 DEF Inv, Types
      <4>2. helped[t].tag \in Rds
        BY <3>3 DEF RdcssSets, HelpsRdcss, Inv, HelpedOK
      <4> QED BY <1>3, <3>3, <4>1, <4>2 DEF Rds, isRdcss
    <3>4. mem' # mem
      OBVIOUS
    <3> QED BY <3>1, <3>2, <3>3, <3>4, MemFacts
  <2>2. pc[t] = "release" /\ Busy(t)
    BY <2>1 DEF Release, Inv, ControlOK, Control
  <2>3. Top(t) \in Frames /\ GoodFrame(Top(t), "release")
    BY <2>2, TopFacts DEF Inv
  <2>4. PICK es : es = EntriesOf(w)
    OBVIOUS
  <2>5. PICK j : j = Top(t).i
    OBVIOUS
  <2>6. w \in Ops /\ j \in DOMAIN es /\ Entry(t) = es[j] /\ Top(t).newstate = State(w)
    BY <2>1, <2>3, <2>4, <2>5 DEF GoodFrame, Frames, Entry
  <2>7. Distinct(es) /\ isKcas(w)
    BY <2>4, <2>6, OpFacts DEF Inv, OpsOK
  <2>8. Meaning(w, a) = IF State(w) = "succeeded" THEN es[j][3] ELSE es[j][2]
    BY <2>1, <2>4, <2>6, <2>7, KcasMeaning
  <2>9. v = Value(Meaning(w, a))
    BY <2>1, <2>6, <2>8
  <2> QED BY <2>9, MeaningFacts
<1> QED BY <1>1, <1>2, <1>3

\* The instant at which a KCAS takes effect.
Succeeds(t) == Decide(t) /\ Undec(Top(t).tag) /\ Top(t).newstate = "succeeded"

LEMMA ContentsKept ==
    ASSUME Inv, SeqsFit, NEW t \in Threads, Step(t), OpsKept, ~Succeeds(t)
    PROVE  Contents' = Contents
<1>1. ASSUME NEW a \in Addrs, NEW w, w = mem[a], NEW v, v = mem'[a]
      PROVE  Meaning(v, a)' = Meaning(w, a)
  <2>1. CASE w = v
    <3>1. isKcas(w) => State(w) = "succeeded" \/ State(w)' # "succeeded"
      <4> SUFFICES ASSUME isKcas(w), State(w) # "succeeded", State(w)' = "succeeded" PROVE FALSE
        OBVIOUS
      <4>1. w \in Ops
        BY <1>1, TagRead
      <4> QED BY <4>1, StateFacts DEF Succeeds
    <3> QED BY <1>1, <2>1, <3>1, SameWord
  <2>2. CASE w # v
    BY <1>1, <2>2, OtherWord
  <2> QED BY <2>1, <2>2
<1>2. \A a \in Addrs : Meaning(mem[a], a)' = Meaning(mem[a], a)
  BY <1>1
<1> QED BY <1>2 DEF Contents

Members(es) == {es[i] : i \in DOMAIN es}

\* A descriptor that is undecided belongs to a call, for which its entries were sorted.
LEMMA UndecidedCall ==
    ASSUME Inv, NEW k \in Ops, Undec(k), NEW u, u = k[2]
    PROVE  /\ u \in Threads /\ request[u].kind = "kcas" /\ pc[u] \notin {"idle", "return"}
           /\ kdesc[u].state = "undecided"
           /\ Members(EntriesOf(k)) = Members(request[u].entries)
<1>1. u \in Threads /\ k[3] >= 1 /\ Current(k)
  BY OpFacts DEF Inv, OpsOK
<1>2. kdesc[u].seq >= 1 /\ kdesc[u].state = "undecided" /\ EntriesOf(k) = kdesc[u].entries
  BY <1>1 DEF Current, Undec, State, EntriesOf, DescOf
<1>3. Control(u)
  BY <1>1 DEF Inv, ControlOK
<1> QED BY <1>1, <1>2, <1>3, ZenonT(60) DEF Control, Members

\* Two descriptions of one request: sorted in the descriptor, as called in the request.
LEMMA SwapFacts ==
    ASSUME NEW es, NEW rs, Distinct(es), Distinct(rs),
           {es[i] : i \in DOMAIN es} = {rs[i] : i \in DOMAIN rs}, NEW c
    PROVE  /\ Atomic!Matches(c, es) <=> Atomic!Matches(c, rs)
           /\ Atomic!Swap(c, es) = Atomic!Swap(c, rs)
<1>1. \A i \in DOMAIN es : \E j \in DOMAIN rs : es[i] = rs[j]
  OBVIOUS
<1>2. \A j \in DOMAIN rs : \E i \in DOMAIN es : es[i] = rs[j]
  OBVIOUS
<1>3. Atomic!Matches(c, es) <=> Atomic!Matches(c, rs)
  BY <1>1, <1>2 DEF Atomic!Matches
<1>4. ASSUME NEW a
      PROVE  /\ (\E i \in DOMAIN es : es[i][1] = a) <=> (\E j \in DOMAIN rs : rs[j][1] = a)
             /\ (\E i \in DOMAIN es : es[i][1] = a) =>
                   es[CHOOSE i \in DOMAIN es : es[i][1] = a][3]
                     = rs[CHOOSE j \in DOMAIN rs : rs[j][1] = a][3]
  <2>1. (\E i \in DOMAIN es : es[i][1] = a) <=> (\E j \in DOMAIN rs : rs[j][1] = a)
    BY <1>1, <1>2
  <2>2. ASSUME \E i \in DOMAIN es : es[i][1] = a
        PROVE  es[CHOOSE i \in DOMAIN es : es[i][1] = a][3]
                 = rs[CHOOSE j \in DOMAIN rs : rs[j][1] = a][3]
    <3>1. PICK i : i = CHOOSE x \in DOMAIN es : es[x][1] = a
      OBVIOUS
    <3>2. PICK j : j = CHOOSE x \in DOMAIN rs : rs[x][1] = a
      OBVIOUS
    <3>3. i \in DOMAIN es /\ es[i][1] = a
      BY <2>2, <3>1
    <3>4. j \in DOMAIN rs /\ rs[j][1] = a
      BY <2>1, <2>2, <3>2
    <3>5. PICK m \in DOMAIN rs : es[i] = rs[m]
      BY <1>1, <3>3
    <3>6. m = j
      BY <3>3, <3>4, <3>5 DEF Distinct
    <3> QED BY <3>1, <3>2, <3>5, <3>6
  <2> QED BY <2>1, <2>2
<1>5. Atomic!Swap(c, es) = Atomic!Swap(c, rs)
  BY <1>4 DEF Atomic!Swap
<1> QED BY <1>3, <1>5

LEMMA RequestFacts ==
    ASSUME Types, NEW u \in Threads, request[u].kind # "none"
    PROVE  /\ request[u] \in Requests /\ request[u].kind \in {"read", "kcas"}
           /\ request[u].entries \in Seq(Entries) /\ request[u].entries # << >>
           /\ Distinct(request[u].entries)
<1>1. request[u] \in Requests
  BY DEF Types, NoRequest
<1> QED BY <1>1, KcasAssumption DEF Distinct

LEMMA ContentsSwapped ==
    ASSUME Inv, SeqsFit, NEW t \in Threads, Step(t), OpsKept, Succeeds(t), NEW u, u = Top(t).tag[2]
    PROVE  /\ Atomic!Matches(Contents, request[u].entries)
           /\ Contents' = Atomic!Swap(Contents, request[u].entries)
<1>1. PICK k : k = Top(t).tag
  OBVIOUS
<1>2. PICK es : es = EntriesOf(k)
  OBVIOUS
<1>3. k \in Ops /\ Undec(k) /\ \A j \in DOMAIN es : Holds(k, j)
  <2>1. pc[t] = "decide" /\ Busy(t)
    BY DEF Succeeds, Decide, Inv, ControlOK, Control
  <2>2. k \in Ops
    BY <1>1, <2>1, TopFacts DEF Inv, GoodFrame
  <2> QED BY <1>1, <1>2, <2>2, DecidesHeld DEF Succeeds
<1>4. /\ isKcas(k) /\ Distinct(es) /\ EntriesOf(k)' = es
      /\ \A j \in DOMAIN es : es[j][1] \in Addrs /\ mem[es[j][1]] = k
  BY <1>2, <1>3, OpFacts, UndecKept DEF Inv, OpsOK, AddrOf, Holds
<1>5. mem' = mem
  BY DEF Succeeds, Decide
<1>6. State(k)' = "succeeded" /\ State(k) # "succeeded"
  <2>1. kdesc' = [kdesc EXCEPT ![k[2]].state = "succeeded"] /\ k[2] \in Threads /\ Current(k)
    BY <1>1, <1>3, OpFacts DEF Succeeds, Decide, Inv, OpsOK, Undec, State, DescOf, StateOf
  <2>2. kdesc'[k[2]].state = "succeeded" /\ kdesc'[k[2]].seq = kdesc[k[2]].seq
    BY <2>1 DEF Inv, Types, KDescs
  <2>3. DescOf(k)' = kdesc'[k[2]]
    BY <2>1, <2>2 DEF DescOf, Current
  <2> QED BY <1>3, <2>2, <2>3 DEF State, Undec
<1>7. ASSUME NEW j \in DOMAIN es
      PROVE  Contents[es[j][1]] = es[j][2] /\ Contents'[es[j][1]] = es[j][3]
  <2>1. PICK a \in Addrs : a = es[j][1] /\ mem[a] = k
    BY <1>4
  <2>2. Meaning(k, a) = es[j][2] /\ Meaning(k, a)' = es[j][3]
    BY <1>2, <1>4, <1>6, <2>1, KcasMeaning
  <2>3. Contents[a] = Meaning(k, a) /\ Contents'[a] = Meaning(k, a)'
    BY <1>5, <2>1 DEF Contents
  <2> QED BY <2>1, <2>2, <2>3
<1>8. ASSUME NEW a \in Addrs, ~\E j \in DOMAIN es : es[j][1] = a
      PROVE  Contents'[a] = Contents[a]
  <2>1. PICK w : w = mem[a]
    OBVIOUS
  <2>2. w # k
    BY <1>2, <1>4, <1>8, <2>1 DEF Inv, MemOK, AddrOf
  <2>3. isKcas(w) => State(w) = "succeeded" \/ State(w)' # "succeeded"
    <3> SUFFICES ASSUME isKcas(w), State(w)' # State(w) PROVE FALSE
      OBVIOUS
    <3>1. w \in Ops
      BY <2>1, TagRead
    <3> QED BY <1>1, <2>2, <3>1, StateFacts
  <2>4. Meaning(w, a)' = Meaning(w, a)
    BY <1>5, <2>1, <2>3, SameWord
  <2> QED BY <1>5, <2>1, <2>4 DEF Contents
<1>9. Atomic!Matches(Contents, es)
  BY <1>7 DEF Atomic!Matches
<1>10. Contents' = Atomic!Swap(Contents, es)
  <2>1. Contents' = [a \in Addrs |-> Contents'[a]]
    BY DEF Contents
  <2>2. ASSUME NEW a \in Addrs, \E j \in DOMAIN es : es[j][1] = a
        PROVE  Contents'[a] = es[CHOOSE j \in DOMAIN es : es[j][1] = a][3]
    <3>1. PICK j : j = CHOOSE x \in DOMAIN es : es[x][1] = a
      OBVIOUS
    <3>2. j \in DOMAIN es /\ es[j][1] = a
      BY <2>2, <3>1
    <3> QED BY <1>7, <3>1, <3>2
  <2> QED BY <2>1, <2>2, <1>8 DEF Atomic!Swap
<1>11. /\ request[u].kind = "kcas"
       /\ {es[i] : i \in DOMAIN es} = {request[u].entries[i] : i \in DOMAIN request[u].entries}
       /\ u \in Threads
  <2>1. u = k[2]
    BY <1>1
  <2>2. u \in Threads /\ request[u].kind = "kcas" /\ Members(es) = Members(request[u].entries)
    BY <1>2, <1>3, <2>1, UndecidedCall
  <2> QED BY <2>2 DEF Members
<1>12. Distinct(request[u].entries)
  BY <1>11, RequestFacts DEF Inv
<1> QED BY <1>4, <1>9, <1>10, <1>11, <1>12, SwapFacts

\* What the callers see of a thread.
LEMMA StatusFacts ==
    ASSUME NEW u \in Threads
    PROVE  /\ Status[u] = IF pc[u] = "idle" THEN "idle"
                          ELSE IF pc[u] = "return" \/ Applied(u) THEN "answered" ELSE "pending"
           /\ Answer[u] = IF pc[u] # "idle" /\ Applied(u) THEN 1 ELSE answer[u]
           /\ Status'[u] = IF pc'[u] = "idle" THEN "idle"
                           ELSE IF pc'[u] = "return" \/ Applied(u)' THEN "answered" ELSE "pending"
           /\ Answer'[u] = IF pc'[u] # "idle" /\ Applied(u)' THEN 1 ELSE answer'[u]
  BY DEF Status, Answer

LEMMA SameOthers ==
    ASSUME Inv, SeqsFit, NEW t \in Threads, Step(t), Others(t), NEW u \in Threads \ {t},
           Succeeds(t) => u # Top(t).tag[2]
    PROVE  Status'[u] = Status[u] /\ Answer'[u] = Answer[u]
<1>1. pc'[u] = pc[u] /\ request'[u] = request[u] /\ answer'[u] = answer[u]
  BY DEF Others
<1>2. kdesc'[u].state = "succeeded" <=> kdesc[u].state = "succeeded"
  <2>1. CASE CallExecute(t)
    BY <2>1, ExecuteFacts DEF Inv, Step
  <2>2. CASE Decide(t) /\ kdesc'[u] # kdesc[u]
    <3>1. /\ u = Top(t).tag[2] /\ Current(Top(t).tag) /\ StateOf(Top(t).tag) = "undecided"
          /\ kdesc'[u].state = Top(t).newstate
      BY <2>2, DecideFacts DEF Inv, Step
    <3>2. Undec(Top(t).tag) /\ kdesc[u].state = "undecided"
      BY <3>1 DEF Undec, State, DescOf, StateOf
    <3>3. Top(t).newstate # "succeeded"
      BY <2>2, <3>1, <3>2 DEF Succeeds
    <3> QED BY <3>1, <3>2, <3>3
  <2>3. CASE ~CallExecute(t) /\ ~Decide(t)
    BY <2>3, DescriptorsKept DEF Inv
  <2> QED BY <2>1, <2>2, <2>3
<1>3. Applied(u)' <=> Applied(u)
  BY <1>1, <1>2 DEF Applied
<1> QED BY <1>1, <1>3, StatusFacts

\* The steps inside a call: the call goes on, or it has its answer.
LEMMA InsideFacts ==
    ASSUME Inv, SeenOK, NEW t \in Threads, Work(t), ~Return(t)
    PROVE  /\ request' = request /\ pc[t] \notin {"idle", "return"} /\ pc'[t] # "idle"
           /\ pc'[t] # "return" => answer' = answer
           /\ pc'[t] = "return" =>
                 \/ LET a == request[t].entries[1][1]
                    IN  /\ Read(t) /\ pc[t] = "read" /\ mem[a][1] = "value"
                        /\ answer' = [answer EXCEPT ![t] = mem[a][2]]
                 \/ /\ Release(t) /\ pc[t] = "release" /\ Busy(t) /\ Own(t)
                    /\ answer' = [answer EXCEPT ![t] = IF Top(t).newstate = "succeeded" THEN 1 ELSE 0]
<1>1. answer \in [Threads -> Nat] /\ (pc[t] # "return" => answer[t] = 0)
  BY DEF SeenOK, Inv, Types
<1>2. Control(t)
  BY DEF Inv, ControlOK
<1>3. CASE Read(t)
  <2>1. PICK a : a = request[t].entries[1][1]
    OBVIOUS
  <2>2. pc[t] = "read" /\ request' = request
    BY <1>3 DEF Read, local
  <2>3. pc'[t] = CASE isRdcss(mem[a]) -> "snapRdcss" [] isKcas(mem[a])  -> "snapKcas" [] OTHER -> "return"
    BY <1>3, <2>1, GotoFacts DEF Read, Inv
  <2>4. answer' = [answer EXCEPT ![t] = IF mem[a][1] = "value" THEN mem[a][2] ELSE 0]
    BY <1>3, <2>1 DEF Read
  <2>5. a \in Addrs
    <3>1. request[t].kind # "none"
      BY <1>2, <2>2 DEF Control
    <3>2. request[t].entries \in Seq(Entries) /\ request[t].entries # << >>
      BY <3>1, RequestFacts DEF Inv
    <3>3. request[t].entries[1] \in Entries
      BY <3>2
    <3> QED BY <2>1, <3>3, EntryFacts
  <2>6. CASE mem[a][1] = "value"
    <3>1. pc'[t] = "return" /\ answer' = [answer EXCEPT ![t] = mem[a][2]]
      BY <2>3, <2>4, <2>6 DEF isRdcss, isKcas
    <3> QED BY <1>3, <2>1, <2>2, <2>6, <3>1
  <2>7. CASE mem[a][1] # "value"
    <3>1. pc'[t] \in {"snapRdcss", "snapKcas"}
      BY <2>3, <2>5, <2>7, WordKinds DEF isRdcss, isKcas
    <3>2. answer' = [answer EXCEPT ![t] = 0]
      BY <2>4, <2>7
    <3> QED BY <1>1, <2>2, <3>1, <3>2
  <2> QED BY <2>6, <2>7
<1>4. CASE HelpOther(t)
  <2>1. pc'[t] \in {"help", "read", "prepare"}
    BY <1>4, GotoFacts DEF HelpOther, Resume, Inv
  <2> QED BY <1>4, <2>1 DEF HelpOther, local
<1>5. CASE HelpReadsState(t) \/ Phase2(t)
  <2>1. pc[t] \in {"help", "phase2"} /\ Busy(t) /\ request' = request
    BY <1>2, <1>5 DEF HelpReadsState, Phase2, Control, local
  <2>2. CASE ~Current(Top(t).tag)
    <3>1. HelpReturns(t, 0) /\ ~Own(t)
      BY <1>5, <2>1, <2>2, OwnFacts DEF HelpReadsState, Phase2
    <3>2. answer' = answer /\ pc'[t] \in {"read", "prepare"}
      BY <2>1, <3>1, ReturnsFacts DEF Inv
    <3> QED BY <2>1, <3>2
  <2>3. CASE Current(Top(t).tag)
    <3>1. pc'[t] \in {"phase2", "decide", "prepare", "release"} /\ answer' = answer
      BY <1>5, <2>3, GotoFacts DEF HelpReadsState, Phase2, Inv
    <3> QED BY <2>1, <3>1
  <2> QED BY <2>2, <2>3
<1>6. CASE PrepareRdcss(t) \/ RdcssReadsState(t) \/ Decide(t)
  <2>1. pc'[t] \in {"install", "rdcssSet", "phase2"}
    BY <1>6, GotoFacts DEF PrepareRdcss, RdcssReadsState, Decide, Inv
  <2> QED BY <1>6, <2>1 DEF PrepareRdcss, RdcssReadsState, Decide, local
<1>7. CASE InstallRdcss(t)
  <2>1. pc'[t] \in {"rdcssState", "snapRdcss", "snapKcas", "prepare", "decide"}
    BY <1>7, GotoFacts DEF InstallRdcss, NextEntry, Inv
  <2> QED BY <1>7, <2>1 DEF InstallRdcss, local
<1>8. CASE RdcssHelpOther(t)
  <2>1. pc'[t] \in {"rdcssState", "install", "read"}
    BY <1>8, GotoFacts DEF RdcssHelpOther, Retry, Inv
  <2> QED BY <1>8, <2>1 DEF RdcssHelpOther, local
<1>9. CASE RdcssSets(t)
  <2>1. pc'[t] \in {"prepare", "decide", "install", "read"}
    BY <1>9, GotoFacts DEF RdcssSets, NextEntry, Retry, Inv
  <2> QED BY <1>9, <2>1 DEF RdcssSets, local
<1>10. CASE Release(t)
  <2>1. pc[t] = "release" /\ Busy(t) /\ request' = request
    BY <1>2, <1>10 DEF Release, Control, local
  <2>2. PICK r : r = IF Top(t).newstate = "succeeded" THEN 1 ELSE 0
    OBVIOUS
  <2>3. CASE HelpReturns(t, r)
    <3>1. CASE Own(t)
      <4>1. answer' = [answer EXCEPT ![t] = r] /\ pc'[t] = "return"
        BY <2>1, <2>3, <3>1, ReturnsFacts DEF HelpReturns, Inv
      <4> QED BY <1>10, <2>1, <2>2, <3>1, <4>1
    <3>2. CASE ~Own(t)
      <4>1. answer' = answer /\ pc'[t] \in {"read", "prepare"}
        BY <2>1, <2>3, <3>2, ReturnsFacts DEF Inv
      <4> QED BY <2>1, <4>1
    <3> QED BY <3>1, <3>2
  <2>4. CASE pc' = pc /\ answer' = answer
    BY <2>1, <2>4
  <2> QED BY <1>10, <2>2, <2>3, <2>4 DEF Release
<1> QED BY <1>3, <1>4, <1>5, <1>6, <1>7, <1>8, <1>9, <1>10 DEF Work

LEMMA OnlyChanges ==
    ASSUME Inv, SeqsFit, NEW t \in Threads, Step(t), Others(t), ~Succeeds(t)
    PROVE  /\ Status' = [Status EXCEPT ![t] = Status'[t]]
           /\ Answer' = [Answer EXCEPT ![t] = Answer'[t]]
<1>1. Status = [u \in Threads |-> Status[u]] /\ Status' = [u \in Threads |-> Status'[u]]
  BY DEF Status
<1>2. Answer = [u \in Threads |-> Answer[u]] /\ Answer' = [u \in Threads |-> Answer'[u]]
  BY DEF Answer
<1>3. \A u \in Threads \ {t} : Status'[u] = Status[u] /\ Answer'[u] = Answer[u]
  BY SameOthers
<1>4. Status' = [Status EXCEPT ![t] = Status'[t]]
  <2> DEFINE S == Status
             S1 == Status'
  <2> HIDE DEF S, S1
  <2>1. S = [u \in Threads |-> S[u]] /\ S1 = [u \in Threads |-> S1[u]] /\ \A u \in Threads \ {t} : S1[u] = S[u]
    BY <1>1, <1>3 DEF S, S1
  <2>2. S1 = [S EXCEPT ![t] = S1[t]]
    BY <2>1
  <2> QED BY <2>2 DEF S, S1
<1>5. Answer' = [Answer EXCEPT ![t] = Answer'[t]]
  <2> DEFINE S == Answer
             S1 == Answer'
  <2> HIDE DEF S, S1
  <2>1. S = [u \in Threads |-> S[u]] /\ S1 = [u \in Threads |-> S1[u]] /\ \A u \in Threads \ {t} : S1[u] = S[u]
    BY <1>2, <1>3 DEF S, S1
  <2>2. S1 = [S EXCEPT ![t] = S1[t]]
    BY <2>1
  <2> QED BY <2>2 DEF S, S1
<1> QED BY <1>4, <1>5

LEMMA Unchanged ==
    ASSUME Inv, SeqsFit, NEW t \in Threads, Step(t), Others(t), OpsKept, ~Succeeds(t),
           request' = request, Status'[t] = Status[t], Answer'[t] = Answer[t]
    PROVE  UNCHANGED <<Contents, request, Status, Answer>>
<1>1. Contents' = Contents
  BY ContentsKept
<1>2. Status' = [u \in Threads |-> Status'[u]] /\ Status = [u \in Threads |-> Status[u]]
  BY DEF Status
<1>3. Answer' = [u \in Threads |-> Answer'[u]] /\ Answer = [u \in Threads |-> Answer[u]]
  BY DEF Answer
<1>4. \A u \in Threads : Status'[u] = Status[u] /\ Answer'[u] = Answer[u]
  BY SameOthers
<1>5. Status' = Status
  BY <1>2, <1>4
<1>6. Answer' = Answer
  BY <1>3, <1>4
<1> QED BY <1>1, <1>5, <1>6

\* A call.
LEMMA CallStepIs ==
    ASSUME Inv, SeqsFit, NEW t \in Threads, Step(t), CallRead(t) \/ CallExecute(t)
    PROVE  Atomic!Invoke(t)
<1>1. Others(t) /\ OpsKept /\ ~Succeeds(t)
  <2>1. pc[t] = "idle"
    BY DEF CallRead, CallExecute, Called
  <2> QED BY <2>1, OthersStep, OpsKeptStep DEF Inv, Succeeds, Decide
<1>2. pc[t] = "idle" /\ pc'[t] \in {"read", "help"} /\ answer' = answer
  BY GotoFacts DEF CallRead, CallExecute, Called, Inv
<1>3. ~Applied(t)'
  <2>1. CASE CallRead(t)
    BY <2>1 DEF CallRead, Called, Applied, Inv, Types
  <2>2. CASE CallExecute(t)
    BY <2>2, ExecuteFacts DEF Applied, Inv, Step
  <2> QED BY <2>1, <2>2
<1>4. Status[t] = "idle" /\ Status'[t] = "pending" /\ Answer'[t] = Answer[t]
  BY <1>2, <1>3, StatusFacts
<1>5. Status' = [Status EXCEPT ![t] = "pending"] /\ Answer' = [Answer EXCEPT ![t] = Answer[t]]
  BY <1>1, <1>4, OnlyChanges
<1>6. Answer' = Answer
  BY <1>5 DEF Answer
<1>7. Contents' = Contents
  BY <1>1, ContentsKept
<1>8. \E r \in Requests : request' = [request EXCEPT ![t] = r]
  <2>1. plan[t] \in Seq(Requests) /\ plan[t] # << >> /\ request' = [request EXCEPT ![t] = Head(plan[t])]
    BY DEF CallRead, CallExecute, Called, Inv, Types
  <2>2. Head(plan[t]) \in Requests
    BY <2>1
  <2> QED BY <2>1, <2>2
<1> QED BY <1>4, <1>5, <1>6, <1>7, <1>8 DEF Atomic!Invoke

\* A return.
LEMMA ReturnStepIs ==
    ASSUME Inv, SeqsFit, NEW t \in Threads, Step(t), Return(t)
    PROVE  Atomic!Return(t)
<1>1. Others(t) /\ OpsKept /\ ~Succeeds(t)
  <2>1. pc[t] = "return"
    BY DEF Return
  <2> QED BY <2>1, OthersStep, OpsKeptStep DEF Inv, Succeeds, Decide
<1>2. pc[t] = "return" /\ pc'[t] = "idle" /\ answer'[t] = 0
  BY GotoFacts DEF Return, Inv, Types
<1>3. Status[t] = "answered" /\ Status'[t] = "idle" /\ Answer'[t] = 0
  BY <1>2, StatusFacts
<1>4. Status' = [Status EXCEPT ![t] = "idle"] /\ Answer' = [Answer EXCEPT ![t] = 0]
  BY <1>1, <1>3, OnlyChanges
<1>5. Contents' = Contents
  BY <1>1, ContentsKept
<1>6. request' = [request EXCEPT ![t] = Atomic!NoRequest]
  BY DEF Return, NoRequest, Atomic!NoRequest
<1> QED BY <1>3, <1>4, <1>5, <1>6 DEF Atomic!Return

\* A successful decision, whoever makes it.
LEMMA SuccessIs ==
    ASSUME Inv, SeqsFit, NEW t \in Threads, Step(t), Succeeds(t)
    PROVE  \E u \in Threads : Atomic!Apply(u)
<1>1. Others(t) /\ OpsKept
  BY OthersStep, OpsKeptStep DEF Inv
<1>2. pc[t] = "decide" /\ Busy(t) /\ pc'[t] = "phase2" /\ request' = request /\ answer' = answer
  BY GotoFacts DEF Succeeds, Decide, Inv, ControlOK, Control, local
<1>3. PICK k : k = Top(t).tag
  OBVIOUS
<1>4. k \in Ops /\ Undec(k) /\ Current(k)
  BY <1>2, <1>3, TopFacts DEF Inv, GoodFrame, OpsOK, Succeeds
<1>5. PICK u \in Threads : u = k[2]
  BY <1>4, OpFacts DEF Inv
<1>6. request[u].kind = "kcas" /\ pc[u] \notin {"idle", "return"} /\ kdesc[u].state = "undecided"
  BY <1>4, <1>5, UndecidedCall
<1>7. kdesc'[u].state = "succeeded"
  BY <1>3, <1>4, <1>5 DEF Succeeds, Decide, Undec, State, DescOf, StateOf, Inv, Types, KDescs
<1>8. pc'[u] \notin {"idle", "return"}
  BY <1>1, <1>2, <1>6 DEF Others
<1>9. ~Applied(u) /\ Applied(u)'
  BY <1>2, <1>6, <1>7 DEF Applied
<1>10. Status[u] = "pending" /\ Status'[u] = "answered" /\ Answer'[u] = 1
  BY <1>6, <1>8, <1>9, StatusFacts
<1>11. ASSUME NEW v \in Threads \ {u} PROVE Status'[v] = Status[v] /\ Answer'[v] = Answer[v]
  <2>1. CASE v # t
    BY <1>1, <1>3, <1>5, <1>11, <2>1, SameOthers
  <2>2. CASE v = t
    <3>1. kdesc'[t] = kdesc[t]
      BY <1>3, <1>5, <1>11, <2>2, DecideFacts DEF Succeeds, Inv, Step
    <3>2. Applied(t)' <=> Applied(t)
      BY <1>2, <3>1 DEF Applied
    <3> QED BY <1>2, <2>2, <3>2, StatusFacts
  <2> QED BY <2>1, <2>2
<1>12. Status' = [Status EXCEPT ![u] = "answered"]
  <2>1. Status = [v \in Threads |-> Status[v]] /\ Status' = [v \in Threads |-> Status'[v]]
    BY DEF Status
  <2> DEFINE S == Status
             S1 == Status'
  <2> HIDE DEF S, S1
  <2>2. /\ S = [v \in Threads |-> S[v]] /\ S1 = [v \in Threads |-> S1[v]] /\ S1[u] = "answered"
        /\ \A v \in Threads \ {u} : S1[v] = S[v]
    BY <1>10, <1>11, <2>1 DEF S, S1
  <2>3. S1 = [S EXCEPT ![u] = "answered"]
    BY <2>2
  <2> QED BY <2>3 DEF S, S1
<1>13. Answer' = [Answer EXCEPT ![u] = 1]
  <2>1. Answer = [v \in Threads |-> Answer[v]] /\ Answer' = [v \in Threads |-> Answer'[v]]
    BY DEF Answer
  <2> DEFINE S == Answer
             S1 == Answer'
  <2> HIDE DEF S, S1
  <2>2. /\ S = [v \in Threads |-> S[v]] /\ S1 = [v \in Threads |-> S1[v]] /\ S1[u] = 1
        /\ \A v \in Threads \ {u} : S1[v] = S[v]
    BY <1>10, <1>11, <2>1 DEF S, S1
  <2>3. S1 = [S EXCEPT ![u] = 1]
    BY <2>2
  <2> QED BY <2>3 DEF S, S1
<1>14. /\ Atomic!Matches(Contents, request[u].entries)
       /\ Contents' = Atomic!Swap(Contents, request[u].entries)
  BY <1>1, <1>3, <1>5, ContentsSwapped
<1>15. Atomic!Apply(u)
  BY <1>2, <1>6, <1>10, <1>12, <1>13, <1>14 DEF Atomic!Apply
<1> QED BY <1>15

\* Every other step: an answer, or nothing that the callers see.
LEMMA InsideIs ==
    ASSUME Inv, SeenOK, SeqsFit, NEW t \in Threads, Step(t), Work(t), ~Return(t), ~Succeeds(t)
    PROVE  Atomic!Report(t) \/ UNCHANGED <<Contents, request, Status, Answer>>
<1>1. Others(t) /\ OpsKept /\ Contents' = Contents
  BY OthersStep, OpsKeptStep, ContentsKept DEF Inv
<1>2. request' = request /\ pc[t] \notin {"idle", "return"} /\ pc'[t] # "idle"
  BY InsideFacts
<1>3. Applied(t)' <=> Applied(t)
  <2>1. kdesc'[t].state = "succeeded" <=> kdesc[t].state = "succeeded"
    <3>1. CASE Decide(t) /\ kdesc'[t] # kdesc[t]
      <4>1. /\ t = Top(t).tag[2] /\ Current(Top(t).tag) /\ StateOf(Top(t).tag) = "undecided"
            /\ kdesc'[t].state = Top(t).newstate
        BY <3>1, DecideFacts DEF Inv, Step
      <4>2. Undec(Top(t).tag) /\ kdesc[t].state = "undecided"
        BY <4>1 DEF Undec, State, DescOf, StateOf
      <4>3. Top(t).newstate # "succeeded"
        BY <3>1, <4>2 DEF Succeeds
      <4> QED BY <4>1, <4>2, <4>3
    <3>2. CASE ~Decide(t)
      <4>1. ~CallExecute(t)
        BY <1>2 DEF CallExecute, Called
      <4> QED BY <3>2, <4>1, DescriptorsKept DEF Inv
    <3> QED BY <3>1, <3>2
  <2> QED BY <1>2, <2>1 DEF Applied
<1>4. CASE pc'[t] # "return"
  <2>1. answer' = answer
    BY <1>4, InsideFacts
  <2>2. Status'[t] = Status[t] /\ Answer'[t] = Answer[t]
    BY <1>2, <1>3, <1>4, <2>1, StatusFacts
  <2> QED BY <1>1, <1>2, <2>2, Unchanged
<1>5. CASE /\ pc'[t] = "return" /\ ~Applied(t) /\ answer'[t] \in seen[t]
           /\ request[t].kind = "kcas" => answer'[t] = 0
  <2>1. Status[t] = "pending" /\ Status'[t] = "answered" /\ Answer'[t] = answer'[t]
    BY <1>2, <1>3, <1>5, StatusFacts
  <2>2. Status' = [Status EXCEPT ![t] = "answered"] /\ Answer' = [Answer EXCEPT ![t] = answer'[t]]
    BY <1>1, <2>1, OnlyChanges
  <2> QED BY <1>1, <1>2, <1>5, <2>1, <2>2 DEF Atomic!Report
<1>6. CASE pc'[t] = "return" /\ Read(t) /\ pc[t] = "read"
           /\ LET a == request[t].entries[1][1]
              IN  mem[a][1] = "value" /\ answer' = [answer EXCEPT ![t] = mem[a][2]]
  <2>1. Control(t)
    BY DEF Inv, ControlOK
  <2>2. request[t].kind # "kcas" /\ request[t].kind # "none"
    BY <1>6, <2>1 DEF Control
  <2>3. request[t].kind = "read" /\ request[t].entries \in Seq(Entries) /\ request[t].entries # << >>
    BY <2>2, RequestFacts DEF Inv
  <2>4. PICK a : a = request[t].entries[1][1]
    OBVIOUS
  <2>5. a \in Addrs
    <3>1. request[t].entries[1] \in Entries
      BY <2>3
    <3> QED BY <2>4, <3>1, EntryFacts
  <2>6. answer'[t] = mem[a][2] /\ Contents[a] = mem[a][2]
    BY <1>6, <2>4, <2>5, MeaningFacts DEF Contents, Inv, Types
  <2>7. Atomic!RightAnswer(Contents, request[t]) = answer'[t]
    BY <2>3, <2>4, <2>6 DEF Atomic!RightAnswer
  <2>8. answer'[t] \in seen[t] /\ ~Applied(t)
    BY <1>2, <2>3, <2>7 DEF SeenOK, Applied
  <2> QED BY <1>5, <1>6, <2>3, <2>8
<1>7. CASE /\ pc'[t] = "return" /\ Release(t) /\ pc[t] = "release" /\ Busy(t) /\ Own(t)
           /\ answer' = [answer EXCEPT ![t] = IF Top(t).newstate = "succeeded" THEN 1 ELSE 0]
  <2>1. Top(t) \in Frames /\ Top(t).newstate = State(Top(t).tag)
    BY <1>7, TopFacts DEF Inv, GoodFrame
  <2>2. Top(t).newstate = kdesc[t].state /\ Top(t).newstate \in Outcomes
    BY <1>7, <2>1, OwnFacts DEF Frames
  <2>3. request[t].kind = "kcas"
    BY <1>7 DEF Own
  <2>4. answer'[t] = IF Top(t).newstate = "succeeded" THEN 1 ELSE 0
    BY <1>7 DEF Inv, Types
  <2>5. CASE kdesc[t].state = "succeeded"
    <3>1. Applied(t) /\ answer'[t] = 1
      BY <2>2, <2>3, <2>4, <2>5 DEF Applied
    <3>2. Status'[t] = Status[t] /\ Answer'[t] = Answer[t]
      BY <1>2, <1>3, <3>1, StatusFacts
    <3> QED BY <1>1, <1>2, <3>2, Unchanged
  <2>6. CASE kdesc[t].state = "failed"
    <3>1. ~Applied(t) /\ answer'[t] = 0 /\ 0 \in seen[t]
      BY <2>2, <2>3, <2>4, <2>6 DEF Applied, SeenOK
    <3> QED BY <1>5, <1>7, <3>1
  <2> QED BY <2>2, <2>5, <2>6 DEF Outcomes
<1> QED BY <1>4, <1>6, <1>7, InsideFacts

-----------------------------------------------------------------------------
\* What a call has seen stays seen, and what is right now is added.
LEMMA ObserveFacts ==
    ASSUME NEW t \in Threads, Step(t), NEW u \in Threads, pc'[u] # "idle"
    PROVE  /\ Atomic!RightAnswer(Contents', request'[u]) \in seen'[u]
           /\ pc[u] # "idle" => seen[u] \subseteq seen'[u]
<1>1. seen'[u] = Atomic!Observe(u)
  BY DEF Step, Record
<1>2. Status'[u] # "idle" /\ (pc[u] # "idle" => Status[u] # "idle")
  BY StatusFacts
<1> QED BY <1>1, <1>2 DEF Atomic!Observe

\* A call of help gives up because of a word that it met.
LEMMA GivesUp ==
    ASSUME Inv, NEW t \in Threads, Step(t), pc'[t] = "decide",
           NEW g, g = Top(t)', g.newstate = "failed"
    PROVE  LET w == mem[rdesc[t].addr]
           IN  /\ InstallRdcss(t) /\ pc[t] = "install" /\ g.tag = Top(t).tag
               /\ w[1] = "value" /\ w # Value(rdesc[t].old2)
<1>1. CASE InstallRdcss(t)
  <2>1. pc[t] = "install" /\ Busy(t)
    BY <1>1 DEF InstallRdcss, Inv, ControlOK, Control
  <2>2. Top(t) \in Frames /\ GoodFrame(Top(t), "install")
    BY <2>1, TopFacts DEF Inv
  <2>3. Top(t).newstate = "succeeded"
    BY <2>2 DEF GoodFrame, Phase1, AtEntry, OnEntry
  <2>4. CASE NextEntry(t)
    <3>1. PICK f : f = [Top(t) EXCEPT !.i = @ + 1]
      OBVIOUS
    <3>2. f \in Frames /\ f.newstate = "succeeded"
      BY <2>2, <2>3, <3>1 DEF Frames
    <3>3. NewTop(t, f)
      BY <2>1, <2>4, <3>1, <3>2, NewTopFacts DEF NextEntry, Inv
    <3>4. g = f
      BY <3>3 DEF NewTop, Top
    <3> QED BY <3>2, <3>4
  <2>5. CASE /\ mem[rdesc[t].addr][1] = "value" /\ mem[rdesc[t].addr] # Value(rdesc[t].old2)
             /\ SetTop(t, [Top(t) EXCEPT !.newstate = "failed"])
    <3>1. PICK f : f = [Top(t) EXCEPT !.newstate = "failed"]
      OBVIOUS
    <3>2. f \in Frames /\ f.tag = Top(t).tag
      BY <2>2, <3>1 DEF Frames, Outcomes
    <3>3. NewTop(t, f)
      BY <2>1, <2>5, <3>1, <3>2, NewTopFacts DEF Inv
    <3>4. g = f
      BY <3>3 DEF NewTop, Top
    <3> QED BY <1>1, <2>1, <2>5, <3>2, <3>4
  <2>6. CASE pc'[t] \in {"rdcssState", "snapRdcss", "snapKcas"}
    BY <2>6
  <2> QED BY <1>1, <2>4, <2>5, <2>6, GotoFacts DEF InstallRdcss, Inv
<1>2. CASE RdcssSets(t)
  <2>1. pc[t] = "rdcssSet" /\ NextEntry(t) /\ helped[t].tag[2] = t
    BY <1>2 DEF RdcssSets, Retry, Inv, Types, Goto
  <2>2. Busy(t)
    BY <2>1 DEF Inv, HelpedOK, HelpsRdcss
  <2>3. Top(t) \in Frames /\ GoodFrame(Top(t), "rdcssSet")
    BY <2>1, <2>2, TopFacts DEF Inv
  <2>4. Top(t).newstate = "succeeded"
    BY <2>3 DEF GoodFrame, Phase1, AtEntry, OnEntry
  <2>5. PICK f : f = [Top(t) EXCEPT !.i = @ + 1]
    OBVIOUS
  <2>6. f \in Frames /\ f.newstate = "succeeded"
    BY <2>3, <2>4, <2>5 DEF Frames
  <2>7. NewTop(t, f)
    BY <2>1, <2>2, <2>5, <2>6, NewTopFacts DEF NextEntry, Inv
  <2>8. g = f
    BY <2>7 DEF NewTop, Top
  <2> QED BY <2>6, <2>8
<1>3. CASE HelpReadsState(t)
  <2>1. pc[t] = "help" /\ Busy(t)
    BY <1>3 DEF HelpReadsState, Inv, ControlOK, Control
  <2>2. GoodFrame(Top(t), "help")
    BY <2>1, TopFacts DEF Inv
  <2>3. Top(t).newstate = "succeeded"
    BY <2>2 DEF GoodFrame, Phase1
  <2>4. frames' = frames
    BY <1>3 DEF HelpReadsState, HelpReturns, Resume, Inv, Types, Goto
  <2>5. g = Top(t)
    BY <2>4 DEF Top
  <2> QED BY <2>3, <2>5
<1>4. CASE \/ CallRead(t) \/ CallExecute(t) \/ Return(t) \/ Decide(t) \/ Read(t)
           \/ PrepareRdcss(t) \/ RdcssReadsState(t)
  BY <1>4, GotoFacts DEF CallRead, CallExecute, Return, Decide, Read, PrepareRdcss, RdcssReadsState, Inv
<1>5. CASE HelpOther(t) \/ RdcssHelpOther(t)
  BY <1>5 DEF HelpOther, Resume, RdcssHelpOther, Retry, Inv, Types, Goto
<1>6. CASE Phase2(t)
  BY <1>6 DEF Phase2, HelpReturns, Resume, Inv, Types, Goto
<1>7. CASE Release(t)
  BY <1>7 DEF Release, HelpReturns, Resume, Inv, Types, Goto
<1> QED BY <1>1, <1>2, <1>3, <1>4, <1>5, <1>6, <1>7 DEF Step, Work

LEMMA SeenOKStep ==
    ASSUME Inv, Inv', SeenOK, SeqsFit, NEW t \in Threads, Step(t)
    PROVE  SeenOK'
<1>1. Others(t) /\ OpsKept
  BY OthersStep, OpsKeptStep DEF Inv
<1>2. ASSUME NEW u \in Threads PROVE pc'[u] # "return" => answer'[u] = 0
  <2>1. pc[u] # "return" => answer[u] = 0
    BY DEF SeenOK
  <2>2. CASE u # t
    BY <1>1, <2>1, <2>2 DEF Others
  <2>3. CASE u = t /\ (CallRead(t) \/ CallExecute(t))
    BY <2>1, <2>3 DEF CallRead, CallExecute, Called
  <2>4. CASE u = t /\ Return(t)
    BY <2>4 DEF Return, Inv, Types
  <2>5. CASE u = t /\ Work(t) /\ ~Return(t)
    BY <2>1, <2>5, InsideFacts
  <2> QED BY <2>2, <2>3, <2>4, <2>5 DEF Step
<1>3. ASSUME NEW u \in Threads, pc'[u] # "idle"
      PROVE  (Atomic!RightAnswer(Contents, request[u]))' \in seen'[u]
  BY <1>3, ObserveFacts
<1>4. ASSUME NEW k \in Ops', NEW u \in Threads, u = k[2], Undec(k)'
      PROVE  /\ pc'[u] # "idle"
             /\ k \in Ops => Undec(k) /\ pc[u] # "idle"
  <2>1. k[3] >= 1 /\ Current(k)'
    <3>1. Current(k)'
      BY <1>4 DEF Inv, OpsOK
    <3> QED BY <3>1 DEF Ops
  <2>2. kdesc'[u].seq >= 1 /\ kdesc'[u].state = "undecided"
    BY <1>4, <2>1 DEF Current, Undec, State, DescOf
  <2>3. Control(u)'
    BY DEF Inv, ControlOK
  <2>4. request'[u].kind = "kcas" /\ pc'[u] # "idle"
    BY <2>2, <2>3 DEF Control
  <2>5. k \in Ops => Undec(k)
    BY <1>1, <1>4, UndecKept
  <2>6. k \in Ops => pc[u] # "idle"
    BY <1>4, <2>5, UndecidedCall
  <2> QED BY <2>4, <2>5, <2>6
<1>5. ASSUME NEW u \in Threads, request'[u].kind = "kcas", kdesc'[u].state = "failed"
      PROVE  0 \in seen'[u]
  <2>1. pc'[u] # "idle"
    BY <1>5 DEF Inv, ControlOK, Control
  <2>2. ~(CallExecute(t) /\ u = t)
    BY <1>5, ExecuteFacts DEF Inv, Step
  <2>3. request[u].kind = "kcas"
    <3>1. CASE u # t
      BY <1>1, <1>5, <3>1 DEF Others
    <3>2. CASE u = t /\ CallRead(t)
      BY <1>5, <3>2 DEF CallRead, Called, Inv, Types
    <3>3. CASE u = t /\ Return(t)
      BY <1>5, <3>3 DEF Return, NoRequest, Inv, Types
    <3>4. CASE u = t /\ Work(t) /\ ~Return(t)
      BY <1>5, <3>4, InsideFacts
    <3> QED BY <2>2, <3>1, <3>2, <3>3, <3>4 DEF Step
  <2>4. pc[u] # "idle"
    BY <2>3 DEF Inv, ControlOK, Control
  <2>5. seen[u] \subseteq seen'[u]
    BY <2>1, <2>4, ObserveFacts
  <2>6. CASE kdesc[u].state = "failed"
    BY <2>3, <2>5, <2>6 DEF SeenOK
  <2>7. CASE kdesc[u].state # "failed"
    <3>1. ~CallExecute(t)
      BY <1>5, <2>2, <2>7, ExecuteFacts DEF Inv, Step
    <3>2. Decide(t)
      BY <1>5, <2>7, <3>1, DescriptorsKept DEF Inv
    <3>3. PICK k : k = Top(t).tag
      OBVIOUS
    <3>4. u = k[2] /\ Current(k) /\ StateOf(k) = "undecided" /\ Top(t).newstate = "failed"
      BY <1>5, <2>7, <3>2, <3>3, DecideFacts DEF Inv, Step
    <3>5. Undec(k) /\ pc[t] = "decide"
      BY <3>2, <3>4 DEF Undec, State, DescOf, StateOf, Decide
    <3>6. 0 \in seen[u]
      BY <3>3, <3>4, <3>5 DEF SeenOK
    <3> QED BY <2>5, <3>6
  <2> QED BY <2>6, <2>7
<1>6. ASSUME NEW u \in Threads, pc'[u] = "decide", NEW g, g = Top(u)', g.newstate = "failed", Undec(g.tag)'
      PROVE  0 \in seen'[g.tag[2]]
  <2>1. PICK k : k = g.tag
    OBVIOUS
  <2>2. k \in Ops'
    <3>1. Control(u)'
      BY DEF Inv, ControlOK
    <3>2. Busy(u)'
      BY <1>6, <3>1 DEF Control
    <3>3. Len(frames'[u]) \in DOMAIN (frames'[u])
      BY <3>2, SMTT(60) DEF Busy, Inv, Types
    <3>4. GoodFrame(frames[u][Len(frames[u])], At(u, Len(frames[u])))'
      BY <3>3 DEF Inv, FramesOK
    <3> QED BY <1>6, <2>1, <3>4 DEF GoodFrame, Top
  <2>3. PICK o \in Threads : o = k[2]
    BY <2>2 DEF Ops
  <2>4. pc'[o] # "idle" /\ (k \in Ops => Undec(k) /\ pc[o] # "idle")
    BY <1>4, <1>6, <2>1, <2>2, <2>3
  <2>5. CASE u # t
    <3>1. pc[u] = "decide" /\ g = Top(u)
      BY <1>1, <1>6, <2>5 DEF Others, Top
    <3>2. Busy(u)
      BY <3>1 DEF Inv, ControlOK, Control
    <3>3. k \in Ops
      BY <2>1, <3>1, <3>2, TopFacts DEF Inv, GoodFrame
    <3>4. 0 \in seen[o]
      BY <1>6, <2>1, <2>3, <2>4, <3>1, <3>3 DEF SeenOK
    <3> QED BY <2>1, <2>3, <2>4, <3>3, <3>4, ObserveFacts
  <2>6. CASE u = t
    <3>1. PICK w : w = mem[rdesc[t].addr]
      OBVIOUS
    <3>2. /\ InstallRdcss(t) /\ pc[t] = "install" /\ k = Top(t).tag
          /\ w[1] = "value" /\ w # Value(rdesc[t].old2)
      BY <1>6, <2>1, <2>6, <3>1, GivesUp
    <3>3. Prepared(t)
      BY <3>2 DEF Inv, ControlOK, Control, Prepared
    <3>4. PICK i : i = Top(t).i
      OBVIOUS
    <3>5. /\ k \in Ops /\ i \in DOMAIN EntriesOf(k)
          /\ rdesc[t].addr = AddrOf(k, i) /\ rdesc[t].old2 = EntriesOf(k)[i][2]
      BY <3>2, <3>3, <3>4, PreparedFacts
    <3>6. PICK a \in Addrs : a = rdesc[t].addr
      BY <3>5, OpFacts DEF Inv
    <3>7. Contents[a] # rdesc[t].old2
      BY <3>1, <3>2, <3>6, WordKinds, MeaningFacts DEF Contents, isRdcss, isKcas
    <3>8. Contents' = Contents
      BY <1>1, <3>2, ContentsKept DEF Succeeds, Decide
    <3>9. Undec(k) /\ request'[o] = request[o]
      BY <1>1, <2>4, <3>2, <3>5 DEF Others, InstallRdcss, local
    <3>10. request[o].kind = "kcas" /\ EntriesOf(k)[i] \in {request[o].entries[j] : j \in DOMAIN request[o].entries}
      <4>1. request[o].kind = "kcas" /\ Members(EntriesOf(k)) = Members(request[o].entries)
        BY <2>3, <3>5, <3>9, UndecidedCall
      <4>2. EntriesOf(k)[i] \in Members(EntriesOf(k))
        BY <3>5 DEF Members
      <4> QED BY <4>1, <4>2 DEF Members
    <3>11. ~Atomic!Matches(Contents, request[o].entries)
      BY <3>5, <3>6, <3>7, <3>10 DEF Atomic!Matches, AddrOf
    <3>12. Atomic!RightAnswer(Contents', request'[o]) = 0
      BY <3>8, <3>9, <3>10, <3>11 DEF Atomic!RightAnswer
    <3>13. 0 \in seen'[o]
      BY <2>4, <3>12, ObserveFacts
    <3> QED BY <2>1, <2>3, <3>13
  <2> QED BY <2>5, <2>6
<1> QED BY <1>2, <1>3, <1>5, <1>6 DEF SeenOK

\* execute and readPtr are linearizable, whoever does the work (kcas.h:307-367, 397-411).
THEOREM KcasIsAtomic == Spec /\ []SeqsFit => Linearizable
<1>1. Init => Atomic!Init
  <2> SUFFICES ASSUME Init PROVE Atomic!Init
    OBVIOUS
  <2>1. Contents \in [Addrs -> Values]
    <3>1. \A a \in Addrs : Meaning(mem[a], a) = 0
      BY MeaningFacts DEF Init
    <3> QED BY <3>1, KcasAssumption DEF Contents
  <2>2. Status = [t \in Threads |-> "idle"] /\ Answer = [t \in Threads |-> 0]
    BY DEF Init, Status, Answer
  <2> QED BY <2>1, <2>2 DEF Init, Atomic!Init, NoRequest, Atomic!NoRequest
<1>2. Init => SeenOK
  <2> SUFFICES ASSUME Init PROVE SeenOK
    OBVIOUS
  <2>1. \A t \in Threads : pc[t] = "idle" /\ answer[t] = 0 /\ request[t].kind = "none"
    BY DEF Init, NoRequest
  <2> QED BY <2>1 DEF SeenOK
<1>3. Inv /\ Inv' /\ SeenOK /\ SeqsFit /\ [Next]_vars => SeenOK'
  <2>1. ASSUME Inv, Inv', SeenOK, SeqsFit, NEW t \in Threads, Step(t) PROVE SeenOK'
    BY <2>1, SeenOKStep
  <2>2. ASSUME SeenOK, UNCHANGED vars PROVE SeenOK'
    <3>1. Contents' = Contents
      BY <2>2 DEF vars, Contents, Meaning, DescOf, Current
    <3> QED BY <2>2, <3>1 DEF SeenOK, vars, Top, Undec, State, DescOf, Current
  <2> QED BY <2>1, <2>2 DEF Next, CallStep, WorkStep, Step
<1>4. Inv /\ SeenOK /\ SeqsFit /\ [Next]_vars => [Atomic!Next]_Atomic!kcasVars
  <2>1. ASSUME Inv, SeenOK, SeqsFit, NEW t \in Threads, Step(t) PROVE Atomic!Next
    <3>1. seen' = [u \in Threads |-> Atomic!Observe(u)]
      BY <2>1 DEF Step, Record
    <3>2. \/ \E u \in Threads : Atomic!Invoke(u) \/ Atomic!Apply(u) \/ Atomic!Report(u) \/ Atomic!Return(u)
          \/ UNCHANGED <<Contents, request, Status, Answer>>
      <4>1. CASE CallRead(t) \/ CallExecute(t)
        BY <2>1, <4>1, CallStepIs
      <4>2. CASE Return(t)
        BY <2>1, <4>2, ReturnStepIs
      <4>3. CASE Succeeds(t)
        BY <2>1, <4>3, SuccessIs
      <4>4. CASE Work(t) /\ ~Return(t) /\ ~Succeeds(t)
        BY <2>1, <4>4, InsideIs
      <4> QED BY <2>1, <4>1, <4>2, <4>3, <4>4 DEF Step
    <3> QED BY <3>1, <3>2 DEF Atomic!Next
  <2>2. ASSUME UNCHANGED vars PROVE UNCHANGED Atomic!kcasVars
    <3>1. Contents' = Contents
      BY <2>2 DEF vars, Contents, Meaning, DescOf, Current
    <3>2. Status' = Status /\ Answer' = Answer
      BY <2>2 DEF vars, Status, Answer, Applied
    <3> QED BY <2>2, <3>1, <3>2 DEF vars, Atomic!kcasVars
  <2> QED BY <2>1, <2>2 DEF Next, CallStep, WorkStep, Step
<1>5. Spec /\ []SeqsFit => []Inv
  BY TagsLead
<1> QED BY <1>1, <1>2, <1>3, <1>4, <1>5, PTL DEF Spec, Linearizable, Atomic!Spec
=============================================================================
