---------------------------- MODULE Counting_proofs ----------------------------
(***************************************************************************)
(* The programs that count, for any number of threads, increments and      *)
(* shards: q3_3's lock implements q3_2's, both exclude and count exactly;  *)
(* the counters of a2 read what they promise under the timed workload.     *)
(***************************************************************************)
EXTENDS Counting, Sequences, WellFoundedInduction, TLAPS

-----------------------------------------------------------------------------
\* q3_3's lock.  A thread's stores wait in its buffer between a store and the fence behind it: one
\* store, or what is left of the three that end a round.
Stored(x, value, from) == [var |-> x, val |-> value, at |-> from]
Raised(t, from) == Stored(Lock!Wants(t), TRUE, from)
Lowered(t, from) == Stored(Lock!Wants(t), FALSE, from)
Counted(t) == Stored("v", Incremented(tmp[t]), "write")
Passed(t) == Stored("turn", Other(t), "pass")

Buffers(t) ==
    CASE place[t] = "want fence"   -> {<< >>, <<Raised(t, "want")>>}
      [] place[t] = "rewant fence" -> {<< >>, <<Raised(t, "rewant")>>}
      [] place[t] = "yield fence"  -> {<< >>, <<Lowered(t, "yield")>>}
      [] place[t] = "pass"         -> {<< >>, <<Counted(t)>>}
      [] place[t] = "leave"        -> {<< >>, <<Passed(t)>>, <<Counted(t), Passed(t)>>}
      [] place[t] = "leave fence"  -> {<< >>, <<Lowered(t, "leave")>>, <<Passed(t), Lowered(t, "leave")>>,
                                       <<Counted(t), Passed(t), Lowered(t, "leave")>>}
      [] OTHER                     -> {<< >>}

LockInv ==
    /\ mem = [x \in Lock!Variables |-> mem[x]]
    /\ buffer = [t \in Threads |-> buffer[t]]
    /\ place = [t \in Threads |-> place[t]]
    /\ tmp = [t \in Threads |-> tmp[t]]
    /\ done = [t \in Threads |-> done[t]]
    /\ \A t \in Threads : buffer[t] \in Buffers(t)

\* Every instance has the definitions of LockedCounter once more.
LEMMA SameNames ==
    /\ Lock!Threads = Threads /\ Lock!SC!Threads = Threads
    /\ \A t : Lock!Other(t) = Other(t) /\ Lock!SC!Other(t) = Other(t)
    /\ \A n : Lock!Incremented(n) = Incremented(n) /\ Lock!SC!Incremented(n) = Incremented(n)
    /\ Lock!NotRead = -1 /\ Lock!SC!NotRead = -1
  BY DEF Threads, Other, Lock!Threads, Lock!SC!Threads, Lock!Other, Lock!SC!Other,
         Incremented, Lock!Incremented, Lock!SC!Incremented, Lock!NotRead, Lock!SC!NotRead

LEMMA VariableFacts ==
    /\ Lock!Turn = "turn" /\ Lock!V = "v" /\ Lock!Wants(0) = "wants 0" /\ Lock!Wants(1) = "wants 1"
    /\ Lock!Variables = {"wants 0", "wants 1", "turn", "v"}
    /\ \A t \in Threads : /\ Lock!Wants(t) \in Lock!Variables \ {"turn", "v"} /\ Other(t) \in Threads \ {t}
                          /\ \A u \in Threads : u = t \/ (u = Other(t) /\ Lock!Wants(u) # Lock!Wants(t))
  BY DEF Lock!Turn, Lock!V, Lock!Wants, Lock!Variables, Threads, Other

LEMMA LockInvInit == Lock!Init => LockInv
  <1> SUFFICES ASSUME Lock!Init PROVE LockInv
    OBVIOUS
  <1>1. \A t \in Threads : place[t] = "want" /\ buffer[t] = << >>
    BY SameNames DEF Lock!Init
  <1>2. \A t \in Threads : buffer[t] \in Buffers(t)
    BY <1>1 DEF Buffers
  <1>3. /\ mem = [x \in Lock!Variables |-> mem[x]]
        /\ buffer = [t \in Threads |-> buffer[t]]
        /\ place = [t \in Threads |-> place[t]]
        /\ tmp = [t \in Threads |-> tmp[t]]
        /\ done = [t \in Threads |-> done[t]]
    BY SameNames DEF Lock!Init
  <1> QED BY <1>2, <1>3 DEF LockInv

\* One step of the lock that is not a store: the buffer is as it was, which is empty at most places.
LEMMA LoadFacts ==
    ASSUME NEW t \in Threads, buffer[t] = << >>, NEW x
    PROVE  Lock!Load(t, x) = mem[x]
  BY DEF Lock!Load

LEMMA SCInit == Lock!Init => Lock!SC!Init
  <1> SUFFICES ASSUME Lock!Init PROVE Lock!SC!Init
    OBVIOUS
  <1>1. \A t \in Threads : Lock!PlaceSC(t) = "want" /\ mem[Lock!Wants(t)] = FALSE
    BY SameNames, VariableFacts DEF Lock!Init, Lock!PlaceSC
  <1>2. mem[Lock!Turn] = 0 /\ mem[Lock!V] = 0
    BY VariableFacts DEF Lock!Init
  <1>3. [t \in Threads |-> mem[Lock!Wants(t)]] = [t \in Threads |-> FALSE]
    BY <1>1
  <1> QED BY <1>1, <1>2, <1>3, SameNames DEF Lock!Init, Lock!SC!Init

LEMMA AppendToNone ==
    ASSUME NEW a
    PROVE  Append(<< >>, a) = <<a>>
  OBVIOUS

LEMMA AppendToOne ==
    ASSUME NEW a, NEW b
    PROVE  Append(<<a>>, b) = <<a, b>>
  <1> DEFINE s == Append(<<a>>, b)
  <1>1. <<a>> \in Seq({a, b}) /\ <<a, b>> \in Seq({a, b})
    OBVIOUS
  <1>2. s \in Seq({a, b}) /\ Len(s) = 2 /\ s[1] = a /\ s[2] = b
    BY <1>1
  <1>3. Len(<<a, b>>) = 2 /\ <<a, b>>[1] = a /\ <<a, b>>[2] = b
    OBVIOUS
  <1> HIDE DEF s
  <1>4. \A i \in 1..2 : s[i] = <<a, b>>[i]
    BY <1>2, <1>3
  <1>5. s = <<a, b>>
    BY <1>1, <1>2, <1>3, <1>4
  <1> QED BY <1>5 DEF s

LEMMA AppendToTwo ==
    ASSUME NEW a, NEW b, NEW d
    PROVE  Append(<<a, b>>, d) = <<a, b, d>>
  <1> DEFINE s == Append(<<a, b>>, d)
  <1>1. <<a, b>> \in Seq({a, b, d}) /\ <<a, b, d>> \in Seq({a, b, d})
    OBVIOUS
  <1>2. s \in Seq({a, b, d}) /\ Len(s) = 3 /\ s[1] = a /\ s[2] = b /\ s[3] = d
    BY <1>1
  <1>3. Len(<<a, b, d>>) = 3 /\ <<a, b, d>>[1] = a /\ <<a, b, d>>[2] = b /\ <<a, b, d>>[3] = d
    OBVIOUS
  <1> HIDE DEF s
  <1>4. \A i \in 1..3 : s[i] = <<a, b, d>>[i]
    BY <1>2, <1>3
  <1>5. s = <<a, b, d>>
    BY <1>1, <1>2, <1>3, <1>4
  <1> QED BY <1>5 DEF s

LEMMA One == ASSUME NEW a PROVE <<a>> # << >> /\ Head(<<a>>) = a /\ Tail(<<a>>) = << >>
  OBVIOUS

LEMMA Two == ASSUME NEW a, NEW b PROVE <<a, b>> # << >> /\ Head(<<a, b>>) = a /\ Tail(<<a, b>>) = <<b>>
  OBVIOUS

LEMMA Three ==
    ASSUME NEW a, NEW b, NEW d
    PROVE  <<a, b, d>> # << >> /\ Head(<<a, b, d>>) = a /\ Tail(<<a, b, d>>) = <<b, d>>
  OBVIOUS

\* What the others see of a step of t.
Others(t) ==
    /\ endless' = endless
    /\ \A u \in Threads \ {t} : buffer'[u] = buffer[u] /\ place'[u] = place[u] /\ tmp'[u] = tmp[u]

LEMMA OthersKeep ==
    ASSUME NEW t \in Threads, Others(t)
    PROVE  /\ \A u \in Threads \ {t} : Lock!PlaceSC(u)' = Lock!PlaceSC(u) /\ Buffers(u)' = Buffers(u)
           /\ [u \in Threads |-> Lock!PlaceSC(u)]'
                  = [[u \in Threads |-> Lock!PlaceSC(u)] EXCEPT ![t] = Lock!PlaceSC(t)']
  <1>1. ASSUME NEW u \in Threads \ {t}
        PROVE  Lock!PlaceSC(u)' = Lock!PlaceSC(u) /\ Buffers(u)' = Buffers(u)
    BY <1>1 DEF Others, Lock!PlaceSC, Buffers, Stored, Raised, Lowered, Counted, Passed, Incremented
  <1>2. [u \in Threads |-> Lock!PlaceSC(u)]' = [u \in Threads |-> Lock!PlaceSC(u)']
    OBVIOUS
  <1> DEFINE P(u) == Lock!PlaceSC(u)
             Q(u) == Lock!PlaceSC(u)'
  <1>3. \A u \in Threads \ {t} : Q(u) = P(u)
    BY <1>1
  <1>4. [u \in Threads |-> Q(u)] = [[u \in Threads |-> P(u)] EXCEPT ![t] = Q(t)]
    <2> HIDE DEF P, Q
    <2> QED BY <1>3
  <1> QED BY <1>1, <1>2, <1>4

\* A store changes nothing of q3_2's state: it takes effect when it is drained.
LEMMA StoreStep ==
    ASSUME LockInv, NEW t \in Threads, NEW x, NEW value, NEW to,
           Lock!Store(t, x, value, to),
           place[t] \in {"want", "yield", "rewant", "write", "pass", "leave"}
    PROVE  /\ buffer'[t] = Append(buffer[t], Stored(x, value, place[t])) /\ place'[t] = to
           /\ tmp' = tmp /\ endless' = endless /\ Others(t)
           /\ buffer'[t] \in Buffers(t)' => LockInv'
           /\ UNCHANGED Lock!SC!vars
  <1>1. /\ buffer' = [buffer EXCEPT ![t] = Append(buffer[t], Stored(x, value, place[t]))]
        /\ place' = [place EXCEPT ![t] = to]
        /\ UNCHANGED <<mem, tmp, done, result, endless>>
    BY DEF Lock!Store, Lock!Goto, Stored
  <1>2. buffer'[t] = Append(buffer[t], Stored(x, value, place[t])) /\ place'[t] = to /\ Others(t)
    BY <1>1 DEF LockInv, Others
  <1>3. Lock!PlaceSC(t)' = Lock!PlaceSC(t)
    <2>1. CASE buffer[t] = << >>
      <3>1. buffer'[t] = <<Stored(x, value, place[t])>>
        BY <1>2, <2>1, AppendToNone
      <3>2. Lock!PlaceSC(t)' = place[t]
        BY <3>1, One DEF Lock!PlaceSC, Stored
      <3>3. Lock!PlaceSC(t) = place[t]
        BY <2>1 DEF Lock!PlaceSC
      <3> QED BY <3>2, <3>3
    <2>2. CASE buffer[t] # << >>
      <3>1. buffer'[t] # << >> /\ Head(buffer'[t]) = Head(buffer[t])
        <4>1. (\E a : buffer[t] = <<a>>) \/ (\E a, b : buffer[t] = <<a, b>>)
          BY <2>2 DEF LockInv, Buffers
        <4>2. ASSUME NEW a, buffer[t] = <<a>> PROVE  buffer'[t] # << >> /\ Head(buffer'[t]) = Head(buffer[t])
          BY <1>2, <4>2, One, Two, AppendToOne
        <4>3. ASSUME NEW a, NEW b, buffer[t] = <<a, b>> PROVE  buffer'[t] # << >> /\ Head(buffer'[t]) = Head(buffer[t])
          BY <1>2, <4>3, Two, Three, AppendToTwo
        <4> QED BY <4>1, <4>2, <4>3
      <3> QED BY <2>2, <3>1 DEF Lock!PlaceSC
    <2> QED BY <2>1, <2>2
  <1>4. [u \in Threads |-> Lock!PlaceSC(u)]' = [u \in Threads |-> Lock!PlaceSC(u)]
    BY <1>2, <1>3, OthersKeep
  <1>5. buffer'[t] \in Buffers(t)' => LockInv'
    BY <1>1, <1>2, OthersKeep DEF LockInv
  <1>6. UNCHANGED Lock!SC!vars
    BY <1>1, <1>4, SameNames DEF Lock!SC!vars
  <1> QED BY <1>1, <1>2, <1>5, <1>6

\* A step that stores nothing finds its buffer empty, and what it loads is in memory.
LEMMA OtherStep ==
    ASSUME LockInv, NEW t \in Threads, NEW to,
           buffer[t] = << >>, Lock!Goto(t, to), UNCHANGED <<mem, buffer, endless>>,
           \A u \in Threads \ {t} : tmp'[u] = tmp[u],
           tmp' = [u \in Threads |-> tmp'[u]], done' = [u \in Threads |-> done'[u]]
    PROVE  /\ LockInv' /\ place'[t] = to /\ buffer'[t] = << >>
           /\ [u \in Threads |-> Lock!PlaceSC(u)]'
                  = [[u \in Threads |-> Lock!PlaceSC(u)] EXCEPT ![t] = Lock!PlaceSC(t)']
           /\ [u \in Threads |-> mem[Lock!Wants(u)]]' = [u \in Threads |-> mem[Lock!Wants(u)]]
           /\ UNCHANGED <<mem[Lock!Turn], mem[Lock!V]>>
  <1>1. place' = [place EXCEPT ![t] = to] /\ place'[t] = to /\ buffer'[t] = << >> /\ Others(t)
    BY DEF LockInv, Lock!Goto, Others
  <1>2. buffer'[t] \in Buffers(t)'
    BY <1>1 DEF Buffers
  <1>3. LockInv'
    BY <1>1, <1>2, OthersKeep DEF LockInv
  <1>4. [u \in Threads |-> mem[Lock!Wants(u)]]' = [u \in Threads |-> mem[Lock!Wants(u)]]
    OBVIOUS
  <1> QED BY <1>1, <1>3, <1>4, OthersKeep

LEMMA EmptyBuffer ==
    ASSUME LockInv, NEW t \in Threads,
           place[t] \notin {"want fence", "rewant fence", "yield fence", "pass", "leave", "leave fence"}
    PROVE  buffer[t] = << >> /\ \A x : Lock!Load(t, x) = mem[x]
  <1>1. buffer[t] = << >>
    BY DEF LockInv, Buffers
  <1> QED BY <1>1, LoadFacts

LEMMA FenceStep ==
    ASSUME LockInv, NEW t \in Threads, NEW from, NEW to, Lock!Fence(t, from, to),
           <<from, to>> \in {<<"want fence", "test">>, <<"test fence", "turn">>, <<"yield fence", "spin">>,
                             <<"spin fence", "spin">>, <<"rewant fence", "test">>, <<"leave fence", "loop">>}
    PROVE  LockInv' /\ UNCHANGED Lock!SC!vars
  <1>1. /\ place[t] = from /\ buffer[t] = << >> /\ Lock!Goto(t, to)
        /\ UNCHANGED <<mem, buffer, tmp, done, result, endless>>
    BY DEF Lock!Fence, Lock!At
  <1>2. /\ LockInv' /\ place'[t] = to /\ buffer'[t] = << >>
        /\ [u \in Threads |-> Lock!PlaceSC(u)]'
               = [[u \in Threads |-> Lock!PlaceSC(u)] EXCEPT ![t] = Lock!PlaceSC(t)']
        /\ [u \in Threads |-> mem[Lock!Wants(u)]]' = [u \in Threads |-> mem[Lock!Wants(u)]]
        /\ UNCHANGED <<mem[Lock!Turn], mem[Lock!V]>>
    <2>1. tmp' = [u \in Threads |-> tmp'[u]] /\ done' = [u \in Threads |-> done'[u]]
      BY <1>1 DEF LockInv
    <2> QED BY <1>1, <2>1, OtherStep
  <1>3. Lock!PlaceSC(t)' = to /\ Lock!PlaceSC(t) = to
    BY <1>1, <1>2 DEF Lock!PlaceSC
  <1>4. [u \in Threads |-> Lock!PlaceSC(u)]' = [u \in Threads |-> Lock!PlaceSC(u)]
    BY <1>2, <1>3
  <1> QED BY <1>1, <1>2, <1>4, SameNames DEF Lock!SC!vars

\* The loads are q3_2's, with the fence behind them.
LEMMA BranchStep ==
    ASSUME LockInv, NEW t \in Threads, NEW from, NEW to, Lock!Branch(t, from, to),
           from \in {"test", "turn", "spin"}
    PROVE  /\ LockInv' /\ place[t] = from /\ place'[t] = to /\ buffer[t] = << >> /\ buffer'[t] = << >>
           /\ Lock!PlaceSC(t) = from
           /\ [u \in Threads |-> Lock!PlaceSC(u)]'
                  = [[u \in Threads |-> Lock!PlaceSC(u)] EXCEPT ![t] = Lock!PlaceSC(t)']
           /\ [u \in Threads |-> mem[Lock!Wants(u)]]' = [u \in Threads |-> mem[Lock!Wants(u)]]
           /\ UNCHANGED <<mem[Lock!Turn], mem[Lock!V], tmp, done, result, endless>>
  <1>1. /\ place[t] = from /\ Lock!Goto(t, to) /\ UNCHANGED <<mem, buffer, tmp, done, result, endless>>
    BY DEF Lock!Branch, Lock!At
  <1>2. buffer[t] = << >>
    BY <1>1, EmptyBuffer
  <1>3. tmp' = [u \in Threads |-> tmp'[u]] /\ done' = [u \in Threads |-> done'[u]]
    BY <1>1 DEF LockInv
  <1>4. Lock!PlaceSC(t) = from
    BY <1>1, <1>2 DEF Lock!PlaceSC
  <1> QED BY <1>1, <1>2, <1>3, <1>4, OtherStep

LEMMA TestStep == ASSUME LockInv, NEW t \in Threads, Lock!Test(t) PROVE LockInv' /\ Lock!SC!Test(t)
  <1> DEFINE to == IF Lock!Load(t, Lock!Wants(Lock!Other(t))) THEN "test fence" ELSE "read"
  <1>1. Lock!Branch(t, "test", to)
    BY DEF Lock!Test
  <1>2. to = IF mem[Lock!Wants(Other(t))] THEN "test fence" ELSE "read"
    BY <1>1, EmptyBuffer, SameNames DEF Lock!Branch, Lock!At
  <1>3. to \in {"test fence", "read"}
    OBVIOUS
  <1> HIDE DEF to
  <1>4. /\ LockInv' /\ place'[t] = to /\ buffer'[t] = << >> /\ Lock!PlaceSC(t) = "test"
        /\ [u \in Threads |-> Lock!PlaceSC(u)]'
               = [[u \in Threads |-> Lock!PlaceSC(u)] EXCEPT ![t] = Lock!PlaceSC(t)']
        /\ [u \in Threads |-> mem[Lock!Wants(u)]]' = [u \in Threads |-> mem[Lock!Wants(u)]]
        /\ UNCHANGED <<mem[Lock!Turn], mem[Lock!V], tmp, done, result, endless>>
    BY <1>1, BranchStep
  <1>5. Lock!PlaceSC(t)' = IF mem[Lock!Wants(Other(t))] THEN "turn" ELSE "read"
    BY <1>2, <1>4 DEF Lock!PlaceSC
  <1>6. Other(t) \in Threads
    BY VariableFacts
  <1> QED BY <1>4, <1>5, <1>6, SameNames DEF Lock!SC!Test, Lock!SC!At, Lock!SC!Goto

LEMMA LookAtTurnStep ==
    ASSUME LockInv, NEW t \in Threads, Lock!LookAtTurn(t)
    PROVE  LockInv' /\ Lock!SC!LookAtTurn(t)
  <1> DEFINE to == IF Lock!Load(t, Lock!Turn) = t THEN "test" ELSE "yield"
  <1>1. Lock!Branch(t, "turn", to)
    BY DEF Lock!LookAtTurn
  <1>2. to = IF mem[Lock!Turn] = t THEN "test" ELSE "yield"
    BY <1>1, EmptyBuffer DEF Lock!Branch, Lock!At
  <1> HIDE DEF to
  <1>4. /\ LockInv' /\ place'[t] = to /\ buffer'[t] = << >> /\ Lock!PlaceSC(t) = "turn"
        /\ [u \in Threads |-> Lock!PlaceSC(u)]'
               = [[u \in Threads |-> Lock!PlaceSC(u)] EXCEPT ![t] = Lock!PlaceSC(t)']
        /\ [u \in Threads |-> mem[Lock!Wants(u)]]' = [u \in Threads |-> mem[Lock!Wants(u)]]
        /\ UNCHANGED <<mem[Lock!Turn], mem[Lock!V], tmp, done, result, endless>>
    BY <1>1, BranchStep
  <1>5. Lock!PlaceSC(t)' = IF mem[Lock!Turn] = t THEN "test" ELSE "yield"
    BY <1>2, <1>4 DEF Lock!PlaceSC
  <1> QED BY <1>4, <1>5, SameNames DEF Lock!SC!LookAtTurn, Lock!SC!At, Lock!SC!Goto

LEMMA SpinStep ==
    ASSUME LockInv, NEW t \in Threads, Lock!Spin(t)
    PROVE  LockInv' /\ (Lock!SC!Spin(t) \/ UNCHANGED Lock!SC!vars)
  <1> DEFINE to == IF Lock!Load(t, Lock!Turn) = t THEN "rewant" ELSE "spin fence"
  <1>1. Lock!Branch(t, "spin", to)
    BY DEF Lock!Spin
  <1>2. to = IF mem[Lock!Turn] = t THEN "rewant" ELSE "spin fence"
    BY <1>1, EmptyBuffer DEF Lock!Branch, Lock!At
  <1> HIDE DEF to
  <1>4. /\ LockInv' /\ place'[t] = to /\ buffer'[t] = << >> /\ Lock!PlaceSC(t) = "spin"
        /\ [u \in Threads |-> Lock!PlaceSC(u)]'
               = [[u \in Threads |-> Lock!PlaceSC(u)] EXCEPT ![t] = Lock!PlaceSC(t)']
        /\ [u \in Threads |-> mem[Lock!Wants(u)]]' = [u \in Threads |-> mem[Lock!Wants(u)]]
        /\ UNCHANGED <<mem[Lock!Turn], mem[Lock!V], tmp, done, result, endless>>
    BY <1>1, BranchStep
  <1>5. Lock!PlaceSC(t)' = IF mem[Lock!Turn] = t THEN "rewant" ELSE "spin"
    BY <1>2, <1>4 DEF Lock!PlaceSC
  <1>6. CASE mem[Lock!Turn] = t
    BY <1>4, <1>5, <1>6, SameNames DEF Lock!SC!Spin, Lock!SC!At, Lock!SC!Goto
  <1>7. CASE mem[Lock!Turn] # t
    <2>1. [u \in Threads |-> Lock!PlaceSC(u)]' = [u \in Threads |-> Lock!PlaceSC(u)]
      BY <1>4, <1>5, <1>7
    <2> QED BY <1>4, <2>1, SameNames DEF Lock!SC!vars
  <1> QED BY <1>4, <1>6, <1>7

LEMMA ReadStep == ASSUME LockInv, NEW t \in Threads, Lock!Read(t) PROVE LockInv' /\ Lock!SC!Read(t)
  <1>1. place[t] = "read" /\ Lock!Goto(t, "write") /\ UNCHANGED <<mem, buffer, done, result, endless>>
    BY DEF Lock!Read, Lock!At
  <1>2. buffer[t] = << >> /\ Lock!Load(t, Lock!V) = mem[Lock!V]
    BY <1>1, EmptyBuffer
  <1>3. tmp' = [tmp EXCEPT ![t] = mem[Lock!V]]
    BY <1>2 DEF Lock!Read
  <1>4. /\ \A u \in Threads \ {t} : tmp'[u] = tmp[u]
        /\ tmp' = [u \in Threads |-> tmp'[u]] /\ done' = [u \in Threads |-> done'[u]]
    BY <1>1, <1>3 DEF LockInv
  <1>5. /\ LockInv' /\ place'[t] = "write" /\ buffer'[t] = << >>
        /\ [u \in Threads |-> Lock!PlaceSC(u)]'
               = [[u \in Threads |-> Lock!PlaceSC(u)] EXCEPT ![t] = Lock!PlaceSC(t)']
        /\ [u \in Threads |-> mem[Lock!Wants(u)]]' = [u \in Threads |-> mem[Lock!Wants(u)]]
        /\ UNCHANGED <<mem[Lock!Turn], mem[Lock!V]>>
    BY <1>1, <1>2, <1>4, OtherStep
  <1>6. Lock!PlaceSC(t) = "read" /\ Lock!PlaceSC(t)' = "write"
    BY <1>1, <1>2, <1>5 DEF Lock!PlaceSC
  <1> QED BY <1>1, <1>3, <1>5, <1>6, SameNames DEF Lock!SC!Read, Lock!SC!At, Lock!SC!Goto

LEMMA LoopStep == ASSUME LockInv, NEW t \in Threads, Lock!Loop(t) PROVE LockInv' /\ Lock!SC!Loop(t)
  <1> DEFINE to == IF endless \/ done[t] + 1 < Increments THEN "want" ELSE "finished"
  <1>1. /\ place[t] = "loop" /\ Lock!Goto(t, to) /\ UNCHANGED <<mem, buffer, tmp, result, endless>>
        /\ done' = [done EXCEPT ![t] = IF endless THEN @ ELSE @ + 1]
    BY DEF Lock!Loop, Lock!At
  <1>2. buffer[t] = << >>
    BY <1>1, EmptyBuffer
  <1>3. tmp' = [u \in Threads |-> tmp'[u]] /\ done' = [u \in Threads |-> done'[u]]
    BY <1>1 DEF LockInv
  <1>4. to \in {"want", "finished"}
    OBVIOUS
  <1>5. Lock!SC!Goto(t, to) <=> [u \in Threads |-> Lock!PlaceSC(u)]'
                                    = [[u \in Threads |-> Lock!PlaceSC(u)] EXCEPT ![t] = to]
    BY SameNames DEF Lock!SC!Goto
  <1>6. Lock!SC!Loop(t) <=> /\ Lock!SC!At(t, "loop") /\ done' = [done EXCEPT ![t] = IF endless THEN @ ELSE @ + 1]
                            /\ Lock!SC!Goto(t, to)
                            /\ UNCHANGED <<[u \in Threads |-> mem[Lock!Wants(u)]], mem[Lock!Turn],
                                           mem[Lock!V], tmp, result, endless>>
    BY SameNames DEF Lock!SC!Loop
  <1> HIDE DEF to
  <1>7. /\ LockInv' /\ place'[t] = to /\ buffer'[t] = << >>
        /\ [u \in Threads |-> Lock!PlaceSC(u)]'
               = [[u \in Threads |-> Lock!PlaceSC(u)] EXCEPT ![t] = Lock!PlaceSC(t)']
        /\ [u \in Threads |-> mem[Lock!Wants(u)]]' = [u \in Threads |-> mem[Lock!Wants(u)]]
        /\ UNCHANGED <<mem[Lock!Turn], mem[Lock!V]>>
    BY <1>1, <1>2, <1>3, OtherStep
  <1>8. Lock!PlaceSC(t) = "loop" /\ Lock!PlaceSC(t)' = to
    BY <1>1, <1>2, <1>4, <1>7 DEF Lock!PlaceSC
  <1>9. Lock!SC!At(t, "loop")
    BY <1>8, SameNames DEF Lock!SC!At
  <1>10. Lock!SC!Goto(t, to)
    BY <1>5, <1>7, <1>8
  <1>11. UNCHANGED <<[u \in Threads |-> mem[Lock!Wants(u)]], mem[Lock!Turn], mem[Lock!V], tmp, result, endless>>
    BY <1>1, <1>7
  <1> QED BY <1>1, <1>6, <1>7, <1>9, <1>10, <1>11

LEMMA StoresStutter ==
    ASSUME LockInv, NEW t \in Threads,
           \/ Lock!Want(t) \/ Lock!Yield(t) \/ Lock!Rewant(t)
           \/ Lock!Write(t) \/ Lock!PassTurn(t) \/ Lock!Leave(t)
    PROVE  LockInv' /\ UNCHANGED Lock!SC!vars
  <1>1. CASE Lock!Want(t)
    <2>1. place[t] = "want" /\ Lock!Store(t, Lock!Wants(t), TRUE, "want fence")
      BY <1>1 DEF Lock!Want, Lock!At
    <2>2. buffer[t] = << >>
      BY <2>1, EmptyBuffer
    <2>3. buffer'[t] = Append(buffer[t], Raised(t, "want")) /\ place'[t] = "want fence"
      BY <2>1, StoreStep DEF Raised
    <2>4. buffer'[t] = <<Raised(t, "want")>>
      BY <2>2, <2>3, AppendToNone
    <2>5. buffer'[t] \in Buffers(t)'
      BY <2>3, <2>4 DEF Buffers, Raised, Stored
    <2> QED BY <2>1, <2>5, StoreStep
  <1>2. CASE Lock!Yield(t)
    <2>1. place[t] = "yield" /\ Lock!Store(t, Lock!Wants(t), FALSE, "yield fence")
      BY <1>2 DEF Lock!Yield, Lock!At
    <2>2. buffer[t] = << >>
      BY <2>1, EmptyBuffer
    <2>3. buffer'[t] = Append(buffer[t], Lowered(t, "yield")) /\ place'[t] = "yield fence"
      BY <2>1, StoreStep DEF Lowered
    <2>4. buffer'[t] = <<Lowered(t, "yield")>>
      BY <2>2, <2>3, AppendToNone
    <2>5. buffer'[t] \in Buffers(t)'
      BY <2>3, <2>4 DEF Buffers, Lowered, Stored
    <2> QED BY <2>1, <2>5, StoreStep
  <1>3. CASE Lock!Rewant(t)
    <2>1. place[t] = "rewant" /\ Lock!Store(t, Lock!Wants(t), TRUE, "rewant fence")
      BY <1>3 DEF Lock!Rewant, Lock!At
    <2>2. buffer[t] = << >>
      BY <2>1, EmptyBuffer
    <2>3. buffer'[t] = Append(buffer[t], Raised(t, "rewant")) /\ place'[t] = "rewant fence"
      BY <2>1, StoreStep DEF Raised
    <2>4. buffer'[t] = <<Raised(t, "rewant")>>
      BY <2>2, <2>3, AppendToNone
    <2>5. buffer'[t] \in Buffers(t)'
      BY <2>3, <2>4 DEF Buffers, Raised, Stored
    <2> QED BY <2>1, <2>5, StoreStep
  <1>4. CASE Lock!Write(t)
    <2>1. place[t] = "write" /\ Lock!Store(t, Lock!V, Incremented(tmp[t]), "pass")
      BY <1>4, SameNames DEF Lock!Write, Lock!At
    <2>2. buffer[t] = << >>
      BY <2>1, EmptyBuffer
    <2>3. buffer'[t] = Append(buffer[t], Counted(t)) /\ place'[t] = "pass" /\ UNCHANGED <<tmp, endless>>
      <3>1. Lock!V = "v"
        BY VariableFacts
      <3> QED BY <2>1, <3>1, StoreStep DEF Counted
    <2>4. buffer'[t] = <<Counted(t)>>
      BY <2>2, <2>3, AppendToNone
    <2>5. buffer'[t] \in Buffers(t)'
      BY <2>3, <2>4 DEF Buffers, Counted, Incremented, Stored
    <2> QED BY <2>1, <2>5, StoreStep
  <1>5. CASE Lock!PassTurn(t)
    <2>1. place[t] = "pass" /\ Lock!Store(t, Lock!Turn, Lock!Other(t), "leave")
      BY <1>5 DEF Lock!PassTurn, Lock!At
    <2>2. buffer[t] \in {<< >>, <<Counted(t)>>}
      BY <2>1 DEF LockInv, Buffers
    <2>3. buffer'[t] = Append(buffer[t], Passed(t)) /\ place'[t] = "leave" /\ UNCHANGED <<tmp, endless>>
      <3>1. Lock!Turn = "turn" /\ Lock!Other(t) = Other(t)
        BY SameNames, VariableFacts
      <3> QED BY <2>1, <3>1, StoreStep DEF Passed
    <2>4. buffer'[t] \in {<< >>, <<Passed(t)>>, <<Counted(t), Passed(t)>>}
      BY <2>2, <2>3, AppendToNone, AppendToOne
    <2>5. buffer'[t] \in Buffers(t)'
      BY <2>3, <2>4 DEF Buffers, Counted, Incremented, Passed, Stored
    <2> QED BY <2>1, <2>5, StoreStep
  <1>6. CASE Lock!Leave(t)
    <2>1. place[t] = "leave" /\ Lock!Store(t, Lock!Wants(t), FALSE, "leave fence")
      BY <1>6 DEF Lock!Leave, Lock!At
    <2>2. buffer[t] \in {<< >>, <<Passed(t)>>, <<Counted(t), Passed(t)>>}
      BY <2>1 DEF LockInv, Buffers
    <2>3. buffer'[t] = Append(buffer[t], Lowered(t, "leave")) /\ place'[t] = "leave fence" /\ UNCHANGED <<tmp, endless>>
      BY <2>1, StoreStep DEF Lowered
    <2>4. buffer'[t] \in {<< >>, <<Lowered(t, "leave")>>, <<Passed(t), Lowered(t, "leave")>>,
                          <<Counted(t), Passed(t), Lowered(t, "leave")>>}
      BY <2>2, <2>3, AppendToNone, AppendToOne, AppendToTwo, ZenonT(60)
    <2>5. buffer'[t] \in Buffers(t)'
      BY <2>3, <2>4 DEF Buffers, Counted, Incremented, Passed, Lowered, Stored
    <2> QED BY <2>1, <2>5, StoreStep
  <1> QED BY <1>1, <1>2, <1>3, <1>4, <1>5, <1>6

\* A store that is drained is q3_2's step.
LEMMA DrainStep ==
    ASSUME LockInv, NEW t \in Threads, Lock!Drain(t), NEW h, NEW rest,
           Head(buffer[t]) = h, Tail(buffer[t]) = rest, rest \in Buffers(t),
           h.var \in Lock!Variables
    PROVE  /\ LockInv' /\ buffer'[t] = rest /\ place'[t] = place[t]
           /\ mem'[h.var] = h.val /\ \A x \in Lock!Variables \ {h.var} : mem'[x] = mem[x]
           /\ [u \in Threads |-> Lock!PlaceSC(u)]'
                  = [[u \in Threads |-> Lock!PlaceSC(u)] EXCEPT ![t] = Lock!PlaceSC(t)']
           /\ Lock!PlaceSC(t) = h.at
           /\ UNCHANGED <<tmp, done, result, endless>>
  <1>1. /\ buffer[t] # << >> /\ mem' = [mem EXCEPT ![h.var] = h.val]
        /\ buffer' = [buffer EXCEPT ![t] = rest] /\ UNCHANGED <<place, tmp, done, result, endless>>
    BY DEF Lock!Drain
  <1>2. buffer'[t] = rest /\ Others(t)
    BY <1>1 DEF LockInv, Others
  <1>3. Buffers(t)' = Buffers(t)
    BY <1>1 DEF Buffers, Stored, Raised, Lowered, Counted, Incremented, Passed
  <1>4. mem' = [x \in Lock!Variables |-> mem'[x]]
    BY <1>1 DEF LockInv
  <1>5. LockInv'
    <2>1. /\ buffer' = [u \in Threads |-> buffer'[u]] /\ place' = [u \in Threads |-> place'[u]]
          /\ tmp' = [u \in Threads |-> tmp'[u]] /\ done' = [u \in Threads |-> done'[u]]
      BY <1>1 DEF LockInv
    <2>2. \A u \in Threads : buffer'[u] \in Buffers(u)'
      BY <1>2, <1>3, OthersKeep, ZenonT(60) DEF LockInv, Others
    <2> QED BY <1>4, <2>1, <2>2 DEF LockInv
  <1>6. mem'[h.var] = h.val /\ \A x \in Lock!Variables \ {h.var} : mem'[x] = mem[x]
    BY <1>1 DEF LockInv
  <1>7. Lock!PlaceSC(t) = h.at
    BY <1>1 DEF Lock!PlaceSC
  <1> QED BY <1>1, <1>2, <1>5, <1>6, <1>7, OthersKeep

LEMMA FlagDrained ==
    ASSUME LockInv, NEW t \in Threads, Lock!Drain(t), NEW value, NEW from,
           buffer[t] = <<Stored(Lock!Wants(t), value, from)>>, NEW to, Lock!PlaceSC(t)' = to
    PROVE  LockInv' /\ Lock!SC!SetWants(t, from, value, to)
  <1> DEFINE h == Stored(Lock!Wants(t), value, from)
  <1>1. Head(buffer[t]) = h /\ Tail(buffer[t]) = << >> /\ << >> \in Buffers(t)
    BY One DEF Buffers
  <1>2. h.var = Lock!Wants(t) /\ h.val = value /\ h.at = from
    BY DEF Stored
  <1>3. h.var \in Lock!Variables
    BY <1>2, VariableFacts
  <1> HIDE DEF h
  <1>4. /\ LockInv' /\ mem'[h.var] = h.val /\ \A x \in Lock!Variables \ {h.var} : mem'[x] = mem[x]
        /\ [u \in Threads |-> Lock!PlaceSC(u)]'
               = [[u \in Threads |-> Lock!PlaceSC(u)] EXCEPT ![t] = Lock!PlaceSC(t)']
        /\ Lock!PlaceSC(t) = h.at
        /\ UNCHANGED <<tmp, done, result, endless>>
    BY <1>1, <1>3, DrainStep
  <1>5. \A u \in Threads : mem'[Lock!Wants(u)] = IF u = t THEN value ELSE mem[Lock!Wants(u)]
    <2>1. mem'[Lock!Wants(t)] = value
      BY <1>2, <1>4
    <2>2. \A u \in Threads \ {t} : Lock!Wants(u) \in Lock!Variables \ {h.var}
      BY <1>2, VariableFacts, ZenonT(60)
    <2> QED BY <1>4, <2>1, <2>2
  <1>6. [u \in Threads |-> mem[Lock!Wants(u)]]' = [[u \in Threads |-> mem[Lock!Wants(u)]] EXCEPT ![t] = value]
    BY <1>5
  <1>7. UNCHANGED <<mem[Lock!Turn], mem[Lock!V]>>
    BY <1>2, <1>4, VariableFacts
  <1> QED BY <1>2, <1>4, <1>6, <1>7, SameNames DEF Lock!SC!SetWants, Lock!SC!At, Lock!SC!Goto

LEMMA CountDrained ==
    ASSUME LockInv, NEW t \in Threads, Lock!Drain(t), NEW rest,
           Head(buffer[t]) = Counted(t), Tail(buffer[t]) = rest, rest \in Buffers(t),
           Lock!PlaceSC(t)' = "pass"
    PROVE  LockInv' /\ Lock!SC!Write(t)
  <1> DEFINE h == Counted(t)
  <1>1. h.var = "v" /\ h.val = Incremented(tmp[t]) /\ h.at = "write"
    BY DEF Counted, Stored
  <1>2. h.var \in Lock!Variables
    BY <1>1, VariableFacts
  <1> HIDE DEF h
  <1>3. Head(buffer[t]) = h
    BY DEF h
  <1>4. /\ LockInv' /\ mem'[h.var] = h.val /\ \A x \in Lock!Variables \ {h.var} : mem'[x] = mem[x]
        /\ [u \in Threads |-> Lock!PlaceSC(u)]'
               = [[u \in Threads |-> Lock!PlaceSC(u)] EXCEPT ![t] = Lock!PlaceSC(t)']
        /\ Lock!PlaceSC(t) = h.at
        /\ UNCHANGED <<tmp, done, result, endless>>
    BY <1>2, <1>3, DrainStep
  <1>5. \A u \in Threads : mem'[Lock!Wants(u)] = mem[Lock!Wants(u)]
    BY <1>1, <1>4, VariableFacts
  <1>6. [u \in Threads |-> mem[Lock!Wants(u)]]' = [u \in Threads |-> mem[Lock!Wants(u)]]
    BY <1>5
  <1>7. UNCHANGED mem[Lock!Turn] /\ mem'[Lock!V] = Incremented(tmp[t])
    BY <1>1, <1>4, VariableFacts
  <1> QED BY <1>1, <1>4, <1>6, <1>7, SameNames DEF Lock!SC!Write, Lock!SC!At, Lock!SC!Goto

LEMMA TurnDrained ==
    ASSUME LockInv, NEW t \in Threads, Lock!Drain(t), NEW rest,
           Head(buffer[t]) = Passed(t), Tail(buffer[t]) = rest, rest \in Buffers(t),
           Lock!PlaceSC(t)' = "leave"
    PROVE  LockInv' /\ Lock!SC!PassTurn(t)
  <1> DEFINE h == Passed(t)
  <1>1. h.var = "turn" /\ h.val = Other(t) /\ h.at = "pass"
    BY DEF Passed, Stored
  <1>2. h.var \in Lock!Variables
    BY <1>1, VariableFacts
  <1> HIDE DEF h
  <1>3. Head(buffer[t]) = h
    BY DEF h
  <1>4. /\ LockInv' /\ mem'[h.var] = h.val /\ \A x \in Lock!Variables \ {h.var} : mem'[x] = mem[x]
        /\ [u \in Threads |-> Lock!PlaceSC(u)]'
               = [[u \in Threads |-> Lock!PlaceSC(u)] EXCEPT ![t] = Lock!PlaceSC(t)']
        /\ Lock!PlaceSC(t) = h.at
        /\ UNCHANGED <<tmp, done, result, endless>>
    BY <1>2, <1>3, DrainStep
  <1>5. \A u \in Threads : mem'[Lock!Wants(u)] = mem[Lock!Wants(u)]
    BY <1>1, <1>4, VariableFacts
  <1>6. [u \in Threads |-> mem[Lock!Wants(u)]]' = [u \in Threads |-> mem[Lock!Wants(u)]]
    BY <1>5
  <1>7. UNCHANGED mem[Lock!V] /\ mem'[Lock!Turn] = Other(t)
    BY <1>1, <1>4, VariableFacts
  <1> QED BY <1>1, <1>4, <1>6, <1>7, SameNames DEF Lock!SC!PassTurn, Lock!SC!At, Lock!SC!Goto
LEMMA DrainImplements ==
    ASSUME LockInv, NEW t \in Threads, Lock!Drain(t)
    PROVE  LockInv' /\ Lock!SC!Step(t)
  <1>1. buffer'[t] = Tail(buffer[t]) /\ place' = place /\ buffer[t] # << >>
    BY DEF Lock!Drain, LockInv
  <1>2. \/ place[t] = "want fence" /\ buffer[t] = <<Raised(t, "want")>>
        \/ place[t] = "rewant fence" /\ buffer[t] = <<Raised(t, "rewant")>>
        \/ place[t] = "yield fence" /\ buffer[t] = <<Lowered(t, "yield")>>
        \/ place[t] = "leave fence" /\ buffer[t] = <<Lowered(t, "leave")>>
        \/ place[t] = "pass" /\ buffer[t] = <<Counted(t)>>
        \/ place[t] = "leave" /\ buffer[t] = <<Counted(t), Passed(t)>>
        \/ place[t] = "leave fence" /\ buffer[t] = <<Counted(t), Passed(t), Lowered(t, "leave")>>
        \/ place[t] = "leave" /\ buffer[t] = <<Passed(t)>>
        \/ place[t] = "leave fence" /\ buffer[t] = <<Passed(t), Lowered(t, "leave")>>
    BY <1>1 DEF LockInv, Buffers
  <1>3. CASE place[t] = "want fence" /\ buffer[t] = <<Raised(t, "want")>>
    <2>1. buffer'[t] = << >>
      BY <1>1, <1>3, One
    <2>2. Lock!PlaceSC(t)' = "test"
      BY <1>1, <1>3, <2>1 DEF Lock!PlaceSC
    <2> QED BY <1>3, <2>2, FlagDrained DEF Raised, Lock!SC!Want, Lock!SC!Step
  <1>4. CASE place[t] = "rewant fence" /\ buffer[t] = <<Raised(t, "rewant")>>
    <2>1. buffer'[t] = << >>
      BY <1>1, <1>4, One
    <2>2. Lock!PlaceSC(t)' = "test"
      BY <1>1, <1>4, <2>1 DEF Lock!PlaceSC
    <2> QED BY <1>4, <2>2, FlagDrained DEF Raised, Lock!SC!Rewant, Lock!SC!Step
  <1>5. CASE place[t] = "yield fence" /\ buffer[t] = <<Lowered(t, "yield")>>
    <2>1. buffer'[t] = << >>
      BY <1>1, <1>5, One
    <2>2. Lock!PlaceSC(t)' = "spin"
      BY <1>1, <1>5, <2>1 DEF Lock!PlaceSC
    <2> QED BY <1>5, <2>2, FlagDrained DEF Lowered, Lock!SC!Yield, Lock!SC!Step
  <1>6. CASE place[t] = "leave fence" /\ buffer[t] = <<Lowered(t, "leave")>>
    <2>1. buffer'[t] = << >>
      BY <1>1, <1>6, One
    <2>2. Lock!PlaceSC(t)' = "loop"
      BY <1>1, <1>6, <2>1 DEF Lock!PlaceSC
    <2> QED BY <1>6, <2>2, FlagDrained DEF Lowered, Lock!SC!Leave, Lock!SC!Step
  <1>7. CASE place[t] = "pass" /\ buffer[t] = <<Counted(t)>>
    <2>1. Head(buffer[t]) = Counted(t) /\ Tail(buffer[t]) = << >>
      BY <1>7, One
    <2>2. << >> \in Buffers(t)
      BY DEF Buffers
    <2>3. Lock!PlaceSC(t)' = "pass"
      BY <1>1, <1>7, <2>1 DEF Lock!PlaceSC
    <2> QED BY <2>1, <2>2, <2>3, CountDrained DEF Lock!SC!Step
  <1>8. CASE place[t] = "leave" /\ buffer[t] = <<Counted(t), Passed(t)>>
    <2>1. Head(buffer[t]) = Counted(t) /\ Tail(buffer[t]) = <<Passed(t)>>
      BY <1>8, Two
    <2>2. <<Passed(t)>> \in Buffers(t)
      BY <1>8 DEF Buffers
    <2>3. Lock!PlaceSC(t)' = "pass"
      <3>1. buffer'[t] # << >> /\ Head(buffer'[t]) = Passed(t)
        BY <1>1, <2>1, One
      <3> QED BY <3>1 DEF Lock!PlaceSC, Passed, Stored
    <2> QED BY <2>1, <2>2, <2>3, CountDrained DEF Lock!SC!Step
  <1>9. CASE place[t] = "leave fence" /\ buffer[t] = <<Counted(t), Passed(t), Lowered(t, "leave")>>
    <2>1. Head(buffer[t]) = Counted(t) /\ Tail(buffer[t]) = <<Passed(t), Lowered(t, "leave")>>
      <3>1. PICK a, b, d : a = Counted(t) /\ b = Passed(t) /\ d = Lowered(t, "leave")
        OBVIOUS
      <3>2. buffer[t] = <<a, b, d>>
        BY <1>9, <3>1
      <3> QED BY <3>1, <3>2, Three
    <2>2. <<Passed(t), Lowered(t, "leave")>> \in Buffers(t)
      BY <1>9 DEF Buffers
    <2>3. Lock!PlaceSC(t)' = "pass"
      <3>1. buffer'[t] # << >> /\ Head(buffer'[t]) = Passed(t)
        BY <1>1, <2>1, Two
      <3> QED BY <3>1 DEF Lock!PlaceSC, Passed, Stored
    <2> QED BY <2>1, <2>2, <2>3, CountDrained DEF Lock!SC!Step
  <1>10. CASE place[t] = "leave" /\ buffer[t] = <<Passed(t)>>
    <2>1. Head(buffer[t]) = Passed(t) /\ Tail(buffer[t]) = << >>
      BY <1>10, One
    <2>2. << >> \in Buffers(t)
      BY DEF Buffers
    <2>3. Lock!PlaceSC(t)' = "leave"
      BY <1>1, <1>10, <2>1 DEF Lock!PlaceSC
    <2> QED BY <2>1, <2>2, <2>3, TurnDrained DEF Lock!SC!Step
  <1>11. CASE place[t] = "leave fence" /\ buffer[t] = <<Passed(t), Lowered(t, "leave")>>
    <2>1. Head(buffer[t]) = Passed(t) /\ Tail(buffer[t]) = <<Lowered(t, "leave")>>
      BY <1>11, Two
    <2>2. <<Lowered(t, "leave")>> \in Buffers(t)
      BY <1>11 DEF Buffers
    <2>3. Lock!PlaceSC(t)' = "leave"
      <3>1. buffer'[t] # << >> /\ Head(buffer'[t]) = Lowered(t, "leave")
        BY <1>1, <2>1, One
      <3> QED BY <3>1 DEF Lock!PlaceSC, Lowered, Stored
    <2> QED BY <2>1, <2>2, <2>3, TurnDrained DEF Lock!SC!Step
  <1> QED BY <1>2, <1>3, <1>4, <1>5, <1>6, <1>7, <1>8, <1>9, <1>10, <1>11

LEMMA StepImplements ==
    ASSUME LockInv, NEW t \in Threads, Lock!Step(t)
    PROVE  LockInv' /\ (Lock!SC!Step(t) \/ UNCHANGED Lock!SC!vars)
  <1>1. CASE Lock!Test(t)
    BY <1>1, TestStep DEF Lock!SC!Step
  <1>2. CASE Lock!LookAtTurn(t)
    BY <1>2, LookAtTurnStep DEF Lock!SC!Step
  <1>3. CASE Lock!Spin(t)
    BY <1>3, SpinStep DEF Lock!SC!Step
  <1>4. CASE Lock!Read(t)
    BY <1>4, ReadStep DEF Lock!SC!Step
  <1>5. CASE Lock!Loop(t)
    BY <1>5, LoopStep DEF Lock!SC!Step
  <1>6. CASE \/ Lock!Want(t) \/ Lock!Yield(t) \/ Lock!Rewant(t)
             \/ Lock!Write(t) \/ Lock!PassTurn(t) \/ Lock!Leave(t)
    BY <1>6, StoresStutter
  <1>7. CASE \/ Lock!WantFence(t) \/ Lock!TestFence(t) \/ Lock!YieldFence(t)
             \/ Lock!SpinFence(t) \/ Lock!RewantFence(t) \/ Lock!LeaveFence(t)
    BY <1>7, FenceStep DEF Lock!WantFence, Lock!TestFence, Lock!YieldFence, Lock!SpinFence,
                           Lock!RewantFence, Lock!LeaveFence
  <1> QED BY <1>1, <1>2, <1>3, <1>4, <1>5, <1>6, <1>7 DEF Lock!Step

\* Once both threads have ended nothing is left in their buffers: main reads the count.
LEMMA GetImplements == ASSUME LockInv, Lock!Get PROVE LockInv' /\ Lock!SC!Get
  <1>1. /\ \A t \in Threads : place[t] = "finished"
        /\ result = -1 /\ result' = mem[Lock!V] /\ mem' = [mem EXCEPT ![Lock!Turn] = Other(0)]
        /\ UNCHANGED <<buffer, place, tmp, done, endless>>
    BY SameNames DEF Lock!Get, Lock!At
  <1>2. \A t \in Threads : Lock!PlaceSC(t) = "finished"
    BY <1>1, EmptyBuffer DEF Lock!PlaceSC
  <1>3. \A t \in Threads : mem'[Lock!Wants(t)] = mem[Lock!Wants(t)]
    BY <1>1, VariableFacts DEF LockInv
  <1>4. [u \in Threads |-> mem[Lock!Wants(u)]]' = [u \in Threads |-> mem[Lock!Wants(u)]]
    BY <1>3
  <1>5. UNCHANGED mem[Lock!V] /\ mem'[Lock!Turn] = Other(0)
    BY <1>1, VariableFacts DEF LockInv
  <1>6. \A t \in Threads : Lock!PlaceSC(t)' = Lock!PlaceSC(t) /\ Buffers(t)' = Buffers(t)
    BY <1>1 DEF Lock!PlaceSC, Buffers, Stored, Raised, Lowered, Counted, Incremented, Passed
  <1>7. [u \in Threads |-> Lock!PlaceSC(u)]' = [u \in Threads |-> Lock!PlaceSC(u)]
    BY <1>6
  <1>8. LockInv'
    BY <1>1, <1>6 DEF LockInv
  <1> QED BY <1>1, <1>2, <1>4, <1>5, <1>7, <1>8, SameNames DEF Lock!SC!Get, Lock!SC!At

LEMMA LockUnchanged == LockInv /\ UNCHANGED lockVars => LockInv' /\ UNCHANGED Lock!SC!vars
  <1> SUFFICES ASSUME LockInv, UNCHANGED lockVars PROVE LockInv' /\ UNCHANGED Lock!SC!vars
    OBVIOUS
  <1>1. UNCHANGED <<mem, buffer, place, tmp, done, result, endless>>
    BY DEF lockVars
  <1>2. \A t \in Threads : Lock!PlaceSC(t)' = Lock!PlaceSC(t) /\ Buffers(t)' = Buffers(t)
    BY <1>1 DEF Lock!PlaceSC, Buffers, Stored, Raised, Lowered, Counted, Incremented, Passed
  <1>3. [u \in Threads |-> Lock!PlaceSC(u)]' = [u \in Threads |-> Lock!PlaceSC(u)]
    BY <1>2
  <1>4. [u \in Threads |-> mem[Lock!Wants(u)]]' = [u \in Threads |-> mem[Lock!Wants(u)]]
    BY <1>1
  <1>5. LockInv'
    BY <1>1, <1>2 DEF LockInv
  <1> QED BY <1>1, <1>3, <1>4, <1>5, SameNames DEF Lock!SC!vars

LEMMA LockNext == LockInv /\ [Next]_vars => LockInv' /\ [Lock!SC!Next]_(Lock!SC!vars)
  <1> SUFFICES ASSUME LockInv, [Next]_vars PROVE LockInv' /\ [Lock!SC!Next]_(Lock!SC!vars)
    OBVIOUS
  <1>1. CASE LockGet
    BY <1>1, GetImplements DEF LockGet, Lock!SC!Next
  <1>2. ASSUME NEW t \in Threads, LockStep(t) PROVE LockInv' /\ [Lock!SC!Next]_(Lock!SC!vars)
    BY <1>2, StepImplements, SameNames DEF LockStep, Lock!SC!Next
  <1>3. ASSUME NEW t \in Threads, LockDrain(t) PROVE LockInv' /\ [Lock!SC!Next]_(Lock!SC!vars)
    BY <1>3, DrainImplements, SameNames DEF LockDrain, Lock!SC!Next
  <1>4. CASE \/ AtomicGet \/ \E t \in Threads : AtomicStep(t)
             \/ \E a \in Workload!Actors : WorkloadStep(a)
             \/ UNCHANGED vars
    BY <1>4, LockUnchanged DEF AtomicGet, AtomicStep, WorkloadStep, vars
  <1> QED BY <1>1, <1>2, <1>3, <1>4 DEF Next

\* The fences of q3_3.cpp make it behave like q3_2.cpp, whose variables are atomics, for any number
\* of increments (q3_3.cpp:17-39 against q3_2.cpp:20-36).
THEOREM FencesSuffice == Spec => ImplementsSC
  <1>1. Init => LockInv /\ Lock!SC!Init
    BY LockInvInit, SCInit DEF Init
  <1>2. LockInv /\ [Next]_vars => LockInv' /\ [Lock!SC!Next]_(Lock!SC!vars)
    BY LockNext
  <1> QED BY <1>1, <1>2, PTL DEF Spec, ImplementsSC, Lock!SC!Spec

-----------------------------------------------------------------------------
\* Dekker's lock: as it is in q3_2, and as FencesSuffice finds it in q3_3.  It excludes because a
\* thread enters only when it has raised its flag and then seen the other's flag down; turn plays no
\* part in it.  The count is exact because it is, at every instant, the number of increments stored so
\* far, and a thread about to store has read it.
wantsSC == IF program = "q3_2" THEN wants ELSE [t \in Threads |-> mem[Lock!Wants(t)]]
turnSC == IF program = "q3_2" THEN turn ELSE mem[Lock!Turn]
countSC == IF program = "q3_2" THEN count ELSE mem[Lock!V]
placeSC == IF program = "q3_2" THEN at ELSE [t \in Threads |-> Lock!PlaceSC(t)]
loadedSC == IF program = "q3_2" THEN loaded ELSE tmp
countedSC == IF program = "q3_2" THEN counted ELSE done
printedSC == IF program = "q3_2" THEN printed ELSE result

Dekker == INSTANCE DekkerSC
              WITH wants <- wantsSC, turn <- turnSC, v <- countSC, pc <- placeSC,
                   tmp <- loadedSC, done <- countedSC, result <- printedSC

\* Steps of q3_2 are steps of the lock,
LEMMA AtomicsAreDekker ==
    ASSUME program = "q3_2", program' = "q3_2"
    PROVE  /\ \A t : Atomics!Step(t) => Dekker!Step(t)
           /\ Atomics!Get => Dekker!Get
           /\ UNCHANGED Atomics!vars => UNCHANGED Dekker!vars
  <1>1. Atomics!Threads = Dekker!Threads /\ Atomics!NotRead = Dekker!NotRead /\ \A t : Atomics!Other(t) = Dekker!Other(t)
    BY DEF Atomics!Threads, Dekker!Threads, Atomics!Other, Dekker!Other, Atomics!NotRead, Dekker!NotRead
  <1>2. /\ wantsSC = wants /\ wantsSC' = wants'
        /\ turnSC = turn /\ turnSC' = turn'
        /\ countSC = count /\ countSC' = count'
        /\ placeSC = at /\ placeSC' = at'
        /\ loadedSC = loaded /\ loadedSC' = loaded'
        /\ countedSC = counted /\ countedSC' = counted'
        /\ printedSC = printed /\ printedSC' = printed'
    BY SameNames DEF wantsSC, turnSC, countSC, placeSC, loadedSC, countedSC, printedSC
  <1>3. ASSUME NEW t, Atomics!Step(t) PROVE Dekker!Step(t)
    <2>1. Atomics!Want(t) => Dekker!Want(t)
      BY <1>1, <1>2
         DEF Atomics!Want, Dekker!Want, Atomics!At, Dekker!At, Atomics!Goto, Dekker!Goto,
             Atomics!SetWants, Dekker!SetWants
    <2>2. Atomics!Test(t) => Dekker!Test(t)
      BY <1>1, <1>2
         DEF Atomics!Test, Dekker!Test, Atomics!At, Dekker!At, Atomics!Goto, Dekker!Goto
    <2>3. Atomics!LookAtTurn(t) => Dekker!LookAtTurn(t)
      BY <1>1, <1>2
         DEF Atomics!LookAtTurn, Dekker!LookAtTurn, Atomics!At, Dekker!At, Atomics!Goto, Dekker!Goto
    <2>4. Atomics!Yield(t) => Dekker!Yield(t)
      BY <1>1, <1>2
         DEF Atomics!Yield, Dekker!Yield, Atomics!At, Dekker!At, Atomics!Goto, Dekker!Goto,
             Atomics!SetWants, Dekker!SetWants
    <2>5. Atomics!Spin(t) => Dekker!Spin(t)
      BY <1>1, <1>2
         DEF Atomics!Spin, Dekker!Spin, Atomics!At, Dekker!At, Atomics!Goto, Dekker!Goto
    <2>6. Atomics!Rewant(t) => Dekker!Rewant(t)
      BY <1>1, <1>2
         DEF Atomics!Rewant, Dekker!Rewant, Atomics!At, Dekker!At, Atomics!Goto, Dekker!Goto,
             Atomics!SetWants, Dekker!SetWants
    <2>7. Atomics!Read(t) => Dekker!Read(t)
      BY <1>1, <1>2
         DEF Atomics!Read, Dekker!Read, Atomics!At, Dekker!At, Atomics!Goto, Dekker!Goto
    <2>8. Atomics!Write(t) => Dekker!Write(t)
      BY <1>1, <1>2
         DEF Atomics!Write, Dekker!Write, Atomics!Incremented, Dekker!Incremented, Atomics!At, Dekker!At, Atomics!Goto, Dekker!Goto
    <2>9. Atomics!PassTurn(t) => Dekker!PassTurn(t)
      BY <1>1, <1>2
         DEF Atomics!PassTurn, Dekker!PassTurn, Atomics!At, Dekker!At, Atomics!Goto, Dekker!Goto
    <2>10. Atomics!Leave(t) => Dekker!Leave(t)
      BY <1>1, <1>2
         DEF Atomics!Leave, Dekker!Leave, Atomics!At, Dekker!At, Atomics!Goto, Dekker!Goto,
             Atomics!SetWants, Dekker!SetWants
    <2>11. Atomics!Loop(t) => Dekker!Loop(t)
      BY <1>1, <1>2
         DEF Atomics!Loop, Dekker!Loop, Atomics!At, Dekker!At, Atomics!Goto, Dekker!Goto
    <2> QED BY <1>3, <2>1, <2>2, <2>3, <2>4, <2>5, <2>6, <2>7, <2>8, <2>9, <2>10, <2>11
               DEF Atomics!Step, Dekker!Step
  <1>4. Atomics!Get => Dekker!Get
    BY <1>1, <1>2 DEF Atomics!Get, Dekker!Get, Atomics!At, Dekker!At
  <1>5. UNCHANGED Atomics!vars => UNCHANGED Dekker!vars
    BY <1>2 DEF Atomics!vars, Dekker!vars
  <1> QED BY <1>3, <1>4, <1>5

\* and so are the steps on atomics that q3_3 makes.
LEMMA FencesAreDekker ==
    ASSUME program # "q3_2", program' # "q3_2"
    PROVE  /\ \A t : Lock!SC!Step(t) => Dekker!Step(t)
           /\ Lock!SC!Get => Dekker!Get
           /\ UNCHANGED Lock!SC!vars => UNCHANGED Dekker!vars
  <1>1. Lock!SC!Threads = Dekker!Threads /\ Lock!SC!NotRead = Dekker!NotRead /\ \A t : Lock!SC!Other(t) = Dekker!Other(t)
    BY DEF Lock!SC!Threads, Dekker!Threads, Lock!SC!Other, Dekker!Other, Lock!SC!NotRead, Dekker!NotRead
  <1>2. /\ wantsSC = [t \in Lock!Threads |-> mem[Lock!Wants(t)]] /\ wantsSC' = [t \in Lock!Threads |-> mem'[Lock!Wants(t)]]
        /\ turnSC = mem[Lock!Turn] /\ turnSC' = mem'[Lock!Turn]
        /\ countSC = mem[Lock!V] /\ countSC' = mem'[Lock!V]
        /\ placeSC = [t \in Lock!Threads |-> Lock!PlaceSC(t)] /\ placeSC' = [t \in Lock!Threads |-> Lock!PlaceSC(t)']
        /\ loadedSC = tmp /\ loadedSC' = tmp'
        /\ countedSC = done /\ countedSC' = done'
        /\ printedSC = result /\ printedSC' = result'
    BY SameNames DEF wantsSC, turnSC, countSC, placeSC, loadedSC, countedSC, printedSC
  <1>3. ASSUME NEW t, Lock!SC!Step(t) PROVE Dekker!Step(t)
    <2>1. Lock!SC!Want(t) => Dekker!Want(t)
      BY <1>1, <1>2
         DEF Lock!SC!Want, Dekker!Want, Lock!SC!At, Dekker!At, Lock!SC!Goto, Dekker!Goto,
             Lock!SC!SetWants, Dekker!SetWants
    <2>2. Lock!SC!Test(t) => Dekker!Test(t)
      BY <1>1, <1>2
         DEF Lock!SC!Test, Dekker!Test, Lock!SC!At, Dekker!At, Lock!SC!Goto, Dekker!Goto
    <2>3. Lock!SC!LookAtTurn(t) => Dekker!LookAtTurn(t)
      BY <1>1, <1>2
         DEF Lock!SC!LookAtTurn, Dekker!LookAtTurn, Lock!SC!At, Dekker!At, Lock!SC!Goto, Dekker!Goto
    <2>4. Lock!SC!Yield(t) => Dekker!Yield(t)
      BY <1>1, <1>2
         DEF Lock!SC!Yield, Dekker!Yield, Lock!SC!At, Dekker!At, Lock!SC!Goto, Dekker!Goto,
             Lock!SC!SetWants, Dekker!SetWants
    <2>5. Lock!SC!Spin(t) => Dekker!Spin(t)
      BY <1>1, <1>2
         DEF Lock!SC!Spin, Dekker!Spin, Lock!SC!At, Dekker!At, Lock!SC!Goto, Dekker!Goto
    <2>6. Lock!SC!Rewant(t) => Dekker!Rewant(t)
      BY <1>1, <1>2
         DEF Lock!SC!Rewant, Dekker!Rewant, Lock!SC!At, Dekker!At, Lock!SC!Goto, Dekker!Goto,
             Lock!SC!SetWants, Dekker!SetWants
    <2>7. Lock!SC!Read(t) => Dekker!Read(t)
      BY <1>1, <1>2
         DEF Lock!SC!Read, Dekker!Read, Lock!SC!At, Dekker!At, Lock!SC!Goto, Dekker!Goto
    <2>8. Lock!SC!Write(t) => Dekker!Write(t)
      BY <1>1, <1>2
         DEF Lock!SC!Write, Dekker!Write, Lock!SC!Incremented, Dekker!Incremented, Lock!SC!At, Dekker!At, Lock!SC!Goto, Dekker!Goto
    <2>9. Lock!SC!PassTurn(t) => Dekker!PassTurn(t)
      BY <1>1, <1>2
         DEF Lock!SC!PassTurn, Dekker!PassTurn, Lock!SC!At, Dekker!At, Lock!SC!Goto, Dekker!Goto
    <2>10. Lock!SC!Leave(t) => Dekker!Leave(t)
      BY <1>1, <1>2
         DEF Lock!SC!Leave, Dekker!Leave, Lock!SC!At, Dekker!At, Lock!SC!Goto, Dekker!Goto,
             Lock!SC!SetWants, Dekker!SetWants
    <2>11. Lock!SC!Loop(t) => Dekker!Loop(t)
      BY <1>1, <1>2
         DEF Lock!SC!Loop, Dekker!Loop, Lock!SC!At, Dekker!At, Lock!SC!Goto, Dekker!Goto
    <2> QED BY <1>3, <2>1, <2>2, <2>3, <2>4, <2>5, <2>6, <2>7, <2>8, <2>9, <2>10, <2>11
               DEF Lock!SC!Step, Dekker!Step
  <1>4. Lock!SC!Get => Dekker!Get
    BY <1>1, <1>2 DEF Lock!SC!Get, Dekker!Get, Lock!SC!At, Dekker!At
  <1>5. UNCHANGED Lock!SC!vars => UNCHANGED Dekker!vars
    BY <1>2 DEF Lock!SC!vars, Dekker!vars
  <1> QED BY <1>3, <1>4, <1>5

\* The places at which a thread's flag is up.
FlagUp == {"test", "turn", "yield"} \cup Dekker!InsideLabels

\* The increments t has stored, the one it has not counted yet included.
Done(t) == countedSC[t] + (IF placeSC[t] \in {"pass", "leave", "loop"} THEN 1 ELSE 0)

DekkerThread(t) ==
    /\ wantsSC[t] <=> placeSC[t] \in FlagUp
    /\ placeSC[t] = "write" => loadedSC[t] = countSC
    /\ placeSC[t] = "finished" => countedSC[t] = Increments /\ ~endless
    /\ placeSC[t] # "finished" => countedSC[t] < Increments

DekkerInv ==
    /\ Dekker!TypeOK
    /\ \A t \in Dekker!Threads : DekkerThread(t)
    /\ Dekker!MutualExclusion
    /\ ~endless => countSC = Done(0) + Done(1)
    /\ printedSC # Dekker!NotRead => /\ \A t \in Dekker!Threads : placeSC[t] = "finished"
                                     /\ printedSC = countSC

LEMMA DekkerInvInit == Dekker!Init => DekkerInv
BY IncrementsAssumption
DEF Dekker!Init, DekkerInv, Dekker!TypeOK, DekkerThread, Dekker!MutualExclusion, Done, FlagUp,
    Dekker!InsideLabels, Dekker!LockLabels,
    Dekker!Labels, Dekker!Threads, Dekker!NotRead

\* One step of one thread: its own invariant, the other's, and the count.
LEMMA DekkerStep == ASSUME DekkerInv, NEW t \in Dekker!Threads, Dekker!Step(t) PROVE DekkerInv'
<1> DEFINE u == Dekker!Other(t)
<1>1. u \in Dekker!Threads /\ u # t /\ Dekker!Threads = {t, u} /\ Dekker!Other(u) = t
  BY DEF Dekker!Threads, Dekker!Other
<1>2. Dekker!TypeOK /\ DekkerThread(t) /\ DekkerThread(u) /\ Dekker!MutualExclusion
     /\ (~endless => countSC = Done(t) + Done(u))
  BY <1>1 DEF DekkerInv, Done, Dekker!TypeOK, Dekker!Threads
<1>3. printedSC = Dekker!NotRead
  BY DEF DekkerInv, Dekker!Step, Dekker!Want, Dekker!Yield, Dekker!Rewant, Dekker!Leave, Dekker!Test,
         Dekker!LookAtTurn, Dekker!Spin, Dekker!Read, Dekker!Write, Dekker!PassTurn,
         Dekker!Loop, Dekker!SetWants, Dekker!At
<1>4. Dekker!MutualExclusion <=> ~(placeSC[t] \in Dekker!InsideLabels /\ placeSC[u] \in Dekker!InsideLabels)
  BY <1>1 DEF Dekker!MutualExclusion, Dekker!Threads
<1> DEFINE Kept == /\ DekkerThread(t)' /\ DekkerThread(u)'
                   /\ ~(placeSC'[t] \in Dekker!InsideLabels /\ placeSC'[u] \in Dekker!InsideLabels)
                   /\ (~endless => countSC' = (Done(t) + Done(u))') /\ endless' = endless
                   /\ printedSC' = printedSC
<1>5. ASSUME Dekker!TypeOK', Kept PROVE DekkerInv'
  <2>1. \A w \in Dekker!Threads : DekkerThread(w)'
    BY <1>1, <1>5
  <2>2. Dekker!MutualExclusion'
    BY <1>1, <1>5 DEF Dekker!MutualExclusion, Dekker!Threads
  <2>3. ~endless' => countSC' = (Done(0) + Done(1))'
    BY <1>1, <1>5 DEF Done, Dekker!TypeOK, Dekker!Threads
  <2> QED BY <1>3, <1>5, <2>1, <2>2, <2>3 DEF DekkerInv
<1>6. CASE Dekker!Want(t)
  <2>1. Dekker!TypeOK'
    BY <1>1, <1>2, <1>6 DEF Dekker!TypeOK, DekkerThread, Dekker!Want, Dekker!SetWants, Dekker!At,
                            Dekker!Goto, Dekker!Labels, Dekker!LockLabels, Dekker!InsideLabels
  <2>2. Kept
    BY <1>1, <1>2, <1>4, <1>6 DEF Dekker!TypeOK, DekkerThread, Done, FlagUp, Dekker!InsideLabels,
                                  Dekker!Want, Dekker!SetWants, Dekker!At, Dekker!Goto
  <2> QED BY <1>5, <2>1, <2>2
<1>7. CASE Dekker!Test(t)
  <2>1. Dekker!TypeOK'
    BY <1>1, <1>2, <1>7 DEF Dekker!TypeOK, DekkerThread, Dekker!Test, Dekker!At, Dekker!Goto,
                            Dekker!Labels, Dekker!LockLabels, Dekker!InsideLabels
  <2>2. Kept
    BY <1>1, <1>2, <1>4, <1>7 DEF Dekker!TypeOK, DekkerThread, Done, FlagUp, Dekker!InsideLabels,
                                  Dekker!Test, Dekker!At, Dekker!Goto
  <2> QED BY <1>5, <2>1, <2>2
<1>8. CASE Dekker!LookAtTurn(t)
  <2>1. Dekker!TypeOK'
    BY <1>1, <1>2, <1>8 DEF Dekker!TypeOK, DekkerThread, Dekker!LookAtTurn, Dekker!At, Dekker!Goto,
                            Dekker!Labels, Dekker!LockLabels, Dekker!InsideLabels
  <2>2. Kept
    BY <1>1, <1>2, <1>4, <1>8 DEF Dekker!TypeOK, DekkerThread, Done, FlagUp, Dekker!InsideLabels,
                                  Dekker!LookAtTurn, Dekker!At, Dekker!Goto
  <2> QED BY <1>5, <2>1, <2>2
<1>9. CASE Dekker!Yield(t)
  <2>1. Dekker!TypeOK'
    BY <1>1, <1>2, <1>9 DEF Dekker!TypeOK, DekkerThread, Dekker!Yield, Dekker!SetWants, Dekker!At,
                            Dekker!Goto, Dekker!Labels, Dekker!LockLabels, Dekker!InsideLabels
  <2>2. Kept
    BY <1>1, <1>2, <1>4, <1>9 DEF Dekker!TypeOK, DekkerThread, Done, FlagUp, Dekker!InsideLabels,
                                  Dekker!Yield, Dekker!SetWants, Dekker!At, Dekker!Goto
  <2> QED BY <1>5, <2>1, <2>2
<1>10. CASE Dekker!Spin(t)
  <2>1. Dekker!TypeOK'
    BY <1>1, <1>2, <1>10 DEF Dekker!TypeOK, DekkerThread, Dekker!Spin, Dekker!At, Dekker!Goto,
                             Dekker!Labels, Dekker!LockLabels, Dekker!InsideLabels
  <2>2. Kept
    BY <1>1, <1>2, <1>4, <1>10 DEF Dekker!TypeOK, DekkerThread, Done, FlagUp, Dekker!InsideLabels,
                                   Dekker!Spin, Dekker!At, Dekker!Goto
  <2> QED BY <1>5, <2>1, <2>2
<1>11. CASE Dekker!Rewant(t)
  <2>1. Dekker!TypeOK'
    BY <1>1, <1>2, <1>11 DEF Dekker!TypeOK, DekkerThread, Dekker!Rewant, Dekker!SetWants, Dekker!At,
                             Dekker!Goto, Dekker!Labels, Dekker!LockLabels, Dekker!InsideLabels
  <2>2. Kept
    BY <1>1, <1>2, <1>4, <1>11 DEF Dekker!TypeOK, DekkerThread, Done, FlagUp, Dekker!InsideLabels,
                                   Dekker!Rewant, Dekker!SetWants, Dekker!At, Dekker!Goto
  <2> QED BY <1>5, <2>1, <2>2
<1>12. CASE Dekker!Read(t)
  <2>1. Dekker!TypeOK'
    BY <1>1, <1>2, <1>12 DEF Dekker!TypeOK, DekkerThread, Dekker!Read, Dekker!At, Dekker!Goto,
                             Dekker!Labels, Dekker!LockLabels, Dekker!InsideLabels
  <2>2. Kept
    BY <1>1, <1>2, <1>4, <1>12 DEF Dekker!TypeOK, DekkerThread, Done, FlagUp, Dekker!InsideLabels,
                                   Dekker!Read, Dekker!At, Dekker!Goto
  <2> QED BY <1>5, <2>1, <2>2
<1>13. CASE Dekker!Write(t)
  <2>1. Dekker!TypeOK'
    BY <1>1, <1>2, <1>13 DEF Dekker!TypeOK, DekkerThread, Dekker!Write, Dekker!Incremented, Dekker!At, Dekker!Goto,
                             Dekker!Labels, Dekker!LockLabels, Dekker!InsideLabels
  <2>2. Kept
    BY <1>1, <1>2, <1>4, <1>13 DEF Dekker!TypeOK, DekkerThread, Done, FlagUp, Dekker!InsideLabels,
                                   Dekker!Write, Dekker!Incremented, Dekker!At, Dekker!Goto
  <2> QED BY <1>5, <2>1, <2>2
<1>14. CASE Dekker!PassTurn(t)
  <2>1. Dekker!TypeOK'
    BY <1>1, <1>2, <1>14 DEF Dekker!TypeOK, DekkerThread, Dekker!PassTurn, Dekker!At, Dekker!Goto,
                             Dekker!Labels, Dekker!LockLabels, Dekker!InsideLabels
  <2>2. Kept
    BY <1>1, <1>2, <1>4, <1>14 DEF Dekker!TypeOK, DekkerThread, Done, FlagUp, Dekker!InsideLabels,
                                   Dekker!PassTurn, Dekker!At, Dekker!Goto
  <2> QED BY <1>5, <2>1, <2>2
<1>15. CASE Dekker!Leave(t)
  <2>1. Dekker!TypeOK'
    BY <1>1, <1>2, <1>15 DEF Dekker!TypeOK, DekkerThread, Dekker!Leave, Dekker!SetWants, Dekker!At,
                             Dekker!Goto, Dekker!Labels, Dekker!LockLabels, Dekker!InsideLabels
  <2>2. Kept
    BY <1>1, <1>2, <1>4, <1>15 DEF Dekker!TypeOK, DekkerThread, Done, FlagUp, Dekker!InsideLabels,
                                   Dekker!Leave, Dekker!SetWants, Dekker!At, Dekker!Goto
  <2> QED BY <1>5, <2>1, <2>2
<1>16. CASE Dekker!Loop(t)
  <2>1. /\ placeSC[t] = "loop" /\ countedSC[t] \in Nat /\ countedSC[t] < Increments /\ Increments \in Nat
        /\ countedSC' = [countedSC EXCEPT ![t] = IF endless THEN countedSC[t] ELSE countedSC[t] + 1]
        /\ UNCHANGED <<wantsSC, turnSC, countSC, loadedSC, printedSC, endless>>
    BY <1>2, <1>16, IncrementsAssumption DEF Dekker!TypeOK, DekkerThread, Dekker!Loop, Dekker!At
  <2>2. /\ placeSC' = [placeSC EXCEPT ![t] = placeSC'[t]]
        /\ \/ endless /\ placeSC'[t] = "want"
           \/ ~endless /\ countedSC[t] + 1 < Increments /\ placeSC'[t] = "want"
           \/ ~endless /\ countedSC[t] + 1 = Increments /\ placeSC'[t] = "finished"
    BY <1>2, <1>16, <2>1 DEF Dekker!TypeOK, Dekker!Loop, Dekker!Goto
  <2>3. countedSC'[t] = (IF endless THEN countedSC[t] ELSE countedSC[t] + 1) /\ countedSC'[u] = countedSC[u] /\ placeSC'[u] = placeSC[u]
    BY <1>1, <1>2, <2>1, <2>2 DEF Dekker!TypeOK
  <2>4. Dekker!TypeOK'
    BY <1>1, <1>2, <2>1, <2>2 DEF Dekker!TypeOK, Dekker!Labels, Dekker!LockLabels, Dekker!InsideLabels
  <2>5. DekkerThread(t)' /\ DekkerThread(u)'
    BY <1>1, <1>2, <2>1, <2>2, <2>3 DEF Dekker!TypeOK, DekkerThread, FlagUp, Dekker!InsideLabels
  <2>6. Kept
    BY <1>1, <1>2, <1>4, <2>1, <2>2, <2>3, <2>5 DEF Dekker!TypeOK, Done, Dekker!InsideLabels
  <2> QED BY <1>5, <2>4, <2>6
<1> QED BY <1>6, <1>7, <1>8, <1>9, <1>10, <1>11, <1>12, <1>13, <1>14, <1>15, <1>16 DEF Dekker!Step

LEMMA DekkerInvNext == DekkerInv /\ [Dekker!Next]_(Dekker!vars) => DekkerInv'
<1>1. ASSUME DekkerInv, Dekker!Get PROVE DekkerInv'
  BY <1>1 DEF DekkerInv, Dekker!Get, Dekker!TypeOK, DekkerThread, Done, Dekker!MutualExclusion,
              Dekker!At, Dekker!Threads, Dekker!Other, Dekker!NotRead,
              Dekker!InsideLabels
<1>2. ASSUME DekkerInv, UNCHANGED Dekker!vars PROVE DekkerInv'
  BY <1>2 DEF Dekker!vars, DekkerInv, Dekker!TypeOK, DekkerThread, Done, Dekker!MutualExclusion
<1> QED BY <1>1, <1>2, DekkerStep DEF Dekker!Next

\* The places between lock() and the end of unlock().
Inside == {"read", "write", "pass", "leave"}

\* The two threads are never both inside, nor does one enter before the other's stores are in memory.
LockExcludes ==
    program = "q3_3" =>
    \A t \in Threads : place[t] \in Inside => /\ place[Other(t)] \notin Inside
                                              /\ place[Other(t)] = "leave fence" => buffer[Other(t)] = << >>

\* A main that is not run prints nothing.
Silent == /\ program # "q3_2" => printed = -1
          /\ program # "q3_3" => result = -1

LEMMA DekkerInvariance == Spec => [](LockInv /\ DekkerInv /\ Silent)
  <1>1. ASSUME Init PROVE LockInv /\ DekkerInv /\ Silent
    <2>1. LockInv /\ Lock!SC!Init /\ Atomics!Init
      BY <1>1, LockInvInit, SCInit DEF Init
    <2>2. Dekker!Init
      BY <2>1, SameNames
         DEF Dekker!Init, Lock!SC!Init, Atomics!Init, Dekker!Threads, Atomics!Threads, Lock!Threads,
             Dekker!NotRead, Atomics!NotRead, wantsSC, turnSC, countSC, placeSC, loadedSC, countedSC, printedSC
    <2>3. Silent
      BY <1>1 DEF Init, Lock!Init, Atomics!Init, Lock!NotRead, Atomics!NotRead, Silent
    <2> QED BY <2>1, <2>2, <2>3, DekkerInvInit
  <1>2. ASSUME LockInv, DekkerInv, Silent, [Next]_vars PROVE LockInv' /\ DekkerInv' /\ Silent'
    <2>1. LockInv' /\ [Lock!SC!Next]_(Lock!SC!vars)
      BY <1>2, LockNext
    <2>2. /\ program' = program
          /\ program = "q3_2" => \/ Atomics!Get \/ \E t \in Threads : Atomics!Step(t)
                                 \/ UNCHANGED Atomics!vars
      BY <1>2 DEF Next, AtomicStep, AtomicGet, LockStep, LockGet, LockDrain, WorkloadStep, vars,
                  atomicVars, Atomics!vars
    <2>3. \A t : t \in Lock!SC!Threads <=> t \in Dekker!Threads
      BY DEF Lock!SC!Threads, Dekker!Threads
    <2>4. \A t : t \in Threads <=> t \in Dekker!Threads
      BY DEF Threads, Dekker!Threads
    <2>5. program = "q3_2" => [Dekker!Next]_(Dekker!vars)
      BY <2>2, <2>4, AtomicsAreDekker DEF Dekker!Next
    <2>6. program # "q3_2" => [Dekker!Next]_(Dekker!vars)
      BY <2>1, <2>2, <2>3, FencesAreDekker DEF Dekker!Next, Lock!SC!Next
    <2>7. DekkerInv'
      BY <1>2, <2>5, <2>6, DekkerInvNext
    <2>8. Silent'
      BY <1>2 DEF Silent, Next, AtomicStep, AtomicGet, LockStep, LockGet, LockDrain, WorkloadStep, vars,
                  atomicVars, lockVars
    <2> QED BY <2>1, <2>7, <2>8
  <1> QED BY <1>1, <1>2, PTL DEF Spec

\* The two threads of q3_2 are never both between lock() and unlock(), for any number of increments
\* (q3_2.cpp:20-36, 49-53).
THEOREM AtomicsExclude == Spec => [](program = "q3_2" => Atomics!MutualExclusion)
  <1>1. DekkerInv => (program = "q3_2" => Atomics!MutualExclusion)
    BY DEF DekkerInv, Dekker!MutualExclusion, Atomics!MutualExclusion, Dekker!InsideLabels,
           Atomics!InsideLabels, placeSC
  <1> QED BY <1>1, DekkerInvariance, PTL

\* q3_3's threads are never both inside, and none is while a store of the other's last round has not
\* reached memory, for any number of increments (q3_3.cpp:17-39, 52-55).
THEOREM FencesExclude == Spec => []LockExcludes
  <1>1. ASSUME LockInv, DekkerInv, program = "q3_3" PROVE LockExcludes
    <2>1. ASSUME NEW t \in Threads,
                 place[t] \in Inside \/ (place[t] = "leave fence" /\ buffer[t] # << >>)
          PROVE  Lock!PlaceSC(t) \in Inside
      <3>1. CASE buffer[t] = << >>
        BY <2>1, <3>1 DEF Lock!PlaceSC, Inside
      <3>2. CASE buffer[t] # << >>
        <4>1. \/ buffer[t] = <<Lowered(t, "leave")>> \/ buffer[t] = <<Counted(t)>>
              \/ buffer[t] = <<Counted(t), Passed(t)>>
              \/ buffer[t] = <<Counted(t), Passed(t), Lowered(t, "leave")>>
              \/ buffer[t] = <<Passed(t)>> \/ buffer[t] = <<Passed(t), Lowered(t, "leave")>>
          BY <1>1, <2>1, <3>2 DEF LockInv, Buffers, Inside
        <4>2. Head(buffer[t]) \in {Lowered(t, "leave"), Counted(t), Passed(t)}
          <5>1. PICK a, b, d : a = Counted(t) /\ b = Passed(t) /\ d = Lowered(t, "leave")
            OBVIOUS
          <5>2. \/ buffer[t] = <<d>> \/ buffer[t] = <<a>> \/ buffer[t] = <<a, b>>
                \/ buffer[t] = <<a, b, d>> \/ buffer[t] = <<b>> \/ buffer[t] = <<b, d>>
            BY <4>1, <5>1
          <5>3. Head(buffer[t]) \in {a, b, d}
            BY <5>2, One, Two, Three
          <5> QED BY <5>1, <5>3
        <4>3. Head(buffer[t]).at \in Inside
          BY <4>2 DEF Lowered, Counted, Passed, Stored, Inside
        <4> QED BY <3>2, <4>3 DEF Lock!PlaceSC
      <3> QED BY <3>1, <3>2
    <2>2. \A t \in Threads : ~(Lock!PlaceSC(t) \in Inside /\ Lock!PlaceSC(Other(t)) \in Inside)
      BY <1>1, SameNames
         DEF DekkerInv, Dekker!MutualExclusion, Dekker!InsideLabels, placeSC, Inside, Threads, Other
    <2>3. \A t \in Threads : Other(t) \in Threads
      BY VariableFacts
    <2> QED BY <2>1, <2>2, <2>3 DEF LockExcludes
  <1>2. LockInv /\ DekkerInv => LockExcludes
    BY <1>1 DEF LockExcludes
  <1> QED BY <1>2, DekkerInvariance, PTL

\* Either of the two mains prints every increment.
LEMMA DekkerCounts ==
    ASSUME DekkerInv, Silent
    PROVE  \A value \in {printed, result} : value # NotRead => value = 2 * Increments
  <1>1. printedSC # -1 => printedSC = 2 * Increments
    <2> SUFFICES ASSUME printedSC # -1 PROVE printedSC = 2 * Increments
      OBVIOUS
    <2>1. /\ \A t \in {0, 1} : placeSC[t] = "finished" /\ countedSC[t] = Increments
          /\ printedSC = Done(0) + Done(1)
      BY DEF DekkerInv, DekkerThread, Dekker!Threads, Dekker!NotRead
    <2> QED BY <2>1, IncrementsAssumption DEF Done
  <1>2. NotRead = -1
    BY DEF NotRead
  <1> QED BY <1>1, <1>2 DEF Silent, printedSC

-----------------------------------------------------------------------------
\* The sum of the first n of w's numbers, in the order in which the loops of the counters add up.
Sum(w, n) ==
    LET sum[i \in 0..N] == IF i = 0 THEN 0 ELSE sum[i - 1] + w[i]
    IN  sum[n]

LEMMA Least == \A S \in SUBSET Nat : S # {} => \E x \in S : \A y \in S : x <= y
  <1> SUFFICES ASSUME NEW S \in SUBSET Nat, S # {} PROVE \E x \in S : \A y \in S : x <= y
    OBVIOUS
  <1>1. PICK x \in S : \A y \in S : ~(<<y, x>> \in OpToRel(<, Nat))
    BY NatLessThanWellFounded, WFMin
  <1>2. \A y \in S : ~(y < x)
    BY <1>1 DEF OpToRel
  <1> QED BY <1>2

LEMMA Induction == \A S \in SUBSET Nat : 0 \in S /\ (\A n \in S : n + 1 \in S) => \A n \in Nat : n \in S
  <1> SUFFICES ASSUME NEW S \in SUBSET Nat, 0 \in S, \A n \in S : n + 1 \in S, Nat \ S # {} PROVE FALSE
    OBVIOUS
  <1>1. PICK x \in Nat \ S : \A y \in Nat \ S : x <= y
    BY Least
  <1>2. x - 1 \in Nat /\ x - 1 \notin Nat \ S
    BY <1>1
  <1> QED BY <1>1, <1>2

\* f has w's partial sums up to m.
Sums(f, w, m) == f \in [0..m -> Int] /\ f[0] = 0 /\ \A i \in 1..m : f[i] = f[i - 1] + w[i]

LEMMA SumsExist == ASSUME NEW w \in [1..N -> Int] PROVE \E f : Sums(f, w, N)
  <1> DEFINE S == {m \in Nat : m <= N => \E f : Sums(f, w, m)}
  <1>1. 0 \in S
    <2>1. Sums([i \in 0..0 |-> 0], w, 0)
      BY DEF Sums
    <2> QED BY <2>1
  <1>2. ASSUME NEW m \in S PROVE m + 1 \in S
    <2> SUFFICES ASSUME m + 1 <= N PROVE \E g : Sums(g, w, m + 1)
      OBVIOUS
    <2>1. m \in Nat /\ m <= N /\ N \in Nat
      BY CountingAssumption DEF Workload!CountersAssumption
    <2>2. PICK f : Sums(f, w, m)
      BY <2>1
    <2> DEFINE g == [i \in 0..m + 1 |-> IF i <= m THEN f[i] ELSE f[m] + w[m + 1]]
    <2>3. g \in [0..m + 1 -> Int] /\ g[0] = 0
      BY <2>1, <2>2 DEF Sums
    <2>4. ASSUME NEW i \in 1..m + 1 PROVE g[i] = g[i - 1] + w[i]
      <3>1. CASE i <= m
        BY <2>1, <2>2, <3>1 DEF Sums
      <3>2. CASE i = m + 1
        <4>1. g[i] = f[m] + w[m + 1] /\ g[i - 1] = f[m]
          BY <2>1, <3>2
        <4> QED BY <3>2, <4>1
      <3> QED BY <2>1, <3>1, <3>2
    <2> QED BY <2>3, <2>4 DEF Sums
  <1>3. S \in SUBSET Nat /\ N \in Nat
    BY CountingAssumption DEF Workload!CountersAssumption
  <1> HIDE DEF S
  <1>4. N \in S
    BY <1>1, <1>2, <1>3, Induction
  <1> QED BY <1>3, <1>4 DEF S

LEMMA SumByParts ==
    ASSUME NEW w \in [1..N -> Int]
    PROVE  /\ Sum(w, 0) = 0
           /\ \A n \in 0..N : Sum(w, n) \in Int
           /\ \A n \in 1..N : Sum(w, n) = Sum(w, n - 1) + w[n]
  <1> DEFINE Is(f) == f = [i \in 0..N |-> IF i = 0 THEN 0 ELSE f[i - 1] + w[i]]
  <1>1. N \in Nat
    BY CountingAssumption DEF Workload!CountersAssumption
  <1>2. \E f : Is(f)
    <2>1. PICK f : Sums(f, w, N)
      BY SumsExist
    <2>2. f = [i \in 0..N |-> f[i]] /\ \A i \in 0..N : f[i] = IF i = 0 THEN 0 ELSE f[i - 1] + w[i]
      BY <1>1, <2>1 DEF Sums
    <2>3. Is(f)
      BY <2>2
    <2> QED BY <2>3
  <1> DEFINE g == CHOOSE f : Is(f)
  <1>3. Is(g)
    BY <1>2
  <1>4. \A n : Sum(w, n) = g[n]
    BY DEF Sum
  <1> HIDE DEF g
  <1>5. g[0] = 0 /\ \A i \in 1..N : g[i] = g[i - 1] + w[i]
    BY <1>1, <1>3
  <1> HIDE DEF Is
  <1> DEFINE S == {m \in Nat : m <= N => g[m] \in Int}
  <1>6. 0 \in S
    BY <1>5
  <1>7. ASSUME NEW m \in S PROVE m + 1 \in S
    <2> SUFFICES ASSUME m + 1 <= N PROVE g[m + 1] \in Int
      OBVIOUS
    <2>1. m + 1 \in 1..N /\ (m + 1) - 1 = m /\ g[m] \in Int
      BY <1>1
    <2>2. g[m + 1] = g[m] + w[m + 1]
      BY <1>5, <2>1
    <2> QED BY <2>1, <2>2
  <1>8. \A n \in Nat : n \in S
    <2>1. S \in SUBSET Nat
      OBVIOUS
    <2> HIDE DEF S
    <2> QED BY <1>6, <1>7, <2>1, Induction
  <1>9. \A n \in 0..N : g[n] \in Int
    BY <1>1, <1>8
  <1> QED BY <1>4, <1>5, <1>9

\* One number changes.
LEMMA SumChange ==
    ASSUME NEW w \in [1..N -> Int], NEW u \in [1..N -> Int], NEW s \in 1..N,
           \A i \in 1..N : i # s => u[i] = w[i]
    PROVE  \A n \in 0..N : Sum(u, n) = Sum(w, n) + (IF s <= n THEN u[s] - w[s] ELSE 0)
  <1> DEFINE S == {m \in Nat : m <= N => Sum(u, m) = Sum(w, m) + (IF s <= m THEN u[s] - w[s] ELSE 0)}
  <1>0. N \in Nat
    BY CountingAssumption DEF Workload!CountersAssumption
  <1>1. 0 \in S
    BY SumByParts
  <1>2. ASSUME NEW m \in S PROVE m + 1 \in S
    <2> SUFFICES ASSUME m + 1 <= N
                 PROVE  Sum(u, m + 1) = Sum(w, m + 1) + (IF s <= m + 1 THEN u[s] - w[s] ELSE 0)
      OBVIOUS
    <2>1. m \in 0..N /\ m + 1 \in 1..N /\ (m + 1) - 1 = m
      BY <1>0
    <2>2. /\ Sum(u, m + 1) = Sum(u, m) + u[m + 1] /\ Sum(w, m + 1) = Sum(w, m) + w[m + 1]
          /\ Sum(u, m) \in Int /\ Sum(w, m) \in Int
      BY <2>1, SumByParts
    <2>3. Sum(u, m) = Sum(w, m) + (IF s <= m THEN u[s] - w[s] ELSE 0)
      BY <2>1
    <2>4. u[s] \in Int /\ w[s] \in Int /\ u[m + 1] \in Int /\ w[m + 1] \in Int
      BY <2>1
    <2>5. CASE s = m + 1
      BY <2>1, <2>2, <2>3, <2>4, <2>5
    <2>6. CASE s # m + 1
      <3>1. u[m + 1] = w[m + 1] /\ (s <= m + 1 <=> s <= m)
        BY <2>1, <2>6
      <3> QED BY <2>2, <2>3, <2>4, <3>1
    <2> QED BY <2>5, <2>6
  <1>3. \A n \in Nat : n \in S
    <2>1. S \in SUBSET Nat
      OBVIOUS
    <2> HIDE DEF S
    <2> QED BY <1>1, <1>2, <2>1, Induction
  <1> QED BY <1>0, <1>3

LEMMA SumBounds ==
    ASSUME NEW w \in [1..N -> Int], NEW B \in Nat, \A i \in 1..N : 0 <= w[i] /\ w[i] <= B
    PROVE  \A n \in 0..N : 0 <= Sum(w, n) /\ Sum(w, n) <= n * B
  <1> DEFINE S == {m \in Nat : m <= N => 0 <= Sum(w, m) /\ Sum(w, m) <= m * B}
  <1>0. N \in Nat
    BY CountingAssumption DEF Workload!CountersAssumption
  <1>1. 0 \in S
    BY SumByParts
  <1>2. ASSUME NEW m \in S PROVE m + 1 \in S
    <2> SUFFICES ASSUME m + 1 <= N PROVE 0 <= Sum(w, m + 1) /\ Sum(w, m + 1) <= (m + 1) * B
      OBVIOUS
    <2>1. m \in 0..N /\ m + 1 \in 1..N /\ (m + 1) - 1 = m
      BY <1>0
    <2>2. Sum(w, m + 1) = Sum(w, m) + w[m + 1] /\ Sum(w, m) \in Int
      BY <2>1, SumByParts
    <2>3. 0 <= Sum(w, m) /\ Sum(w, m) <= m * B /\ w[m + 1] \in Int /\ 0 <= w[m + 1] /\ w[m + 1] <= B
      BY <2>1
    <2>4. (m + 1) * B = m * B + B /\ m * B \in Int
      OBVIOUS
    <2> QED BY <2>2, <2>3, <2>4
  <1>3. \A n \in Nat : n \in S
    <2>1. S \in SUBSET Nat
      OBVIOUS
    <2> HIDE DEF S
    <2> QED BY <1>1, <1>2, <2>1, Induction
  <1> QED BY <1>0, <1>3

LEMMA SumOfNat ==
    ASSUME NEW w \in [1..N -> Nat]
    PROVE  Sum(w, N) \in Nat
  <1> DEFINE S == {m \in Nat : m <= N => Sum(w, m) \in Nat}
  <1>0. N \in Nat
    BY CountingAssumption DEF Workload!CountersAssumption
  <1>1. w \in [1..N -> Int]
    OBVIOUS
  <1>2. 0 \in S
    BY <1>1, SumByParts
  <1>3. ASSUME NEW m \in S PROVE m + 1 \in S
    <2> SUFFICES ASSUME m + 1 <= N PROVE Sum(w, m + 1) \in Nat
      OBVIOUS
    <2>1. m \in 0..N /\ m + 1 \in 1..N /\ (m + 1) - 1 = m
      BY <1>0
    <2>2. Sum(w, m + 1) = Sum(w, m) + w[m + 1]
      BY <1>1, <2>1, SumByParts
    <2>3. Sum(w, m) \in Nat /\ w[m + 1] \in Nat
      BY <2>1
    <2> QED BY <2>2, <2>3
  <1>4. \A n \in Nat : n \in S
    <2>1. S \in SUBSET Nat
      OBVIOUS
    <2> HIDE DEF S
    <2> QED BY <1>2, <1>3, <2>1, Induction
  <1> QED BY <1>0, <1>4

LEMMA TotalChange ==
    ASSUME NEW w \in [1..N -> Int], NEW u \in [1..N -> Int], NEW s \in 1..N,
           \A i \in 1..N : i # s => u[i] = w[i]
    PROVE  Sum(w, N) \in Int /\ Sum(u, N) \in Int /\ Sum(u, N) = Sum(w, N) + (u[s] - w[s])
  <1>1. N \in 0..N /\ s <= N
    BY CountingAssumption DEF Workload!CountersAssumption
  <1>2. \A n \in 0..N : Sum(u, n) = Sum(w, n) + (IF s <= n THEN u[s] - w[s] ELSE 0)
    BY SumChange
  <1>3. Sum(w, N) \in Int /\ Sum(u, N) \in Int
    BY <1>1, SumByParts
  <1>4. Sum(u, N) = Sum(w, N) + (IF s <= N THEN u[s] - w[s] ELSE 0)
    BY <1>1, <1>2
  <1> QED BY <1>1, <1>3, <1>4

LEMMA TotalBounds ==
    ASSUME NEW w \in [1..N -> Int], NEW B \in Nat, \A i \in 1..N : 0 <= w[i] /\ w[i] <= B
    PROVE  Sum(w, N) \in Int /\ 0 <= Sum(w, N) /\ Sum(w, N) <= N * B
  <1>1. N \in 0..N
    BY CountingAssumption DEF Workload!CountersAssumption
  <1>2. \A n \in 0..N : 0 <= Sum(w, n) /\ Sum(w, n) <= n * B
    BY SumBounds
  <1> QED BY <1>1, <1>2, SumByParts

LEMMA TotalOfZeros ==
    ASSUME NEW w \in [1..N -> Int], \A i \in 1..N : w[i] = 0
    PROVE  Sum(w, N) = 0
  <1>1. 0 \in Nat /\ \A i \in 1..N : 0 <= w[i] /\ w[i] <= 0
    OBVIOUS
  <1>2. Sum(w, N) \in Int /\ 0 <= Sum(w, N) /\ Sum(w, N) <= N * 0
    BY <1>1, TotalBounds
  <1>3. N * 0 = 0
    BY CountingAssumption DEF Workload!CountersAssumption
  <1> QED BY <1>2, <1>3

\* The timed workload.  Its threads are 1..N, main is 0.
MainPlaces == {"startTimer", "arrive", "spin", "join", "read", "sum", "readUnlock", "haveRead"}
ThreadPlaces == {"arrive", "spin", "read", "sum", "readUnlock", "haveRead", "inc", "bump", "store",
                 "incUnlock", "flush", "reset", "incremented", "add", "done"}

WTypeOK ==
    /\ kind \in Workload!Kinds /\ started \in BOOLEAN
    /\ v \in Nat /\ effected \in Nat /\ performed \in Nat /\ initially \in Nat /\ barrier \in Nat
    /\ scratch \in [1..N -> Nat] /\ incs \in [1..N -> Nat] /\ held \in [0..N -> 0..N + 1]
    /\ pc \in [0..N -> MainPlaces \cup ThreadPlaces] /\ j \in [0..N -> 1..N] /\ acc \in [0..N -> Nat]
    /\ seen \in [0..N -> SUBSET Nat]
    /\ pc[0] \in MainPlaces /\ \A t \in 1..N : pc[t] \in ThreadPlaces

\* Which counter goes where, and where a loop is under way.
Placed(a) ==
    /\ pc[a] = "store" => kind \in {"naive", "lock"}
    /\ pc[a] \in {"bump", "incUnlock", "sum", "readUnlock"} => kind \in {"lock", "shard_lock"}
    /\ pc[a] \in {"flush", "reset"} => kind = "approx"
    /\ j[a] # 1 => \/ kind = "shard_lock" /\ pc[a] \in {"read", "sum", "readUnlock"}
                   \/ kind = "shard_wf" /\ pc[a] = "read"
    /\ acc[a] # 0 => \/ pc[a] \in {"store", "readUnlock", "haveRead"}
                     \/ kind = "shard_lock" /\ pc[a] = "sum"
                     \/ kind = "shard_wf" /\ pc[a] = "read"

WPlaces == \A a \in 0..N : Placed(a)

\* The barrier has counted those who came, and nobody is past it before N + 1 have.
Come(a) == IF pc[a] \in {"startTimer", "arrive"} THEN 0 ELSE 1

WBarrier ==
    /\ barrier = Come(0) + Sum([t \in 1..N |-> Come(t)], N)
    /\ (\E a \in 0..N : pc[a] \notin {"startTimer", "arrive", "spin"}) => barrier >= N + 1
    /\ pc[0] # "startTimer" => started

\* Who is inside a mutex holds it: a reader has those of the shards its loop has locked.
Has(a, i) ==
    \/ a = i /\ pc[a] \in {"bump", "incUnlock"}
    \/ pc[a] = "read" /\ i < j[a]
    \/ pc[a] = "sum"
    \/ pc[a] = "readUnlock" /\ i >= j[a]

WLocks ==
    /\ kind = "lock" =>
           \A a \in 0..N : pc[a] \in {"bump", "store", "incUnlock", "sum", "readUnlock"} => held[0] = a
    /\ kind = "shard_lock" => \A a \in 0..N, i \in 1..N : Has(a, i) => held[i] = a

\* The increments that have taken effect are where the counter will find them.
Pending(t) ==
    CASE pc[t] = "flush" -> c * N
      [] pc[t] = "reset" -> 0
      [] OTHER -> Workload!Counts(scratch[t])

WCount ==
    /\ kind = "naive" => v <= effected /\ \A t \in 1..N : pc[t] = "store" => acc[t] <= effected
    /\ kind = "lock" => v = effected /\ \A t \in 1..N : pc[t] = "store" => acc[t] = v
    /\ kind = "faa" => v = effected
    /\ kind \in {"shard_lock", "shard_wf"} => effected = Sum(scratch, N)
    /\ kind = "approx" => effected = v + Sum([t \in 1..N |-> Pending(t)], N)

\* A collect without locks has passed all the counts from lo on, and is between what the shards
\* behind it hold now and what they held at lo.
Collecting(a, lo) ==
    /\ lo \in seen[a] /\ lo .. effected \subseteq seen[a]
    /\ lo + Sum(scratch, j[a] - 1) <= acc[a] + effected
    /\ acc[a] <= Sum(scratch, j[a] - 1)

ReadRight(a) ==
    /\ Workload!Reading(pc[a]) => effected \in seen[a]
    /\ kind # "naive" /\ pc[a] \in {"readUnlock", "haveRead"} =>
           \E n \in seen[a] : acc[a] <= n /\ n <= acc[a] + Workload!Slack
    /\ kind = "naive" /\ pc[a] = "haveRead" => acc[a] <= effected
    /\ kind = "shard_lock" /\ pc[a] = "sum" => acc[a] = Sum(scratch, j[a] - 1)
    /\ kind = "shard_wf" /\ pc[a] = "read" => \E lo \in Nat : Collecting(a, lo)

WReads == \A a \in 0..N : ReadRight(a)

\* The increments of t that have taken effect and that it has not added to incrementsPerformed.
Own(t) == (IF pc[t] = "done" THEN 0 ELSE incs[t])
          + (IF pc[t] \in {"incUnlock", "flush", "reset", "incremented"} THEN 1 ELSE 0)

WPerformed ==
    /\ effected = initially + performed + Sum([t \in 1..N |-> Own(t)], N)
    /\ pc[0] \in {"read", "sum", "readUnlock", "haveRead"} =>
           seen[0] \subseteq {effected} /\ \A t \in 1..N : pc[t] = "done"

WInv == WTypeOK /\ WPlaces /\ WBarrier /\ WLocks /\ WCount /\ WReads /\ WPerformed
WorkloadInv == program = "workload" => WInv

-----------------------------------------------------------------------------
\* The steps of the workload.  One actor moves, from one place to another.
Moves(a, from, to) ==
    /\ pc[a] = from /\ pc' = [pc EXCEPT ![a] = to]
    /\ kind' = kind /\ initially' = initially

LEMMA WorkloadNames ==
    /\ Workload!Threads = 1..N /\ Workload!Actors = 0..N /\ Workload!Free = N + 1
    /\ N \in Nat \ {0} /\ c \in Nat \ {0} /\ Junk \subseteq Nat /\ MaxIncs \in Nat \ {0}
  BY CountingAssumption DEF Workload!Threads, Workload!Actors, Workload!Free,
                            Workload!CountersAssumption

LEMMA MoveFacts ==
    ASSUME WTypeOK, NEW a \in 0..N, NEW from, NEW to, Moves(a, from, to)
    PROVE  /\ pc[a] = from /\ pc'[a] = to /\ \A b \in 0..N : b # a => pc'[b] = pc[b]
           /\ kind' = kind /\ initially' = initially
           /\ \/ a = 0 /\ to \in MainPlaces
              \/ a # 0 /\ to \in ThreadPlaces
              => /\ pc' \in [0..N -> MainPlaces \cup ThreadPlaces]
                 /\ pc'[0] \in MainPlaces /\ \A t \in 1..N : pc'[t] \in ThreadPlaces
  <1>1. pc \in [0..N -> MainPlaces \cup ThreadPlaces] /\ pc[0] \in MainPlaces /\ \A t \in 1..N : pc[t] \in ThreadPlaces
    BY DEF WTypeOK
  <1>2. pc[a] = from /\ pc' = [pc EXCEPT ![a] = to] /\ kind' = kind /\ initially' = initially
    BY DEF Moves
  <1>3. pc'[a] = to /\ \A b \in 0..N : b # a => pc'[b] = pc[b]
    BY <1>1, <1>2
  <1> HIDE DEF MainPlaces, ThreadPlaces
  <1> QED BY <1>1, <1>2, <1>3, WorkloadNames

LEMMA StartTimerMove ==
    ASSUME Workload!StartTimer, UNCHANGED initially
    PROVE  /\ Moves(0, "startTimer", "arrive") /\ started' = TRUE
           /\ UNCHANGED <<v, scratch, held, j, acc, effected, barrier, incs, performed>>
  BY DEF Moves, Workload!StartTimer, Workload!counterData, Workload!At, Workload!Goto

LEMMA JoinMove ==
    ASSUME Workload!Join, UNCHANGED initially
    PROVE  /\ Moves(0, "join", "read") /\ \A t \in 1..N : pc[t] = "done"
           /\ UNCHANGED <<v, scratch, held, j, acc, effected, barrier, started, incs, performed>>
  BY WorkloadNames DEF Moves, Workload!Join, Workload!counterData, Workload!At, Workload!Goto

LEMMA ArriveMove ==
    ASSUME NEW a, Workload!Arrive(a), UNCHANGED initially
    PROVE  /\ Moves(a, "arrive", "spin") /\ barrier' = barrier + 1
           /\ UNCHANGED <<v, scratch, held, j, acc, effected, started, incs, performed>>
  BY DEF Moves, Workload!Arrive, Workload!CountIn, Workload!counterData, Workload!At, Workload!Goto

LEMMA PassMove ==
    ASSUME NEW a, Workload!Pass(a), UNCHANGED initially
    PROVE  /\ Moves(a, "spin", IF a = 0 THEN "join" ELSE "read") /\ barrier >= 1 + N
           /\ UNCHANGED <<v, scratch, held, j, acc, effected, barrier, started, incs, performed>>
  BY DEF Moves, Workload!Pass, Workload!Released, Workload!releaseValue, Workload!counterData,
         Workload!At, Workload!Goto

LEMMA PrintReadMove ==
    ASSUME NEW t, Workload!PrintRead(t), UNCHANGED initially
    PROVE  /\ Moves(t, "haveRead", "inc") /\ acc' = [acc EXCEPT ![t] = 0]
           /\ UNCHANGED <<v, scratch, held, j, effected, barrier, started, incs, performed>>
  BY DEF Moves, Workload!PrintRead, Workload!counterData, Workload!At, Workload!Goto

LEMMA RepeatMove ==
    ASSUME NEW t, Workload!Repeat(t), UNCHANGED initially
    PROVE  /\ Moves(t, "incremented", "add") \/ Moves(t, "incremented", "inc")
           /\ incs' = [incs EXCEPT ![t] = incs[t] + 1]
           /\ UNCHANGED <<v, scratch, held, j, acc, effected, barrier, started, performed>>
  BY DEF Moves, Workload!Repeat, Workload!counterData, Workload!At, Workload!Goto

LEMMA AddPerformedMove ==
    ASSUME NEW t, Workload!AddPerformed(t), UNCHANGED initially
    PROVE  /\ Moves(t, "add", "done") /\ performed' = performed + incs[t]
           /\ UNCHANGED <<v, scratch, held, j, acc, effected, barrier, started, incs>>
  BY DEF Moves, Workload!AddPerformed, Workload!counterData, Workload!At, Workload!Goto

\* What inc and read leave to the workload.
Elsewhere == UNCHANGED <<barrier, started, incs, performed, initially>>

LEMMA LoadVMove ==
    ASSUME NEW t, Workload!LoadV(t), Elsewhere
    PROVE  /\ \/ kind = "naive" /\ Moves(t, "inc", "store")
              \/ kind = "lock" /\ Moves(t, "bump", "store")
           /\ acc' = [acc EXCEPT ![t] = v]
           /\ UNCHANGED <<v, scratch, held, j, effected>>
  BY DEF Moves, Elsewhere, Workload!LoadV, Workload!At, Workload!Goto

LEMMA StoreVMove ==
    ASSUME NEW t, Workload!StoreV(t), Elsewhere
    PROVE  /\ Moves(t, "store", IF kind = "lock" THEN "incUnlock" ELSE "incremented")
           /\ v' = acc[t] + 1 /\ acc' = [acc EXCEPT ![t] = 0] /\ effected' = effected + 1
           /\ UNCHANGED <<scratch, held, j>>
  BY DEF Moves, Elsewhere, Workload!StoreV, Workload!At, Workload!Goto

LEMMA FaaMove ==
    ASSUME NEW t, Workload!Faa(t), Elsewhere
    PROVE  /\ kind = "faa" /\ Moves(t, "inc", "incremented") /\ v' = v + 1 /\ effected' = effected + 1
           /\ UNCHANGED <<scratch, held, j, acc>>
  BY DEF Moves, Elsewhere, Workload!Faa, Workload!At, Workload!Goto

LEMMA IncLockMove ==
    ASSUME NEW t, Workload!IncLock(t), Elsewhere
    PROVE  /\ \/ kind = "lock" /\ held[0] = N + 1 /\ held' = [held EXCEPT ![0] = t]
              \/ kind = "shard_lock" /\ held[t] = N + 1 /\ held' = [held EXCEPT ![t] = t]
           /\ Moves(t, "inc", "bump")
           /\ UNCHANGED <<v, scratch, j, acc, effected>>
  BY WorkloadNames DEF Moves, Elsewhere, Workload!IncLock, Workload!Lock, Workload!At, Workload!Goto

LEMMA BumpMove ==
    ASSUME NEW t, Workload!Bump(t), Elsewhere
    PROVE  /\ kind = "shard_lock" /\ Moves(t, "bump", "incUnlock")
           /\ scratch' = [scratch EXCEPT ![t] = scratch[t] + 1] /\ effected' = effected + 1
           /\ UNCHANGED <<v, held, j, acc>>
  BY DEF Moves, Elsewhere, Workload!Bump, Workload!At, Workload!Goto

LEMMA IncUnlockMove ==
    ASSUME NEW t, Workload!IncUnlock(t), Elsewhere
    PROVE  /\ held' = [held EXCEPT ![IF kind = "lock" THEN 0 ELSE t] = N + 1]
           /\ Moves(t, "incUnlock", "incremented")
           /\ UNCHANGED <<v, scratch, j, acc, effected>>
  BY WorkloadNames DEF Moves, Elsewhere, Workload!IncUnlock, Workload!Unlock, Workload!At, Workload!Goto

LEMMA ShardAddMove ==
    ASSUME NEW t, Workload!ShardAdd(t), Elsewhere
    PROVE  /\ kind \in {"approx", "shard_wf"}
           /\ Moves(t, "inc", IF kind = "approx" /\ scratch[t] + 1 >= c * N THEN "flush" ELSE "incremented")
           /\ scratch' = [scratch EXCEPT ![t] = scratch[t] + 1] /\ effected' = effected + 1
           /\ UNCHANGED <<v, held, j, acc>>
  BY DEF Moves, Elsewhere, Workload!ShardAdd, Workload!At, Workload!Goto

LEMMA FlushMove ==
    ASSUME NEW t, Workload!Flush(t), Elsewhere
    PROVE  /\ Moves(t, "flush", "reset") /\ v' = v + c * N
           /\ UNCHANGED <<scratch, held, j, acc, effected>>
  BY DEF Moves, Elsewhere, Workload!Flush, Workload!At, Workload!Goto

LEMMA ResetMove ==
    ASSUME NEW t, Workload!Reset(t), Elsewhere
    PROVE  /\ Moves(t, "reset", "incremented") /\ scratch' = [scratch EXCEPT ![t] = 0]
           /\ UNCHANGED <<v, held, j, acc, effected>>
  BY DEF Moves, Elsewhere, Workload!Reset, Workload!At, Workload!Goto

LEMMA LoadMove ==
    ASSUME NEW a, Workload!Load(a), Elsewhere
    PROVE  /\ \/ kind \in {"naive", "faa", "approx"} /\ Moves(a, "read", "haveRead")
              \/ kind = "lock" /\ Moves(a, "sum", "readUnlock")
           /\ acc' = [acc EXCEPT ![a] = v]
           /\ UNCHANGED <<v, scratch, held, j, effected>>
  BY DEF Moves, Elsewhere, Workload!Load, Workload!At, Workload!Goto

LEMMA ReadLockMove ==
    ASSUME WTypeOK, NEW a \in 0..N, Workload!ReadLock(a), Elsewhere
    PROVE  /\ \/ /\ kind = "lock" /\ held[0] = N + 1 /\ held' = [held EXCEPT ![0] = a]
                 /\ Moves(a, "read", "sum") /\ j' = [j EXCEPT ![a] = 1]
              \/ /\ kind = "shard_lock" /\ held[j[a]] = N + 1 /\ held' = [held EXCEPT ![j[a]] = a]
                 /\ \/ j[a] = N /\ Moves(a, "read", "sum") /\ j' = [j EXCEPT ![a] = 1]
                    \/ j[a] # N /\ Moves(a, "read", "read") /\ j' = [j EXCEPT ![a] = j[a] + 1]
           /\ UNCHANGED <<v, scratch, acc, effected>>
  <1>1. pc' = pc => pc' = [pc EXCEPT ![a] = pc[a]]
    BY DEF WTypeOK
  <1> QED BY <1>1, WorkloadNames DEF Moves, Elsewhere, Workload!ReadLock, Workload!Lock, Workload!At,
                                     Workload!Goto

LEMMA ReadUnlockMove ==
    ASSUME WTypeOK, NEW a \in 0..N, Workload!ReadUnlock(a), Elsewhere
    PROVE  /\ held' = [held EXCEPT ![IF kind = "lock" THEN 0 ELSE j[a]] = N + 1]
           /\ \/ (kind = "lock" \/ j[a] = N) /\ Moves(a, "readUnlock", "haveRead") /\ j' = [j EXCEPT ![a] = 1]
              \/ /\ kind # "lock" /\ j[a] # N
                 /\ Moves(a, "readUnlock", "readUnlock") /\ j' = [j EXCEPT ![a] = j[a] + 1]
           /\ UNCHANGED <<v, scratch, acc, effected>>
  <1>1. pc' = pc => pc' = [pc EXCEPT ![a] = pc[a]]
    BY DEF WTypeOK
  <1> QED BY <1>1, WorkloadNames DEF Moves, Elsewhere, Workload!ReadUnlock, Workload!Unlock,
                                     Workload!At, Workload!Goto

LEMMA CollectMove ==
    ASSUME WTypeOK, NEW a \in 0..N, Workload!Collect(a), Elsewhere
    PROVE  /\ \/ /\ kind = "shard_wf"
                 /\ \/ j[a] = N /\ Moves(a, "read", "haveRead") /\ j' = [j EXCEPT ![a] = 1]
                    \/ j[a] # N /\ Moves(a, "read", "read") /\ j' = [j EXCEPT ![a] = j[a] + 1]
              \/ /\ kind = "shard_lock"
                 /\ \/ j[a] = N /\ Moves(a, "sum", "readUnlock") /\ j' = [j EXCEPT ![a] = 1]
                    \/ j[a] # N /\ Moves(a, "sum", "sum") /\ j' = [j EXCEPT ![a] = j[a] + 1]
           /\ acc' = [acc EXCEPT ![a] = acc[a] + scratch[j[a]]]
           /\ UNCHANGED <<v, scratch, held, effected>>
  <1>1. pc' = pc => pc' = [pc EXCEPT ![a] = pc[a]]
    BY DEF WTypeOK
  <1> QED BY <1>1 DEF Moves, Elsewhere, Workload!Collect, Workload!At, Workload!Goto

LEMMA StepSplit ==
    ASSUME NEW a \in 0..N, Workload!Step(a)
    PROVE  /\ Workload!Record /\ UNCHANGED initially
           /\ \/ a = 0 /\ Workload!StartTimer
              \/ a = 0 /\ Workload!Join
              \/ Workload!Arrive(a)
              \/ Workload!Pass(a)
              \/ /\ a \in 1..N
                 /\ Workload!PrintRead(a) \/ Workload!Repeat(a) \/ Workload!AddPerformed(a)
              \/ /\ a \in 1..N /\ Elsewhere
                 /\ \/ Workload!LoadV(a) \/ Workload!StoreV(a) \/ Workload!Faa(a) \/ Workload!IncLock(a)
                    \/ Workload!Bump(a) \/ Workload!IncUnlock(a) \/ Workload!ShardAdd(a)
                    \/ Workload!Flush(a) \/ Workload!Reset(a)
              \/ /\ Elsewhere
                 /\ Workload!Load(a) \/ Workload!ReadLock(a) \/ Workload!ReadUnlock(a) \/ Workload!Collect(a)
  <1>1. Workload!Record /\ UNCHANGED initially
    BY DEF Workload!Step, Workload!Record
  <1>2. Workload!Operate(a) => Elsewhere
    BY <1>1 DEF Workload!Operate, Elsewhere
  <1> QED BY <1>1, <1>2, WorkloadNames DEF Workload!Step, Workload!Operate, Workload!Inc,
                                           Workload!ReadStep

\* What a step of a leaves of the types.
Numbers ==
    started' \in BOOLEAN /\ v' \in Nat /\ effected' \in Nat /\ performed' \in Nat /\ barrier' \in Nat
Arrays == scratch' \in [1..N -> Nat] /\ incs' \in [1..N -> Nat] /\ held' \in [0..N -> 0..N + 1]
Locals(a) ==
    /\ j' \in [0..N -> 1..N] /\ acc' \in [0..N -> Nat]
    /\ \A b \in 0..N : b # a => j'[b] = j[b] /\ acc'[b] = acc[b]

LEMMA FittingStep ==
    ASSUME WTypeOK, WPlaces, NEW a \in 0..N, NEW from, NEW to, Moves(a, from, to),
           a = 0 => to \in MainPlaces, a # 0 => to \in ThreadPlaces,
           Numbers, Arrays, Locals(a), Placed(a)', Workload!Record
    PROVE  WTypeOK' /\ WPlaces'
  <1>1. /\ pc' \in [0..N -> MainPlaces \cup ThreadPlaces]
        /\ pc'[0] \in MainPlaces /\ \A t \in 1..N : pc'[t] \in ThreadPlaces
        /\ \A b \in 0..N : b # a => pc'[b] = pc[b]
        /\ kind' = kind /\ initially' = initially
    BY MoveFacts
  <1>2. seen' \in [0..N -> SUBSET Nat]
    BY WorkloadNames DEF Workload!Record, WTypeOK, Numbers
  <1>3. WTypeOK'
    BY <1>1, <1>2 DEF WTypeOK, Numbers, Arrays, Locals
  <1>4. ASSUME NEW b \in 0..N PROVE Placed(b)'
    BY <1>1, <1>4 DEF Locals, WPlaces, Placed
  <1> QED BY <1>3, <1>4 DEF WPlaces

LEMMA TypeStep ==
    ASSUME WTypeOK, WPlaces, NEW a \in 0..N, Workload!Step(a)
    PROVE  WTypeOK' /\ WPlaces'
  <1>1. Placed(a) /\ N \in Nat \ {0} /\ UNCHANGED initially /\ Workload!Record
    BY StepSplit, WorkloadNames DEF WPlaces
  <1>2. a \in 1..N => scratch[a] + 1 \in Nat /\ incs[a] + 1 \in Nat /\ performed + incs[a] \in Nat
    <2> SUFFICES ASSUME a \in 1..N PROVE scratch[a] + 1 \in Nat /\ incs[a] + 1 \in Nat /\ performed + incs[a] \in Nat
      OBVIOUS
    <2>1. scratch[a] \in Nat /\ incs[a] \in Nat /\ performed \in Nat
      BY DEF WTypeOK
    <2> QED BY <2>1
  <1>3. /\ acc[a] + 1 \in Nat /\ acc[a] + scratch[j[a]] \in Nat /\ v + 1 \in Nat /\ effected + 1 \in Nat
        /\ j[a] \in 0..N /\ (j[a] # N => j[a] + 1 \in 1..N) /\ a \in 0..N + 1 /\ barrier + 1 \in Nat
    <2>1. j[a] \in 1..N /\ acc[a] \in Nat /\ v \in Nat /\ effected \in Nat /\ barrier \in Nat
      BY DEF WTypeOK
    <2>2. scratch[j[a]] \in Nat
      BY <2>1 DEF WTypeOK
    <2> QED BY <1>1, <2>1, <2>2
  <1>4. N + 1 \in 0..N + 1 /\ 1 \in 1..N /\ 0 \in 0..N /\ v + c * N \in Nat
    <2>1. v \in Nat /\ c \in Nat /\ N \in Nat \ {0}
      BY WorkloadNames DEF WTypeOK
    <2>2. c * N \in Nat
      BY <2>1
    <2> QED BY <2>1, <2>2
  <1> USE <1>1, <1>2, <1>3, <1>4
  <1>5. CASE a = 0 /\ Workload!StartTimer
    <2>1. /\ Moves(a, "startTimer", "arrive") /\ started' = TRUE
          /\ UNCHANGED <<v, scratch, held, j, acc, effected, barrier, incs, performed>>
      BY <1>5, StartTimerMove
    <2>2. Numbers
      BY <1>5, <2>1 DEF Numbers, WTypeOK
    <2>3. Arrays
      BY <1>5, <2>1 DEF Arrays, WTypeOK
    <2>4. Locals(a)
      BY <2>1 DEF Locals, WTypeOK
    <2>5. pc[a] = "startTimer" /\ pc'[a] = "arrive" /\ kind' = kind
      BY <2>1, MoveFacts
    <2>6. Placed(a)'
      BY <1>5, <2>1, <2>5 DEF Placed, WTypeOK
    <2> QED BY <1>5, <2>1, <2>2, <2>3, <2>4, <2>6, FittingStep DEF MainPlaces, ThreadPlaces
  <1>6. CASE a = 0 /\ Workload!Join
    <2>1. /\ Moves(a, "join", "read") /\ \A t \in 1..N : pc[t] = "done"
          /\ UNCHANGED <<v, scratch, held, j, acc, effected, barrier, started, incs, performed>>
      BY <1>6, JoinMove
    <2>2. Numbers
      BY <1>6, <2>1 DEF Numbers, WTypeOK
    <2>3. Arrays
      BY <1>6, <2>1 DEF Arrays, WTypeOK
    <2>4. Locals(a)
      BY <2>1 DEF Locals, WTypeOK
    <2>5. pc[a] = "join" /\ pc'[a] = "read" /\ kind' = kind
      BY <2>1, MoveFacts
    <2>6. Placed(a)'
      BY <1>6, <2>1, <2>5 DEF Placed, WTypeOK
    <2> QED BY <1>6, <2>1, <2>2, <2>3, <2>4, <2>6, FittingStep DEF MainPlaces, ThreadPlaces
  <1>7. CASE Workload!Arrive(a)
    <2>1. /\ Moves(a, "arrive", "spin") /\ barrier' = barrier + 1
          /\ UNCHANGED <<v, scratch, held, j, acc, effected, started, incs, performed>>
      BY <1>7, ArriveMove
    <2>2. Numbers
      BY <1>7, <2>1 DEF Numbers, WTypeOK
    <2>3. Arrays
      BY <1>7, <2>1 DEF Arrays, WTypeOK
    <2>4. Locals(a)
      BY <2>1 DEF Locals, WTypeOK
    <2>5. pc[a] = "arrive" /\ pc'[a] = "spin" /\ kind' = kind
      BY <2>1, MoveFacts
    <2>6. Placed(a)'
      BY <1>7, <2>1, <2>5 DEF Placed, WTypeOK
    <2> QED BY <1>7, <2>1, <2>2, <2>3, <2>4, <2>6, FittingStep DEF MainPlaces, ThreadPlaces
  <1>8. CASE Workload!Pass(a)
    <2>1. /\ Moves(a, "spin", IF a = 0 THEN "join" ELSE "read") /\ barrier >= 1 + N
          /\ UNCHANGED <<v, scratch, held, j, acc, effected, barrier, started, incs, performed>>
      BY <1>8, PassMove
    <2>2. Numbers
      BY <1>8, <2>1 DEF Numbers, WTypeOK
    <2>3. Arrays
      BY <1>8, <2>1 DEF Arrays, WTypeOK
    <2>4. Locals(a)
      BY <2>1 DEF Locals, WTypeOK
    <2>5. pc[a] = "spin" /\ pc'[a] = (IF a = 0 THEN "join" ELSE "read") /\ kind' = kind
      BY <2>1, MoveFacts
    <2>6. Placed(a)'
      BY <1>8, <2>1, <2>5 DEF Placed, WTypeOK
    <2> QED BY <1>8, <2>1, <2>2, <2>3, <2>4, <2>6, FittingStep DEF MainPlaces, ThreadPlaces
  <1>9. CASE a \in 1..N /\ Workload!PrintRead(a)
    <2>1. /\ Moves(a, "haveRead", "inc") /\ acc' = [acc EXCEPT ![a] = 0]
          /\ UNCHANGED <<v, scratch, held, j, effected, barrier, started, incs, performed>>
      BY <1>9, PrintReadMove
    <2>2. Numbers
      BY <1>9, <2>1 DEF Numbers, WTypeOK
    <2>3. Arrays
      BY <1>9, <2>1 DEF Arrays, WTypeOK
    <2>4. Locals(a)
      BY <2>1 DEF Locals, WTypeOK
    <2>5. pc[a] = "haveRead" /\ pc'[a] = "inc" /\ kind' = kind
      BY <2>1, MoveFacts
    <2>6. Placed(a)'
      BY <1>9, <2>1, <2>5 DEF Placed, WTypeOK
    <2> QED BY <1>9, <2>1, <2>2, <2>3, <2>4, <2>6, FittingStep DEF MainPlaces, ThreadPlaces
  <1>10. CASE a \in 1..N /\ Workload!Repeat(a)
    <2>1. /\ Moves(a, "incremented", "add") \/ Moves(a, "incremented", "inc")
          /\ incs' = [incs EXCEPT ![a] = incs[a] + 1]
          /\ UNCHANGED <<v, scratch, held, j, acc, effected, barrier, started, performed>>
      BY <1>10, RepeatMove
    <2>2. Numbers
      BY <1>10, <2>1 DEF Numbers, WTypeOK
    <2>3. Arrays
      BY <1>10, <2>1 DEF Arrays, WTypeOK
    <2>4. Locals(a)
      BY <2>1 DEF Locals, WTypeOK
    <2>5. PICK to \in {"add", "inc"} : Moves(a, "incremented", to)
      BY <1>10, <2>1 DEF Moves, WTypeOK
    <2>6. pc[a] = "incremented" /\ pc'[a] = to /\ kind' = kind
      BY <2>5, MoveFacts
    <2>7. Placed(a)'
      BY <1>10, <2>1, <2>5, <2>6 DEF Placed, WTypeOK
    <2> QED BY <1>10, <2>2, <2>3, <2>4, <2>5, <2>7, FittingStep DEF MainPlaces, ThreadPlaces
  <1>11. CASE a \in 1..N /\ Workload!AddPerformed(a)
    <2>1. /\ Moves(a, "add", "done") /\ performed' = performed + incs[a]
          /\ UNCHANGED <<v, scratch, held, j, acc, effected, barrier, started, incs>>
      BY <1>11, AddPerformedMove
    <2>2. Numbers
      BY <1>11, <2>1 DEF Numbers, WTypeOK
    <2>3. Arrays
      BY <1>11, <2>1 DEF Arrays, WTypeOK
    <2>4. Locals(a)
      BY <2>1 DEF Locals, WTypeOK
    <2>5. pc[a] = "add" /\ pc'[a] = "done" /\ kind' = kind
      BY <2>1, MoveFacts
    <2>6. Placed(a)'
      BY <1>11, <2>1, <2>5 DEF Placed, WTypeOK
    <2> QED BY <1>11, <2>1, <2>2, <2>3, <2>4, <2>6, FittingStep DEF MainPlaces, ThreadPlaces
  <1>12. CASE a \in 1..N /\ Elsewhere /\ Workload!LoadV(a)
    <2>1. /\ \/ kind = "naive" /\ Moves(a, "inc", "store")
             \/ kind = "lock" /\ Moves(a, "bump", "store")
          /\ acc' = [acc EXCEPT ![a] = v]
          /\ UNCHANGED <<v, scratch, held, j, effected>>
          /\ Elsewhere
      BY <1>12, LoadVMove
    <2>2. Numbers
      BY <1>12, <2>1 DEF Numbers, WTypeOK, Elsewhere
    <2>3. Arrays
      BY <1>12, <2>1 DEF Arrays, WTypeOK, Elsewhere
    <2>4. Locals(a)
      BY <2>1 DEF Locals, WTypeOK
    <2>5. PICK to \in {"store"} : Moves(a, pc[a], to) /\ kind \in {"naive", "lock"}
      BY <1>12, <2>1 DEF Moves, WTypeOK
    <2>6. pc'[a] = to /\ kind' = kind
      BY <2>5, MoveFacts
    <2>7. Placed(a)'
      BY <1>12, <2>1, <2>5, <2>6 DEF Placed, WTypeOK
    <2> QED BY <1>12, <2>2, <2>3, <2>4, <2>5, <2>7, FittingStep DEF MainPlaces, ThreadPlaces
  <1>13. CASE a \in 1..N /\ Elsewhere /\ Workload!StoreV(a)
    <2>1. /\ Moves(a, "store", IF kind = "lock" THEN "incUnlock" ELSE "incremented")
          /\ v' = acc[a] + 1 /\ acc' = [acc EXCEPT ![a] = 0] /\ effected' = effected + 1
          /\ UNCHANGED <<scratch, held, j>>
          /\ Elsewhere
      BY <1>13, StoreVMove
    <2>2. Numbers
      BY <1>13, <2>1 DEF Numbers, WTypeOK, Elsewhere
    <2>3. Arrays
      BY <1>13, <2>1 DEF Arrays, WTypeOK, Elsewhere
    <2>4. Locals(a)
      BY <2>1 DEF Locals, WTypeOK
    <2>5. pc[a] = "store" /\ pc'[a] = (IF kind = "lock" THEN "incUnlock" ELSE "incremented") /\ kind' = kind
      BY <2>1, MoveFacts
    <2>6. Placed(a)'
      BY <1>13, <2>1, <2>5 DEF Placed, WTypeOK
    <2> QED BY <1>13, <2>1, <2>2, <2>3, <2>4, <2>6, FittingStep DEF MainPlaces, ThreadPlaces
  <1>14. CASE a \in 1..N /\ Elsewhere /\ Workload!Faa(a)
    <2>1. /\ kind = "faa" /\ Moves(a, "inc", "incremented") /\ v' = v + 1 /\ effected' = effected + 1
          /\ UNCHANGED <<scratch, held, j, acc>>
          /\ Elsewhere
      BY <1>14, FaaMove
    <2>2. Numbers
      BY <1>14, <2>1 DEF Numbers, WTypeOK, Elsewhere
    <2>3. Arrays
      BY <1>14, <2>1 DEF Arrays, WTypeOK, Elsewhere
    <2>4. Locals(a)
      BY <2>1 DEF Locals, WTypeOK
    <2>5. pc[a] = "inc" /\ pc'[a] = "incremented" /\ kind' = kind
      BY <2>1, MoveFacts
    <2>6. Placed(a)'
      BY <1>14, <2>1, <2>5 DEF Placed, WTypeOK
    <2> QED BY <1>14, <2>1, <2>2, <2>3, <2>4, <2>6, FittingStep DEF MainPlaces, ThreadPlaces
  <1>15. CASE a \in 1..N /\ Elsewhere /\ Workload!IncLock(a)
    <2>1. /\ \/ kind = "lock" /\ held[0] = N + 1 /\ held' = [held EXCEPT ![0] = a]
             \/ kind = "shard_lock" /\ held[a] = N + 1 /\ held' = [held EXCEPT ![a] = a]
          /\ Moves(a, "inc", "bump")
          /\ UNCHANGED <<v, scratch, j, acc, effected>>
          /\ Elsewhere
      BY <1>15, IncLockMove
    <2>2. Numbers
      BY <1>15, <2>1 DEF Numbers, WTypeOK, Elsewhere
    <2>3. Arrays
      BY <1>15, <2>1, ZenonT(60) DEF Arrays, WTypeOK, Elsewhere
    <2>4. Locals(a)
      BY <2>1 DEF Locals, WTypeOK
    <2>5. pc[a] = "inc" /\ pc'[a] = "bump" /\ kind' = kind
      BY <2>1, MoveFacts
    <2>6. Placed(a)'
      BY <1>15, <2>1, <2>5 DEF Placed, WTypeOK
    <2> QED BY <1>15, <2>1, <2>2, <2>3, <2>4, <2>6, FittingStep DEF MainPlaces, ThreadPlaces
  <1>16. CASE a \in 1..N /\ Elsewhere /\ Workload!Bump(a)
    <2>1. /\ kind = "shard_lock" /\ Moves(a, "bump", "incUnlock")
          /\ scratch' = [scratch EXCEPT ![a] = scratch[a] + 1] /\ effected' = effected + 1
          /\ UNCHANGED <<v, held, j, acc>>
          /\ Elsewhere
      BY <1>16, BumpMove
    <2>2. Numbers
      BY <1>16, <2>1 DEF Numbers, WTypeOK, Elsewhere
    <2>3. Arrays
      BY <1>16, <2>1 DEF Arrays, WTypeOK, Elsewhere
    <2>4. Locals(a)
      BY <2>1 DEF Locals, WTypeOK
    <2>5. pc[a] = "bump" /\ pc'[a] = "incUnlock" /\ kind' = kind
      BY <2>1, MoveFacts
    <2>6. Placed(a)'
      BY <1>16, <2>1, <2>5 DEF Placed, WTypeOK
    <2> QED BY <1>16, <2>1, <2>2, <2>3, <2>4, <2>6, FittingStep DEF MainPlaces, ThreadPlaces
  <1>17. CASE a \in 1..N /\ Elsewhere /\ Workload!IncUnlock(a)
    <2>1. /\ held' = [held EXCEPT ![IF kind = "lock" THEN 0 ELSE a] = N + 1]
          /\ Moves(a, "incUnlock", "incremented")
          /\ UNCHANGED <<v, scratch, j, acc, effected>>
          /\ Elsewhere
      BY <1>17, IncUnlockMove
    <2>2. Numbers
      BY <1>17, <2>1 DEF Numbers, WTypeOK, Elsewhere
    <2>3. Arrays
      BY <1>17, <2>1 DEF Arrays, WTypeOK, Elsewhere
    <2>4. Locals(a)
      BY <2>1 DEF Locals, WTypeOK
    <2>5. pc[a] = "incUnlock" /\ pc'[a] = "incremented" /\ kind' = kind
      BY <2>1, MoveFacts
    <2>6. Placed(a)'
      BY <1>17, <2>1, <2>5 DEF Placed, WTypeOK
    <2> QED BY <1>17, <2>1, <2>2, <2>3, <2>4, <2>6, FittingStep DEF MainPlaces, ThreadPlaces
  <1>18. CASE a \in 1..N /\ Elsewhere /\ Workload!ShardAdd(a)
    <2>1. /\ kind \in {"approx", "shard_wf"}
          /\ Moves(a, "inc", IF kind = "approx" /\ scratch[a] + 1 >= c * N THEN "flush" ELSE "incremented")
          /\ scratch' = [scratch EXCEPT ![a] = scratch[a] + 1] /\ effected' = effected + 1
          /\ UNCHANGED <<v, held, j, acc>>
          /\ Elsewhere
      BY <1>18, ShardAddMove
    <2>2. Numbers
      BY <1>18, <2>1 DEF Numbers, WTypeOK, Elsewhere
    <2>3. Arrays
      BY <1>18, <2>1 DEF Arrays, WTypeOK, Elsewhere
    <2>4. Locals(a)
      BY <2>1 DEF Locals, WTypeOK
    <2>5. pc[a] = "inc" /\ pc'[a] = (IF kind = "approx" /\ scratch[a] + 1 >= c * N THEN "flush" ELSE "incremented") /\ kind' = kind
      BY <2>1, MoveFacts
    <2>6. Placed(a)'
      BY <1>18, <2>1, <2>5 DEF Placed, WTypeOK
    <2> QED BY <1>18, <2>1, <2>2, <2>3, <2>4, <2>6, FittingStep DEF MainPlaces, ThreadPlaces
  <1>19. CASE a \in 1..N /\ Elsewhere /\ Workload!Flush(a)
    <2>1. /\ Moves(a, "flush", "reset") /\ v' = v + c * N
          /\ UNCHANGED <<scratch, held, j, acc, effected>>
          /\ Elsewhere
      BY <1>19, FlushMove
    <2>2. Numbers
      BY <1>19, <2>1 DEF Numbers, WTypeOK, Elsewhere
    <2>3. Arrays
      BY <1>19, <2>1 DEF Arrays, WTypeOK, Elsewhere
    <2>4. Locals(a)
      BY <2>1 DEF Locals, WTypeOK
    <2>5. pc[a] = "flush" /\ pc'[a] = "reset" /\ kind' = kind
      BY <2>1, MoveFacts
    <2>6. Placed(a)'
      BY <1>19, <2>1, <2>5 DEF Placed, WTypeOK
    <2> QED BY <1>19, <2>1, <2>2, <2>3, <2>4, <2>6, FittingStep DEF MainPlaces, ThreadPlaces
  <1>20. CASE a \in 1..N /\ Elsewhere /\ Workload!Reset(a)
    <2>1. /\ Moves(a, "reset", "incremented") /\ scratch' = [scratch EXCEPT ![a] = 0]
          /\ UNCHANGED <<v, held, j, acc, effected>>
          /\ Elsewhere
      BY <1>20, ResetMove
    <2>2. Numbers
      BY <1>20, <2>1 DEF Numbers, WTypeOK, Elsewhere
    <2>3. Arrays
      BY <1>20, <2>1 DEF Arrays, WTypeOK, Elsewhere
    <2>4. Locals(a)
      BY <2>1 DEF Locals, WTypeOK
    <2>5. pc[a] = "reset" /\ pc'[a] = "incremented" /\ kind' = kind
      BY <2>1, MoveFacts
    <2>6. Placed(a)'
      BY <1>20, <2>1, <2>5 DEF Placed, WTypeOK
    <2> QED BY <1>20, <2>1, <2>2, <2>3, <2>4, <2>6, FittingStep DEF MainPlaces, ThreadPlaces
  <1>21. CASE Elsewhere /\ Workload!Load(a)
    <2>1. /\ \/ kind \in {"naive", "faa", "approx"} /\ Moves(a, "read", "haveRead")
             \/ kind = "lock" /\ Moves(a, "sum", "readUnlock")
          /\ acc' = [acc EXCEPT ![a] = v]
          /\ UNCHANGED <<v, scratch, held, j, effected>>
          /\ Elsewhere
      BY <1>21, LoadMove
    <2>2. Numbers
      BY <1>21, <2>1 DEF Numbers, WTypeOK, Elsewhere
    <2>3. Arrays
      BY <1>21, <2>1 DEF Arrays, WTypeOK, Elsewhere
    <2>4. Locals(a)
      BY <2>1 DEF Locals, WTypeOK
    <2>5. PICK to \in {"haveRead", "readUnlock"} : Moves(a, pc[a], to) /\ (to = "readUnlock" => kind = "lock") /\ kind \notin {"shard_lock", "shard_wf"}
      BY <1>21, <2>1 DEF Moves, WTypeOK
    <2>6. pc'[a] = to /\ kind' = kind
      BY <2>5, MoveFacts
    <2>7. Placed(a)'
      BY <1>21, <2>1, <2>5, <2>6 DEF Placed, WTypeOK
    <2> QED BY <1>21, <2>2, <2>3, <2>4, <2>5, <2>7, FittingStep DEF MainPlaces, ThreadPlaces
  <1>22. CASE Elsewhere /\ Workload!ReadLock(a)
    <2>1. /\ \/ /\ kind = "lock" /\ held[0] = N + 1 /\ held' = [held EXCEPT ![0] = a]
                /\ Moves(a, "read", "sum") /\ j' = [j EXCEPT ![a] = 1]
             \/ /\ kind = "shard_lock" /\ held[j[a]] = N + 1 /\ held' = [held EXCEPT ![j[a]] = a]
                /\ \/ j[a] = N /\ Moves(a, "read", "sum") /\ j' = [j EXCEPT ![a] = 1]
                   \/ j[a] # N /\ Moves(a, "read", "read") /\ j' = [j EXCEPT ![a] = j[a] + 1]
          /\ UNCHANGED <<v, scratch, acc, effected>>
          /\ Elsewhere
      BY <1>22, ReadLockMove
    <2>2. Numbers
      BY <1>22, <2>1 DEF Numbers, WTypeOK, Elsewhere
    <2>3. Arrays
      <3>1. held' = [held EXCEPT ![0] = a] \/ held' = [held EXCEPT ![j[a]] = a]
        BY <2>1
      <3>2. held' \in [0..N -> 0..N + 1]
        BY <3>1 DEF WTypeOK
      <3> QED BY <2>1, <3>2 DEF Arrays, WTypeOK, Elsewhere
    <2>4. Locals(a)
      <3>1. PICK k \in 1..N : j' = [j EXCEPT ![a] = k]
        <4>1. \/ j' = [j EXCEPT ![a] = 1]
              \/ j[a] # N /\ j' = [j EXCEPT ![a] = j[a] + 1]
          BY <2>1
        <4> QED BY <4>1
      <3> QED BY <2>1, <3>1 DEF Locals, WTypeOK
    <2>5. PICK to \in {"sum", "read"} :
             Moves(a, "read", to) /\ (kind = "shard_lock" \/ (kind = "lock" /\ to = "sum" /\ j'[a] = 1))
      <3>1. CASE kind = "shard_lock"
        <4>1. Moves(a, "read", "sum") \/ Moves(a, "read", "read")
          BY <2>1, <3>1
        <4> QED BY <3>1, <4>1
      <3>2. CASE kind # "shard_lock"
        <4>1. kind = "lock" /\ Moves(a, "read", "sum") /\ j' = [j EXCEPT ![a] = 1]
          BY <2>1, <3>2
        <4>2. j'[a] = 1
          BY <4>1 DEF WTypeOK
        <4> QED BY <4>1, <4>2
      <3> QED BY <3>1, <3>2
    <2>6. pc[a] = "read" /\ pc'[a] = to /\ kind' = kind
      BY <2>5, MoveFacts
    <2>7. Placed(a)'
      BY <1>22, <2>1, <2>5, <2>6 DEF Placed, WTypeOK
    <2> QED BY <1>22, <2>2, <2>3, <2>4, <2>5, <2>7, FittingStep DEF MainPlaces, ThreadPlaces
  <1>23. CASE Elsewhere /\ Workload!ReadUnlock(a)
    <2>1. /\ held' = [held EXCEPT ![IF kind = "lock" THEN 0 ELSE j[a]] = N + 1]
          /\ \/ (kind = "lock" \/ j[a] = N) /\ Moves(a, "readUnlock", "haveRead") /\ j' = [j EXCEPT ![a] = 1]
             \/ /\ kind # "lock" /\ j[a] # N
                /\ Moves(a, "readUnlock", "readUnlock") /\ j' = [j EXCEPT ![a] = j[a] + 1]
          /\ UNCHANGED <<v, scratch, acc, effected>>
          /\ Elsewhere
      BY <1>23, ReadUnlockMove
    <2>2. Numbers
      BY <1>23, <2>1 DEF Numbers, WTypeOK, Elsewhere
    <2>3. Arrays
      BY <1>23, <2>1 DEF Arrays, WTypeOK, Elsewhere
    <2>4. Locals(a)
      BY <2>1 DEF Locals, WTypeOK
    <2>5. PICK to \in {"haveRead", "readUnlock"} : Moves(a, "readUnlock", to) /\ (to = "haveRead" => j'[a] = 1) /\ (to = "readUnlock" => kind # "lock")
      BY <1>23, <2>1 DEF Moves, WTypeOK
    <2>6. pc[a] = "readUnlock" /\ pc'[a] = to /\ kind' = kind
      BY <2>5, MoveFacts
    <2>7. Placed(a)'
      BY <1>23, <2>1, <2>5, <2>6 DEF Placed, WTypeOK
    <2> QED BY <1>23, <2>2, <2>3, <2>4, <2>5, <2>7, FittingStep DEF MainPlaces, ThreadPlaces
  <1>24. CASE Elsewhere /\ Workload!Collect(a)
    <2>1. /\ \/ /\ kind = "shard_wf"
                /\ \/ j[a] = N /\ Moves(a, "read", "haveRead") /\ j' = [j EXCEPT ![a] = 1]
                   \/ j[a] # N /\ Moves(a, "read", "read") /\ j' = [j EXCEPT ![a] = j[a] + 1]
             \/ /\ kind = "shard_lock"
                /\ \/ j[a] = N /\ Moves(a, "sum", "readUnlock") /\ j' = [j EXCEPT ![a] = 1]
                   \/ j[a] # N /\ Moves(a, "sum", "sum") /\ j' = [j EXCEPT ![a] = j[a] + 1]
          /\ acc' = [acc EXCEPT ![a] = acc[a] + scratch[j[a]]]
          /\ UNCHANGED <<v, scratch, held, effected>>
          /\ Elsewhere
      BY <1>24, CollectMove
    <2>2. Numbers
      BY <1>24, <2>1 DEF Numbers, WTypeOK, Elsewhere
    <2>3. Arrays
      BY <1>24, <2>1 DEF Arrays, WTypeOK, Elsewhere
    <2>4. Locals(a)
      BY <2>1 DEF Locals, WTypeOK
    <2>5. PICK to \in {"haveRead", "read", "readUnlock", "sum"} : Moves(a, pc[a], to)
               /\ \/ kind = "shard_wf" /\ ((to = "haveRead" /\ j'[a] = 1) \/ to = "read")
                  \/ kind = "shard_lock" /\ to \in {"readUnlock", "sum"}
      BY <1>24, <2>1 DEF Moves, WTypeOK
    <2>6. pc'[a] = to /\ kind' = kind
      BY <2>5, MoveFacts
    <2>7. Placed(a)'
      BY <1>24, <2>1, <2>5, <2>6 DEF Placed, WTypeOK
    <2> QED BY <1>24, <2>2, <2>3, <2>4, <2>5, <2>7, FittingStep DEF MainPlaces, ThreadPlaces
  <1> QED BY StepSplit, <1>5, <1>6, <1>7, <1>8, <1>9, <1>10, <1>11, <1>12, <1>13, <1>14, <1>15, <1>16,
             <1>17, <1>18, <1>19, <1>20, <1>21, <1>22, <1>23, <1>24

\* What each step does, value by value.
Goes(a, from, to) == pc[a] = from /\ pc'[a] = to

Frame(a) ==
    /\ kind' = kind /\ initially' = initially
    /\ \A b \in 0..N : b # a => pc'[b] = pc[b] /\ j'[b] = j[b] /\ acc'[b] = acc[b]
    /\ \A t \in 1..N : t # a => scratch'[t] = scratch[t] /\ incs'[t] = incs[t]

Untouched == UNCHANGED <<v, scratch, held, j, effected>>

Workloads(a) ==
    /\ Untouched
    /\ \/ /\ a = 0 /\ Goes(a, "startTimer", "arrive") /\ started'
          /\ UNCHANGED <<acc, barrier, incs, performed>>
       \/ /\ a = 0 /\ Goes(a, "join", "read") /\ \A t \in 1..N : pc[t] = "done"
          /\ UNCHANGED <<acc, barrier, started, incs, performed>>
       \/ /\ Goes(a, "arrive", "spin") /\ barrier' = barrier + 1
          /\ UNCHANGED <<acc, started, incs, performed>>
       \/ /\ Goes(a, "spin", IF a = 0 THEN "join" ELSE "read") /\ barrier >= 1 + N
          /\ UNCHANGED <<acc, barrier, started, incs, performed>>
       \/ /\ a # 0 /\ Goes(a, "haveRead", "inc") /\ acc'[a] = 0
          /\ UNCHANGED <<barrier, started, incs, performed>>
       \/ /\ a # 0 /\ pc'[a] \in {"add", "inc"} /\ Goes(a, "incremented", pc'[a]) /\ incs'[a] = incs[a] + 1
          /\ UNCHANGED <<acc, barrier, started, performed>>
       \/ /\ a # 0 /\ Goes(a, "add", "done") /\ performed' = performed + incs[a]
          /\ UNCHANGED <<acc, barrier, started, incs>>

IncSteps(a) ==
    /\ a # 0 /\ j' = j /\ UNCHANGED <<barrier, started, incs, performed>>
    /\ \/ /\ (kind = "naive" /\ Goes(a, "inc", "store")) \/ (kind = "lock" /\ Goes(a, "bump", "store"))
          /\ acc'[a] = v /\ UNCHANGED <<v, scratch, held, effected>>
       \/ /\ Goes(a, "store", IF kind = "lock" THEN "incUnlock" ELSE "incremented")
          /\ v' = acc[a] + 1 /\ acc'[a] = 0 /\ effected' = effected + 1 /\ UNCHANGED <<scratch, held>>
       \/ /\ kind = "faa" /\ Goes(a, "inc", "incremented") /\ v' = v + 1 /\ effected' = effected + 1
          /\ UNCHANGED <<scratch, held, acc>>
       \/ /\ Goes(a, "inc", "bump") /\ UNCHANGED <<v, scratch, acc, effected>>
          /\ \/ kind = "lock" /\ held[0] = N + 1 /\ held' = [held EXCEPT ![0] = a]
             \/ kind = "shard_lock" /\ held[a] = N + 1 /\ held' = [held EXCEPT ![a] = a]
       \/ /\ kind = "shard_lock" /\ Goes(a, "bump", "incUnlock")
          /\ scratch' = [scratch EXCEPT ![a] = scratch[a] + 1] /\ effected' = effected + 1
          /\ UNCHANGED <<v, held, acc>>
       \/ /\ Goes(a, "incUnlock", "incremented") /\ UNCHANGED <<v, scratch, acc, effected>>
          /\ held' = [held EXCEPT ![IF kind = "lock" THEN 0 ELSE a] = N + 1]
       \/ /\ kind \in {"approx", "shard_wf"}
          /\ Goes(a, "inc", IF kind = "approx" /\ scratch[a] + 1 >= c * N THEN "flush" ELSE "incremented")
          /\ scratch' = [scratch EXCEPT ![a] = scratch[a] + 1] /\ effected' = effected + 1
          /\ UNCHANGED <<v, held, acc>>
       \/ /\ Goes(a, "flush", "reset") /\ v' = v + c * N /\ UNCHANGED <<scratch, held, acc, effected>>
       \/ /\ Goes(a, "reset", "incremented") /\ scratch' = [scratch EXCEPT ![a] = 0]
          /\ UNCHANGED <<v, held, acc, effected>>

ReadSteps(a) ==
    /\ UNCHANGED <<v, scratch, effected, barrier, started, incs, performed>>
    /\ \/ /\ \/ kind \in {"naive", "faa", "approx"} /\ Goes(a, "read", "haveRead")
             \/ kind = "lock" /\ Goes(a, "sum", "readUnlock")
          /\ acc'[a] = v /\ UNCHANGED <<held, j>>
       \/ /\ acc' = acc
          /\ \/ /\ kind = "lock" /\ held[0] = N + 1 /\ held' = [held EXCEPT ![0] = a]
                /\ Goes(a, "read", "sum") /\ j'[a] = 1
             \/ /\ kind = "shard_lock" /\ held[j[a]] = N + 1 /\ held' = [held EXCEPT ![j[a]] = a]
                /\ \/ j[a] = N /\ Goes(a, "read", "sum") /\ j'[a] = 1
                   \/ j[a] # N /\ Goes(a, "read", "read") /\ j'[a] = j[a] + 1
       \/ /\ acc' = acc /\ held' = [held EXCEPT ![IF kind = "lock" THEN 0 ELSE j[a]] = N + 1]
          /\ \/ (kind = "lock" \/ j[a] = N) /\ Goes(a, "readUnlock", "haveRead") /\ j'[a] = 1
             \/ kind # "lock" /\ j[a] # N /\ Goes(a, "readUnlock", "readUnlock") /\ j'[a] = j[a] + 1
       \/ /\ held' = held /\ acc'[a] = acc[a] + scratch[j[a]]
          /\ \/ /\ kind = "shard_wf"
                /\ \/ j[a] = N /\ Goes(a, "read", "haveRead") /\ j'[a] = 1
                   \/ j[a] # N /\ Goes(a, "read", "read") /\ j'[a] = j[a] + 1
             \/ /\ kind = "shard_lock"
                /\ \/ j[a] = N /\ Goes(a, "sum", "readUnlock") /\ j'[a] = 1
                   \/ j[a] # N /\ Goes(a, "sum", "sum") /\ j'[a] = j[a] + 1

\* One operator for each of the three programs.
Acts(a) == Frame(a) /\ (Workloads(a) \/ IncSteps(a) \/ ReadSteps(a))

LEMMA MovesGo ==
    ASSUME WTypeOK, NEW a \in 0..N, NEW from, NEW to, Moves(a, from, to)
    PROVE  /\ Goes(a, from, to) /\ kind' = kind /\ initially' = initially
           /\ \A b \in 0..N : b # a => pc'[b] = pc[b]
  BY MoveFacts DEF Goes

LEMMA StepActs == ASSUME WTypeOK, NEW a \in 0..N, Workload!Step(a) PROVE Acts(a)
  <1>1. UNCHANGED initially /\ N \in Nat \ {0} /\ (a \in 1..N => a # 0)
    BY StepSplit, WorkloadNames
  <1>2. CASE a = 0 /\ Workload!StartTimer
    BY <1>1, <1>2, StartTimerMove, MovesGo DEF Acts, Frame, Untouched, Workloads, WTypeOK
  <1>3. CASE a = 0 /\ Workload!Join
    BY <1>1, <1>3, JoinMove, MovesGo DEF Acts, Frame, Untouched, Workloads, WTypeOK
  <1>4. CASE Workload!Arrive(a)
    BY <1>1, <1>4, ArriveMove, MovesGo DEF Acts, Frame, Untouched, Workloads, WTypeOK
  <1>5. CASE Workload!Pass(a)
    BY <1>1, <1>5, PassMove, MovesGo DEF Acts, Frame, Untouched, Workloads, WTypeOK
  <1>6. CASE a \in 1..N /\ Workload!PrintRead(a)
    BY <1>1, <1>6, PrintReadMove, MovesGo, ZenonT(60) DEF Acts, Frame, Untouched, Workloads, WTypeOK
  <1>7. CASE a \in 1..N /\ Workload!Repeat(a)
    <2>1. /\ Moves(a, "incremented", "add") \/ Moves(a, "incremented", "inc")
          /\ incs' = [incs EXCEPT ![a] = incs[a] + 1]
          /\ UNCHANGED <<v, scratch, held, j, acc, effected, barrier, started, performed>>
      BY <1>1, <1>7, RepeatMove
    <2>2. kind' = kind /\ initially' = initially /\ \A b \in 0..N : b # a => pc'[b] = pc[b]
      BY <2>1, MovesGo
    <2>3. Frame(a)
      BY <1>1, <1>7, <2>1, <2>2 DEF Frame, WTypeOK
    <2>4. \A from, to : Moves(a, from, to) => Goes(a, from, to)
      BY MovesGo
    <2>5. Workloads(a)
      BY <1>1, <1>7, <2>1, <2>4 DEF Workloads, Untouched, WTypeOK, Goes
    <2> QED BY <2>3, <2>5 DEF Acts
  <1>8. CASE a \in 1..N /\ Workload!AddPerformed(a)
    BY <1>1, <1>8, AddPerformedMove, MovesGo DEF Acts, Frame, Untouched, Workloads, WTypeOK
  <1>9. CASE a \in 1..N /\ Elsewhere /\ Workload!LoadV(a)
    BY <1>1, <1>9, LoadVMove, MovesGo, ZenonT(60)
       DEF Acts, Frame, Untouched, IncSteps, WTypeOK, Elsewhere
  <1>10. CASE a \in 1..N /\ Elsewhere /\ Workload!StoreV(a)
    BY <1>1, <1>10, StoreVMove, MovesGo, ZenonT(60)
       DEF Acts, Frame, Untouched, IncSteps, WTypeOK, Elsewhere
  <1>11. CASE a \in 1..N /\ Elsewhere /\ Workload!Faa(a)
    BY <1>1, <1>11, FaaMove, MovesGo DEF Acts, Frame, Untouched, IncSteps, WTypeOK, Elsewhere
  <1>12. CASE a \in 1..N /\ Elsewhere /\ Workload!IncLock(a)
    BY <1>1, <1>12, IncLockMove, MovesGo DEF Acts, Frame, Untouched, IncSteps, WTypeOK, Elsewhere
  <1>13. CASE a \in 1..N /\ Elsewhere /\ Workload!Bump(a)
    <2>1. /\ kind = "shard_lock" /\ Moves(a, "bump", "incUnlock")
          /\ scratch' = [scratch EXCEPT ![a] = scratch[a] + 1] /\ effected' = effected + 1
          /\ UNCHANGED <<v, held, j, acc>>
      BY <1>13, BumpMove
    <2>2. Goes(a, "bump", "incUnlock") /\ kind' = kind /\ initially' = initially
          /\ \A b \in 0..N : b # a => pc'[b] = pc[b]
      BY <2>1, MovesGo
    <2>3. Frame(a)
      BY <1>1, <1>13, <2>1, <2>2 DEF Frame, WTypeOK, Elsewhere
    <2>4. IncSteps(a)
      BY <1>1, <1>13, <2>1, <2>2 DEF IncSteps, Elsewhere
    <2> QED BY <2>3, <2>4 DEF Acts
  <1>14. CASE a \in 1..N /\ Elsewhere /\ Workload!IncUnlock(a)
    BY <1>1, <1>14, IncUnlockMove, MovesGo DEF Acts, Frame, Untouched, IncSteps, WTypeOK, Elsewhere
  <1>15. CASE a \in 1..N /\ Elsewhere /\ Workload!ShardAdd(a)
    <2>1. /\ kind \in {"approx", "shard_wf"}
          /\ Moves(a, "inc", IF kind = "approx" /\ scratch[a] + 1 >= c * N THEN "flush" ELSE "incremented")
          /\ scratch' = [scratch EXCEPT ![a] = scratch[a] + 1] /\ effected' = effected + 1
          /\ UNCHANGED <<v, held, j, acc>>
      BY <1>15, ShardAddMove
    <2>2. Goes(a, "inc", IF kind = "approx" /\ scratch[a] + 1 >= c * N THEN "flush" ELSE "incremented") /\ kind' = kind /\ initially' = initially
          /\ \A b \in 0..N : b # a => pc'[b] = pc[b]
      BY <2>1, MovesGo
    <2>3. Frame(a)
      BY <1>1, <1>15, <2>1, <2>2 DEF Frame, WTypeOK, Elsewhere
    <2>4. IncSteps(a)
      BY <1>1, <1>15, <2>1, <2>2 DEF IncSteps, Elsewhere
    <2> QED BY <2>3, <2>4 DEF Acts
  <1>16. CASE a \in 1..N /\ Elsewhere /\ Workload!Flush(a)
    BY <1>1, <1>16, FlushMove, MovesGo DEF Acts, Frame, Untouched, IncSteps, WTypeOK, Elsewhere
  <1>17. CASE a \in 1..N /\ Elsewhere /\ Workload!Reset(a)
    <2>1. /\ Moves(a, "reset", "incremented") /\ scratch' = [scratch EXCEPT ![a] = 0]
          /\ UNCHANGED <<v, held, j, acc, effected>>
      BY <1>17, ResetMove
    <2>2. Goes(a, "reset", "incremented") /\ kind' = kind /\ initially' = initially
          /\ \A b \in 0..N : b # a => pc'[b] = pc[b]
      BY <2>1, MovesGo
    <2>3. Frame(a)
      BY <1>1, <1>17, <2>1, <2>2 DEF Frame, WTypeOK, Elsewhere
    <2>4. IncSteps(a)
      BY <1>1, <1>17, <2>1, <2>2 DEF IncSteps, Elsewhere
    <2> QED BY <2>3, <2>4 DEF Acts
  <1>18. CASE Elsewhere /\ Workload!Load(a)
    BY <1>1, <1>18, LoadMove, MovesGo, ZenonT(60)
       DEF Acts, Frame, Untouched, ReadSteps, WTypeOK, Elsewhere
  <1>19. CASE Elsewhere /\ Workload!ReadLock(a)
    <2>1. /\ \/ /\ kind = "lock" /\ held[0] = N + 1 /\ held' = [held EXCEPT ![0] = a]
                /\ Moves(a, "read", "sum") /\ j' = [j EXCEPT ![a] = 1]
             \/ /\ kind = "shard_lock" /\ held[j[a]] = N + 1 /\ held' = [held EXCEPT ![j[a]] = a]
                /\ \/ j[a] = N /\ Moves(a, "read", "sum") /\ j' = [j EXCEPT ![a] = 1]
                   \/ j[a] # N /\ Moves(a, "read", "read") /\ j' = [j EXCEPT ![a] = j[a] + 1]
          /\ UNCHANGED <<v, scratch, acc, effected>>
      BY <1>19, ReadLockMove
    <2>2. kind' = kind /\ initially' = initially /\ \A b \in 0..N : b # a => pc'[b] = pc[b]
      BY <2>1, MovesGo
    <2>3. Frame(a)
      BY <1>1, <1>19, <2>1, <2>2 DEF Frame, WTypeOK, Elsewhere
    <2>4. \A from, to : Moves(a, from, to) => Goes(a, from, to)
      BY MovesGo
    <2>5. ReadSteps(a)
      BY <1>1, <1>19, <2>1, <2>4 DEF ReadSteps, Untouched, WTypeOK, Goes, Elsewhere
    <2> QED BY <2>3, <2>5 DEF Acts
  <1>20. CASE Elsewhere /\ Workload!ReadUnlock(a)
    <2>1. /\ held' = [held EXCEPT ![IF kind = "lock" THEN 0 ELSE j[a]] = N + 1]
          /\ \/ (kind = "lock" \/ j[a] = N) /\ Moves(a, "readUnlock", "haveRead") /\ j' = [j EXCEPT ![a] = 1]
             \/ /\ kind # "lock" /\ j[a] # N
                /\ Moves(a, "readUnlock", "readUnlock") /\ j' = [j EXCEPT ![a] = j[a] + 1]
          /\ UNCHANGED <<v, scratch, acc, effected>>
      BY <1>20, ReadUnlockMove
    <2>2. kind' = kind /\ initially' = initially /\ \A b \in 0..N : b # a => pc'[b] = pc[b]
      BY <2>1, MovesGo
    <2>3. Frame(a)
      BY <1>1, <1>20, <2>1, <2>2 DEF Frame, WTypeOK, Elsewhere
    <2>4. \A from, to : Moves(a, from, to) => Goes(a, from, to)
      BY MovesGo
    <2>5. ReadSteps(a)
      BY <1>1, <1>20, <2>1, <2>4 DEF ReadSteps, Untouched, WTypeOK, Goes, Elsewhere
    <2> QED BY <2>3, <2>5 DEF Acts
  <1>21. CASE Elsewhere /\ Workload!Collect(a)
    <2>1. /\ \/ /\ kind = "shard_wf"
                /\ \/ j[a] = N /\ Moves(a, "read", "haveRead") /\ j' = [j EXCEPT ![a] = 1]
                   \/ j[a] # N /\ Moves(a, "read", "read") /\ j' = [j EXCEPT ![a] = j[a] + 1]
             \/ /\ kind = "shard_lock"
                /\ \/ j[a] = N /\ Moves(a, "sum", "readUnlock") /\ j' = [j EXCEPT ![a] = 1]
                   \/ j[a] # N /\ Moves(a, "sum", "sum") /\ j' = [j EXCEPT ![a] = j[a] + 1]
          /\ acc' = [acc EXCEPT ![a] = acc[a] + scratch[j[a]]]
          /\ UNCHANGED <<v, scratch, held, effected>>
      BY <1>21, CollectMove
    <2>2. kind' = kind /\ initially' = initially /\ \A b \in 0..N : b # a => pc'[b] = pc[b]
      BY <2>1, MovesGo
    <2>3. Frame(a)
      BY <1>1, <1>21, <2>1, <2>2 DEF Frame, WTypeOK, Elsewhere
    <2>4. \A from, to : Moves(a, from, to) => Goes(a, from, to)
      BY MovesGo
    <2>5. ReadSteps(a)
      BY <1>1, <1>21, <2>1, <2>4 DEF ReadSteps, Untouched, WTypeOK, Goes, Elsewhere
    <2> QED BY <2>3, <2>5 DEF Acts
  <1> QED BY StepSplit, <1>2, <1>3, <1>4, <1>5, <1>6, <1>7, <1>8, <1>9, <1>10, <1>11, <1>12, <1>13,
             <1>14, <1>15, <1>16, <1>17, <1>18, <1>19, <1>20, <1>21

-----------------------------------------------------------------------------
\* The barrier.
LEMMA Arrival ==
    ASSUME NEW a \in 0..N, Acts(a)
    PROVE  \/ /\ pc[a] = "arrive" /\ pc'[a] = "spin" /\ barrier' = barrier + 1 /\ started' = started
           \/ /\ pc[a] = "spin" /\ pc'[a] \notin {"startTimer", "arrive", "spin"}
              /\ barrier' = barrier /\ barrier >= N + 1 /\ started' = started
           \/ a = 0 /\ pc[a] = "startTimer" /\ pc'[a] = "arrive" /\ barrier' = barrier /\ started'
           \/ /\ pc[a] \notin {"startTimer", "arrive", "spin"} /\ pc'[a] \notin {"startTimer", "arrive", "spin"}
              /\ barrier' = barrier /\ started' = started
  <1>1. CASE Workloads(a)
    BY <1>1, WorkloadNames DEF Workloads, Goes
  <1>2. CASE IncSteps(a)
    BY <1>2 DEF IncSteps, Goes
  <1>3. CASE ReadSteps(a)
    BY <1>3 DEF ReadSteps, Goes
  <1> QED BY <1>1, <1>2, <1>3 DEF Acts

LEMMA BarrierStep ==
    ASSUME WTypeOK, WBarrier, NEW a \in 0..N, Acts(a)
    PROVE  WBarrier'
  <1> DEFINE C == [t \in 1..N |-> Come(t)]
             D == [t \in 1..N |-> Come(t)']
  <1>1. N \in Nat \ {0} /\ barrier \in Nat /\ \A b \in 0..N : b # a => pc'[b] = pc[b]
    BY WorkloadNames DEF WTypeOK, Acts, Frame
  <1>2. C \in [1..N -> Int] /\ D \in [1..N -> Int]
    BY DEF Come
  <1>3. \A b \in 0..N : b # a => Come(b)' = Come(b)
    BY <1>1 DEF Come
  <1>4. /\ barrier = Come(0) + Sum(C, N)
        /\ (\E b \in 0..N : pc[b] \notin {"startTimer", "arrive", "spin"}) => barrier >= N + 1
        /\ pc[0] # "startTimer" => started
    BY DEF WBarrier
  <1>5. barrier' = Come(0)' + Sum(D, N)
    <2>1. CASE Come(a)' = Come(a)
      <3>1. barrier' = barrier
        BY <2>1, Arrival DEF Come
      <3>2. D = C /\ Come(0)' = Come(0)
        BY <1>1, <1>3, <2>1
      <3> QED BY <1>4, <3>1, <3>2
    <2>2. CASE Come(a)' # Come(a)
      <3>1. barrier' = barrier + 1 /\ Come(a) = 0 /\ Come(a)' = 1
        BY <2>2, Arrival DEF Come
      <3>2. CASE a = 0
        <4>1. D = C /\ Come(0) = 0 /\ Come(0)' = 1
          BY <1>3, <3>1, <3>2
        <4> HIDE DEF C, D
        <4>2. N \in 0..N
          BY <1>1
        <4>3. Sum(C, N) \in Int
          BY <1>2, <4>2, SumByParts
        <4> QED BY <1>4, <3>1, <4>1, <4>3
      <3>3. CASE a \in 1..N
        <4>1. \A i \in 1..N : i # a => D[i] = C[i]
          BY <1>3
        <4>2. D[a] = 1 /\ C[a] = 0 /\ Come(0)' = Come(0) /\ Come(0) \in Int
          BY <1>1, <1>3, <3>1, <3>3 DEF Come
        <4> HIDE DEF C, D
        <4>3. Sum(D, N) = Sum(C, N) + (D[a] - C[a]) /\ Sum(C, N) \in Int
          BY <1>2, <3>3, <4>1, TotalChange
        <4> QED BY <1>1, <1>4, <3>1, <4>2, <4>3
      <3> QED BY <1>1, <3>2, <3>3
    <2> QED BY <2>1, <2>2
  <1>6. (\E b \in 0..N : pc'[b] \notin {"startTimer", "arrive", "spin"}) => barrier' >= N + 1
    BY <1>1, <1>4, Arrival
  <1>7. pc'[0] # "startTimer" => started'
    BY <1>1, <1>4, Arrival
  <1> QED BY <1>5, <1>6, <1>7 DEF WBarrier

\* N + 1 have come only when everybody has.
LEMMA AllCame == ASSUME WTypeOK, WBarrier PROVE Workload!BarrierHolds
  <1> DEFINE C == [t \in 1..N |-> Come(t)]
  <1>1. N \in Nat \ {0} /\ C \in [1..N -> Int] /\ \A i \in 1..N : 0 <= C[i] /\ C[i] <= 1
    BY WorkloadNames DEF Come
  <1>2. barrier = Come(0) + Sum(C, N)
    BY DEF WBarrier
  <1> SUFFICES ASSUME barrier >= N + 1 PROVE \A b \in 0..N : Come(b) = 1
    BY WorkloadNames DEF WBarrier, Workload!BarrierHolds, Come
  <1> SUFFICES ASSUME NEW b \in 0..N, Come(b) = 0 PROVE FALSE
    BY DEF Come
  <1>3. CASE b = 0
    <2> HIDE DEF C
    <2>1. Sum(C, N) <= N * 1 /\ Sum(C, N) \in Int
      <3>1. 1 \in Nat
        OBVIOUS
      <3> QED BY <1>1, <3>1, TotalBounds
    <2> QED BY <1>1, <1>2, <1>3, <2>1
  <1>4. CASE b \in 1..N
    <2> DEFINE D == [t \in 1..N |-> IF t = b THEN 1 ELSE C[t]]
    <2>1. /\ D \in [1..N -> Int] /\ \A i \in 1..N : 0 <= D[i] /\ D[i] <= 1
          /\ \A i \in 1..N : i # b => D[i] = C[i]
          /\ D[b] = 1 /\ C[b] = 0 /\ Come(0) \in {0, 1}
      BY <1>1, <1>4 DEF Come
    <2> HIDE DEF C, D
    <2>2. Sum(D, N) = Sum(C, N) + (D[b] - C[b]) /\ Sum(C, N) \in Int
      BY <1>1, <1>4, <2>1, TotalChange
    <2>3. Sum(D, N) <= N * 1
      <3>1. 1 \in Nat
        OBVIOUS
      <3> QED BY <2>1, <3>1, TotalBounds
    <2> QED BY <1>1, <1>2, <2>1, <2>2, <2>3
  <1> QED BY <1>1, <1>3, <1>4

-----------------------------------------------------------------------------
\* The mutexes.  The one of CounterLocked is number 0, the shard of thread i has number i.
Holding == {"bump", "store", "incUnlock", "sum", "readUnlock"}

LEMMA MutexMoves ==
    ASSUME kind = "lock", NEW a \in 0..N, Acts(a)
    PROVE  \/ held' = held /\ (pc'[a] \in Holding => pc[a] \in Holding)
           \/ held[0] = N + 1 /\ held' = [held EXCEPT ![0] = a]
           \/ pc[a] \in Holding /\ pc'[a] \notin Holding
  <1>1. CASE Workloads(a)
    BY <1>1 DEF Workloads, Untouched, Goes, Holding
  <1>2. CASE IncSteps(a)
    BY <1>2 DEF IncSteps, Goes, Holding
  <1>3. CASE ReadSteps(a)
    BY <1>3 DEF ReadSteps, Goes, Holding
  <1> QED BY <1>1, <1>2, <1>3 DEF Acts

LEMMA MutexStep ==
    ASSUME WTypeOK, WLocks, kind = "lock", NEW a \in 0..N, Acts(a)
    PROVE  \A b \in 0..N : pc'[b] \in Holding => held'[0] = b
  <1>0. held \in [0..N -> 0..N + 1]
    BY DEF WTypeOK
  <1>1. N \in Nat \ {0} /\ 0 \in 0..N
    BY WorkloadNames
  <1>2. \A b \in 0..N : pc[b] \in Holding => held[0] = b
    BY DEF WLocks, Holding
  <1>3. \A b \in 0..N : b # a => pc'[b] = pc[b]
    BY DEF Acts, Frame
  <1> QED BY <1>0, <1>1, <1>2, <1>3, MutexMoves

LEMMA ShardMutexMoves ==
    ASSUME kind = "shard_lock", NEW a \in 0..N, Acts(a)
    PROVE  \/ held' = held /\ pc'[a] \notin {"bump", "incUnlock", "read", "sum", "readUnlock"}
           \/ held' = held /\ pc[a] = "bump" /\ pc'[a] = "incUnlock"
           \/ held' = held /\ pc[a] \in {"spin", "join"} /\ pc'[a] = "read" /\ j' = j
           \/ held' = held /\ pc[a] = "sum" /\ pc'[a] \in {"sum", "readUnlock"}
           \/ held[a] = N + 1 /\ held' = [held EXCEPT ![a] = a] /\ pc'[a] = "bump" /\ a # 0
           \/ held' = [held EXCEPT ![a] = N + 1] /\ pc[a] = "incUnlock" /\ pc'[a] = "incremented" /\ a # 0
           \/ /\ held[j[a]] = N + 1 /\ held' = [held EXCEPT ![j[a]] = a] /\ pc[a] = "read"
              /\ \/ j[a] = N /\ pc'[a] = "sum"
                 \/ pc'[a] = "read" /\ j'[a] = j[a] + 1
           \/ /\ held' = [held EXCEPT ![j[a]] = N + 1] /\ pc[a] = "readUnlock"
              /\ \/ j[a] = N /\ pc'[a] = "haveRead"
                 \/ pc'[a] = "readUnlock" /\ j'[a] = j[a] + 1
  <1>1. CASE Workloads(a)
    BY <1>1 DEF Workloads, Untouched, Goes
  <1>2. CASE IncSteps(a)
    BY <1>2 DEF IncSteps, Goes
  <1>3. CASE ReadSteps(a)
    BY <1>3 DEF ReadSteps, Goes
  <1> QED BY <1>1, <1>2, <1>3 DEF Acts

LEMMA ShardMutexesStep ==
    ASSUME WTypeOK, WTypeOK', WPlaces, WLocks, kind = "shard_lock", NEW a \in 0..N, Acts(a)
    PROVE  \A b \in 0..N, i \in 1..N : Has(b, i)' => held'[i] = b
  <1>1. N \in Nat \ {0} /\ held \in [0..N -> 0..N + 1] /\ j \in [0..N -> 1..N]
    BY WorkloadNames DEF WTypeOK
  <1>0. N \in Int /\ j'[a] \in Int
    <2>1. N \in Nat
      BY WorkloadNames
    <2>2. j'[a] \in 1..N
      BY DEF WTypeOK
    <2> QED BY <2>1, <2>2
  <1>2. \A b \in 0..N, i \in 1..N : Has(b, i) => held[i] = b
    BY DEF WLocks
  <1>3. \A b \in 0..N : b # a => pc'[b] = pc[b] /\ j'[b] = j[b]
    BY DEF Acts, Frame
  <1>4. pc[a] \in {"spin", "join"} => j[a] = 1
    BY DEF WPlaces, Placed
  <1>5. \A b \in 0..N, i \in 1..N : b # a => (Has(b, i)' <=> Has(b, i))
    BY <1>3 DEF Has
  <1>6. CASE held' = held /\ \A i \in 1..N : Has(a, i)' => Has(a, i)
    <2>1. ASSUME NEW b \in 0..N, NEW i \in 1..N, Has(b, i)' PROVE held'[i] = b
      <3>1. Has(b, i)
        BY <1>5, <1>6, <2>1
      <3> QED BY <1>2, <1>6, <3>1
    <2> QED BY <2>1
  <1>7. ASSUME NEW k \in 1..N, held[k] = N + 1, held' = [held EXCEPT ![k] = a],
               \A i \in 1..N : i # k => (Has(a, i)' => Has(a, i))
        PROVE  \A b \in 0..N, i \in 1..N : Has(b, i)' => held'[i] = b
    <2>1. held'[k] = a /\ \A i \in 1..N : i # k => held'[i] = held[i]
      BY <1>1, <1>7
    <2>2. ASSUME NEW b \in 0..N, NEW i \in 1..N, Has(b, i)' PROVE held'[i] = b
      <3>1. CASE i = k
        <4>1. b # a => Has(b, k)
          BY <1>5, <2>2, <3>1 DEF Has
        <4>2. b = a \/ held[k] = b
          BY <1>2, <4>1
        <4> QED BY <1>1, <1>2, <1>7, <2>1, <2>2, <3>1, <4>2
      <3>2. CASE i # k
        <4>1. Has(b, i)
          BY <1>5, <1>7, <2>2, <3>2 DEF Has
        <4> QED BY <1>2, <2>1, <3>2, <4>1
      <3> QED BY <3>1, <3>2
    <2> QED BY <2>2
  <1>8. ASSUME NEW k \in 1..N, Has(a, k), held' = [held EXCEPT ![k] = N + 1], ~Has(a, k)',
               \A i \in 1..N : i # k => (Has(a, i)' => Has(a, i))
        PROVE  \A b \in 0..N, i \in 1..N : Has(b, i)' => held'[i] = b
    <2>1. held'[k] = N + 1 /\ \A i \in 1..N : i # k => held'[i] = held[i]
      BY <1>1, <1>8
    <2>2. ASSUME NEW b \in 0..N, NEW i \in 1..N, Has(b, i)' PROVE held'[i] = b
      <3>1. CASE i = k
        <4>1. b # a => Has(b, k)
          BY <1>5, <2>2, <3>1 DEF Has
        <4>2. b = a \/ held[k] = b
          BY <1>2, <4>1
        <4> QED BY <1>1, <1>2, <1>8, <2>1, <2>2, <3>1, <4>2 DEF Has
      <3>2. CASE i # k
        <4>1. Has(b, i)
          BY <1>5, <1>8, <2>2, <3>2 DEF Has
        <4> QED BY <1>2, <2>1, <3>2, <4>1
      <3> QED BY <3>1, <3>2
    <2> QED BY <2>2
  <1>9. CASE /\ held' = held
             /\ \/ pc'[a] \notin {"bump", "incUnlock", "read", "sum", "readUnlock"}
                \/ pc[a] = "bump" /\ pc'[a] = "incUnlock"
                \/ pc[a] \in {"spin", "join"} /\ pc'[a] = "read" /\ j' = j
                \/ pc[a] = "sum" /\ pc'[a] \in {"sum", "readUnlock"}
    <2>1. \A i \in 1..N : Has(a, i)' => Has(a, i)
      BY <1>4, <1>9 DEF Has
    <2> QED BY <1>6, <1>9, <2>1
  <1>10. CASE a # 0 /\ held[a] = N + 1 /\ held' = [held EXCEPT ![a] = a] /\ pc'[a] = "bump"
    <2>1. a \in 1..N /\ \A i \in 1..N : i # a => ~Has(a, i)'
      BY <1>1, <1>10 DEF Has
    <2> QED BY <1>7, <1>10, <2>1
  <1>11. CASE a # 0 /\ held' = [held EXCEPT ![a] = N + 1] /\ pc[a] = "incUnlock" /\ pc'[a] = "incremented"
    <2>1. a \in 1..N /\ Has(a, a) /\ \A i \in 1..N : ~Has(a, i)'
      BY <1>1, <1>11 DEF Has
    <2> QED BY <1>8, <1>11, <2>1
  <1>12. CASE /\ held[j[a]] = N + 1 /\ held' = [held EXCEPT ![j[a]] = a] /\ pc[a] = "read"
              /\ \/ j[a] = N /\ pc'[a] = "sum"
                 \/ pc'[a] = "read" /\ j'[a] = j[a] + 1
    <2>1. PICK k \in 1..N : k = j[a]
      BY <1>1
    <2>2. ASSUME NEW i \in 1..N, i # k, Has(a, i)' PROVE Has(a, i)
      <3>1. i < k
        <4>1. (k = N /\ pc'[a] = "sum") \/ (pc'[a] = "read" /\ j'[a] = k + 1)
          BY <1>12, <2>1
        <4>2. pc'[a] = "read" => i < j'[a]
          BY <2>2 DEF Has
        <4> QED BY <1>0, <2>2, <4>1, <4>2
      <3> QED BY <1>12, <2>1, <3>1 DEF Has
    <2> QED BY <1>7, <1>12, <2>1, <2>2
  <1>13. CASE /\ held' = [held EXCEPT ![j[a]] = N + 1] /\ pc[a] = "readUnlock"
              /\ \/ j[a] = N /\ pc'[a] = "haveRead"
                 \/ pc'[a] = "readUnlock" /\ j'[a] = j[a] + 1
    <2>1. PICK k \in 1..N : k = j[a]
      BY <1>1
    <2>2. Has(a, k) /\ ~Has(a, k)' /\ \A i \in 1..N : i # k => (Has(a, i)' => Has(a, i))
      <3>1. Has(a, k)
        BY <1>13, <2>1 DEF Has
      <3>2. ASSUME NEW i \in 1..N, Has(a, i)' PROVE i > k
        <4>1. (k = N /\ pc'[a] = "haveRead") \/ (pc'[a] = "readUnlock" /\ j'[a] = k + 1)
          BY <1>13, <2>1
        <4>2. pc'[a] # "haveRead" /\ (pc'[a] = "readUnlock" => i >= j'[a])
          BY <3>2 DEF Has
        <4> QED BY <1>0, <4>1, <4>2
      <3>3. ~Has(a, k)'
        BY <3>2
      <3>4. ASSUME NEW i \in 1..N, Has(a, i)' PROVE Has(a, i)
        <4>1. i > k
          BY <3>2, <3>4
        <4> QED BY <1>13, <2>1, <4>1 DEF Has
      <3> QED BY <3>1, <3>3, <3>4
    <2> QED BY <1>8, <1>13, <2>1, <2>2
  <1> QED BY <1>9, <1>10, <1>11, <1>12, <1>13, ShardMutexMoves

LEMMA LocksStep == ASSUME WTypeOK, WTypeOK', WPlaces, WLocks, NEW a \in 0..N, Acts(a) PROVE WLocks'
  <1>1. kind' = kind
    BY DEF Acts, Frame
  <1>2. kind = "lock" => \A b \in 0..N : pc'[b] \in Holding => held'[0] = b
    BY MutexStep
  <1>3. kind = "shard_lock" => \A b \in 0..N, i \in 1..N : Has(b, i)' => held'[i] = b
    BY ShardMutexesStep
  <1> QED BY <1>1, <1>2, <1>3 DEF WLocks, Holding

-----------------------------------------------------------------------------
\* The counts.
Stays(a) ==
    /\ v' = v /\ scratch' = scratch /\ effected' = effected
    /\ pc[a] \notin {"store", "flush", "reset"} /\ pc'[a] \notin {"store", "flush", "reset"}
Loads(a) ==
    /\ (kind = "naive" /\ pc[a] = "inc") \/ (kind = "lock" /\ pc[a] = "bump")
    /\ pc'[a] = "store" /\ acc'[a] = v /\ v' = v /\ scratch' = scratch /\ effected' = effected
Stores(a) ==
    /\ pc[a] = "store" /\ pc'[a] \in {"incUnlock", "incremented"}
    /\ v' = acc[a] + 1 /\ scratch' = scratch /\ effected' = effected + 1
Fetches(a) ==
    /\ kind = "faa" /\ pc[a] = "inc" /\ pc'[a] = "incremented"
    /\ v' = v + 1 /\ scratch' = scratch /\ effected' = effected + 1
Shards(a) ==
    /\ kind \in {"shard_lock", "shard_wf", "approx"} /\ pc[a] \in {"inc", "bump"}
    /\ pc[a] = "bump" <=> kind = "shard_lock"
    /\ v' = v /\ scratch' = [scratch EXCEPT ![a] = scratch[a] + 1] /\ effected' = effected + 1
    /\ kind = "approx" => pc'[a] = IF scratch[a] + 1 >= c * N THEN "flush" ELSE "incremented"
    /\ kind # "approx" => pc'[a] \in {"incremented", "incUnlock"}
Flushes(a) ==
    pc[a] = "flush" /\ pc'[a] = "reset" /\ v' = v + c * N /\ scratch' = scratch /\ effected' = effected
Resets(a) ==
    /\ pc[a] = "reset" /\ pc'[a] = "incremented" /\ v' = v
    /\ scratch' = [scratch EXCEPT ![a] = 0] /\ effected' = effected

LEMMA CountMoves ==
    ASSUME NEW a \in 0..N, Acts(a)
    PROVE  \/ Stays(a)
           \/ a # 0 /\ (Loads(a) \/ Stores(a) \/ Fetches(a) \/ Shards(a) \/ Flushes(a) \/ Resets(a))
  <1>1. CASE Workloads(a)
    BY <1>1 DEF Workloads, Untouched, Goes, Stays
  <1>2. CASE IncSteps(a)
    BY <1>2 DEF IncSteps, Goes, Stays, Loads, Stores, Fetches, Shards, Flushes, Resets
  <1>3. CASE ReadSteps(a)
    BY <1>3 DEF ReadSteps, Goes, Stays
  <1> QED BY <1>1, <1>2, <1>3 DEF Acts

LEMMA NaiveCount ==
    ASSUME WTypeOK, WPlaces, WCount, kind = "naive", NEW a \in 0..N, Acts(a)
    PROVE  v' <= effected' /\ \A t \in 1..N : pc'[t] = "store" => acc'[t] <= effected'
  <1>1. v \in Nat /\ effected \in Nat /\ \A t \in 1..N : acc[t] \in Nat
    <2>1. \A t \in 1..N : t \in 0..N
      BY WorkloadNames
    <2>2. \A b \in 0..N : acc[b] \in Nat
      BY DEF WTypeOK
    <2> QED BY <2>1, <2>2 DEF WTypeOK
  <1>0. /\ \A b \in 0..N : b # a => pc'[b] = pc[b] /\ acc'[b] = acc[b]
        /\ a # 0 => a \in 1..N
    BY WorkloadNames DEF Acts, Frame
  <1>2. v <= effected /\ \A t \in 1..N : pc[t] = "store" => acc[t] <= effected
    BY DEF WCount
  <1>3. pc[a] \notin {"flush", "reset"}
    BY DEF WPlaces, Placed
  <1>4. CASE Stays(a)
    BY <1>0, <1>1, <1>2, <1>4 DEF Stays
  <1>5. CASE a # 0 /\ Loads(a)
    BY <1>0, <1>1, <1>2, <1>5 DEF Loads
  <1>6. CASE a # 0 /\ Stores(a)
    BY <1>0, <1>1, <1>2, <1>6 DEF Stores
  <1> QED BY <1>3, <1>4, <1>5, <1>6, CountMoves DEF Fetches, Shards, Flushes, Resets

LEMMA LockedCount ==
    ASSUME WTypeOK, WPlaces, WLocks, WCount, kind = "lock", NEW a \in 0..N, Acts(a)
    PROVE  v' = effected' /\ \A t \in 1..N : pc'[t] = "store" => acc'[t] = v'
  <1>1. v \in Nat /\ effected \in Nat
    BY DEF WTypeOK
  <1>0. /\ \A b \in 0..N : b # a => pc'[b] = pc[b] /\ acc'[b] = acc[b]
        /\ a # 0 => a \in 1..N
    BY WorkloadNames DEF Acts, Frame
  <1>2. v = effected /\ \A t \in 1..N : pc[t] = "store" => acc[t] = v
    BY DEF WCount
  <1>3. pc[a] \notin {"flush", "reset"}
    BY DEF WPlaces, Placed
  <1>4. CASE Stays(a)
    BY <1>0, <1>1, <1>2, <1>4 DEF Stays
  <1>5. CASE a # 0 /\ Loads(a)
    BY <1>0, <1>1, <1>2, <1>5 DEF Loads
  <1>6. CASE a # 0 /\ Stores(a)
    <2>1. \A t \in 1..N : t # a => pc[t] # "store"
      <3>1. \A t \in 1..N : pc[t] = "store" => held[0] = t
        BY DEF WLocks
      <3>2. held[0] = a
        BY <1>0, <1>6, <3>1 DEF Stores
      <3> QED BY <3>1, <3>2
    <2> QED BY <1>0, <1>1, <1>2, <1>6, <2>1 DEF Stores
  <1> QED BY <1>3, <1>4, <1>5, <1>6, CountMoves DEF Fetches, Shards, Flushes, Resets

LEMMA FetchedCount ==
    ASSUME WPlaces, WCount, kind = "faa", NEW a \in 0..N, Acts(a)
    PROVE  v' = effected'
  <1>1. pc[a] \notin {"store", "flush", "reset"} /\ v = effected
    BY DEF WPlaces, Placed, WCount
  <1> QED BY <1>1, CountMoves DEF Stays, Loads, Stores, Fetches, Shards, Flushes, Resets

LEMMA ShardedCount ==
    ASSUME WTypeOK, WTypeOK', WPlaces, WCount, kind \in {"shard_lock", "shard_wf"}, NEW a \in 0..N, Acts(a)
    PROVE  effected' = Sum(scratch, N)'
  <1>1. pc[a] \notin {"store", "flush", "reset"} /\ effected = Sum(scratch, N)
    BY DEF WPlaces, Placed, WCount
  <1>2. CASE Stays(a)
    <2>1. Sum(scratch, N)' = Sum(scratch, N)
      BY <1>2 DEF Stays, Sum
    <2> QED BY <1>1, <1>2, <2>1 DEF Stays
  <1>3. CASE a # 0 /\ Shards(a)
    <2>1. scratch \in [1..N -> Int] /\ scratch' \in [1..N -> Int] /\ a \in 1..N
      <3>1. scratch \in [1..N -> Nat] /\ scratch' \in [1..N -> Nat]
        BY DEF WTypeOK
      <3> QED BY <1>3, <3>1, WorkloadNames
    <2>2. scratch'[a] = scratch[a] + 1 /\ \A i \in 1..N : i # a => scratch'[i] = scratch[i]
      BY <1>3, <2>1 DEF Shards
    <2>3. PICK w \in [1..N -> Int], u \in [1..N -> Int] : w = scratch /\ u = scratch'
      BY <2>1
    <2>4. Sum(w, N) \in Int /\ Sum(u, N) = Sum(w, N) + (u[a] - w[a])
      BY <2>1, <2>2, <2>3, TotalChange
    <2>5. Sum(u, N) = Sum(w, N) + 1
      BY <2>1, <2>2, <2>3, <2>4
    <2>6. Sum(scratch, N)' = Sum(u, N) /\ Sum(scratch, N) = Sum(w, N)
      BY <2>3 DEF Sum
    <2> QED BY <1>1, <1>3, <2>5, <2>6 DEF Shards
  <1> QED BY <1>1, <1>2, <1>3, CountMoves DEF Loads, Stores, Fetches, Flushes, Resets

LEMMA FlushedCount ==
    ASSUME WTypeOK, WTypeOK', WPlaces, WCount, kind = "approx", NEW a \in 0..N, Acts(a)
    PROVE  effected' = v' + Sum([t \in 1..N |-> Pending(t)'], N)
  <1> DEFINE P == [t \in 1..N |-> Pending(t)]
             Q == [t \in 1..N |-> Pending(t)']
  <1>1. pc[a] # "store" /\ effected = v + Sum(P, N)
    BY DEF WPlaces, Placed, WCount
  <1>2. PICK W \in Nat : W = c * N /\ W > 0
    BY WorkloadNames
  <1>3. kind' = kind /\ v \in Nat /\ v' \in Nat /\ effected \in Nat /\ (a # 0 => a \in 1..N)
    BY WorkloadNames DEF WTypeOK, Acts, Frame
  <1>4. \A t \in 1..N : scratch[t] \in Nat /\ scratch'[t] \in Nat
    BY DEF WTypeOK
  <1>5. \A t \in 1..N : t # a => pc'[t] = pc[t] /\ scratch'[t] = scratch[t]
    BY DEF Acts, Frame
  <1>6. /\ \A t \in 1..N : Pending(t) = IF pc[t] = "flush" THEN W ELSE IF pc[t] = "reset" THEN 0
                                        ELSE IF scratch[t] >= W THEN W - 1 ELSE scratch[t]
        /\ \A t \in 1..N : Pending(t)' = IF pc'[t] = "flush" THEN W ELSE IF pc'[t] = "reset" THEN 0
                                         ELSE IF scratch'[t] >= W THEN W - 1 ELSE scratch'[t]
    BY <1>2, <1>3 DEF Pending, Workload!Counts
  <1>7. P \in [1..N -> Int] /\ Q \in [1..N -> Int]
    BY <1>2, <1>4, <1>6
  <1>8. \A t \in 1..N : t # a => Q[t] = P[t]
    BY <1>5, <1>6
  <1>9. CASE Stays(a)
    <2>1. Q = P
      <3>1. \A t \in 1..N : Q[t] = P[t]
        BY <1>5, <1>6, <1>8, <1>9 DEF Stays
      <3> QED BY <3>1
    <2> QED BY <1>1, <1>9, <2>1 DEF Stays
  <1>10. ASSUME a \in 1..N, NEW d \in Int, Q[a] = P[a] + d, effected' = effected + d + (v' - v)
         PROVE  effected' = v' + Sum(Q, N)
    <2> HIDE DEF P, Q
    <2>1. Sum(P, N) \in Int /\ Sum(Q, N) = Sum(P, N) + (Q[a] - P[a])
      BY <1>7, <1>8, <1>10, TotalChange
    <2>2. P[a] \in Int
      BY <1>7, <1>10
    <2> QED BY <1>1, <1>3, <1>10, <2>1, <2>2
  <1>11. CASE a # 0 /\ Shards(a)
    <2>1. Q[a] = P[a] + 1
      <3>1. a \in 1..N /\ scratch'[a] = scratch[a] + 1
        BY <1>3, <1>11 DEF Shards, WTypeOK
      <3>2. pc[a] \notin {"flush", "reset"} /\ pc'[a] = IF scratch[a] + 1 >= W THEN "flush" ELSE "incremented"
        BY <1>2, <1>11 DEF Shards
      <3> QED BY <1>2, <1>4, <1>6, <3>1, <3>2
    <2> QED BY <1>3, <1>10, <1>11, <2>1 DEF Shards
  <1>12. CASE a # 0 /\ Flushes(a)
    <2>1. Q[a] = P[a] + (0 - W) /\ v' = v + W /\ effected' = effected
      BY <1>2, <1>3, <1>6, <1>12 DEF Flushes
    <2> QED BY <1>2, <1>3, <1>10, <1>12, <2>1
  <1>13. CASE a # 0 /\ Resets(a)
    <2>1. Q[a] = P[a] + 0 /\ v' = v /\ effected' = effected
      <3>1. a \in 1..N /\ scratch'[a] = 0
        BY <1>3, <1>13 DEF Resets, WTypeOK
      <3> QED BY <1>2, <1>6, <1>13, <3>1 DEF Resets
    <2> QED BY <1>3, <1>10, <1>13, <2>1
  <1> QED BY <1>1, <1>9, <1>11, <1>12, <1>13, CountMoves DEF Loads, Stores, Fetches

LEMMA CountStep == ASSUME WTypeOK, WTypeOK', WPlaces, WLocks, WCount, NEW a \in 0..N, Acts(a) PROVE WCount'
  <1>1. kind' = kind
    BY DEF Acts, Frame
  <1>2. kind = "naive" => v' <= effected' /\ \A t \in 1..N : pc'[t] = "store" => acc'[t] <= effected'
    BY NaiveCount
  <1>3. kind = "lock" => v' = effected' /\ \A t \in 1..N : pc'[t] = "store" => acc'[t] = v'
    BY LockedCount
  <1>4. kind = "faa" => v' = effected'
    BY FetchedCount
  <1>5. kind \in {"shard_lock", "shard_wf"} => effected' = Sum(scratch, N)'
    BY ShardedCount
  <1>6. kind = "approx" => effected' = v' + Sum([t \in 1..N |-> Pending(t)'], N)
    BY FlushedCount
  <1> QED BY <1>1, <1>2, <1>3, <1>4, <1>5, <1>6 DEF WCount

-----------------------------------------------------------------------------
\* The reads.
LEMMA SeenGrows ==
    ASSUME Workload!Record, NEW b \in 0..N
    PROVE  /\ Workload!Reading(pc'[b]) => effected \in seen'[b] /\ effected' \in seen'[b]
           /\ Workload!Reading(pc'[b]) /\ Workload!Reading(pc[b]) => seen[b] \subseteq seen'[b]
           /\ seen'[b] \subseteq seen[b] \cup {effected, effected'}
           /\ ~Workload!Reading(pc[b]) => seen'[b] \subseteq {effected, effected'}
  BY WorkloadNames DEF Workload!Record

LEMMA Grows ==
    ASSUME WTypeOK, NEW a \in 0..N, Acts(a)
    PROVE  effected' = effected \/ effected' = effected + 1
  BY CountMoves DEF Stays, Loads, Stores, Fetches, Shards, Flushes, Resets

LEMMA PrefixGrows ==
    ASSUME WTypeOK, WTypeOK', WPlaces, kind \in {"shard_lock", "shard_wf"}, NEW a \in 0..N, Acts(a)
    PROVE  \/ scratch' = scratch /\ effected' = effected
           \/ /\ a \in 1..N /\ effected' = effected + 1 /\ (kind = "shard_lock" => pc[a] = "bump")
              /\ \A n \in 0..N : Sum(scratch', n) = Sum(scratch, n) + (IF a <= n THEN 1 ELSE 0)
  <1>1. pc[a] \notin {"store", "flush", "reset"}
    BY DEF WPlaces, Placed
  <1>2. CASE a # 0 /\ Shards(a)
    <2>1. a \in 1..N
      BY <1>2, WorkloadNames
    <2>2. scratch \in [1..N -> Nat] /\ scratch' \in [1..N -> Nat]
      BY DEF WTypeOK
    <2>3. scratch'[a] = scratch[a] + 1 /\ \A i \in 1..N : i # a => scratch'[i] = scratch[i]
      BY <1>2, <2>1, <2>2 DEF Shards
    <2>4. PICK w \in [1..N -> Int], u \in [1..N -> Int] : w = scratch /\ u = scratch'
      BY <2>2
    <2>5. \A n \in 0..N : Sum(u, n) = Sum(w, n) + (IF a <= n THEN u[a] - w[a] ELSE 0)
      <3>1. \A i \in 1..N : i # a => u[i] = w[i]
        BY <2>3, <2>4
      <3> QED BY <2>1, <3>1, SumChange
    <2>6. u[a] - w[a] = 1
      BY <2>1, <2>2, <2>3, <2>4
    <2>7. \A n \in 0..N : Sum(u, n) = Sum(w, n) + (IF a <= n THEN 1 ELSE 0)
      BY <2>5, <2>6
    <2> QED BY <1>2, <2>1, <2>4, <2>7 DEF Shards
  <1> QED BY <1>1, <1>2, CountMoves DEF Stays, Loads, Stores, Fetches, Flushes, Resets

\* The sums of the shards are numbers and grow from shard to shard.
LEMMA Prefixes ==
    ASSUME WTypeOK
    PROVE  /\ Sum(scratch, 0) = 0
           /\ \A n \in 0..N : Sum(scratch, n) \in Int
           /\ \A n \in 1..N : Sum(scratch, n) = Sum(scratch, n - 1) + scratch[n]
  <1>1. PICK w \in [1..N -> Int] : w = scratch
    BY DEF WTypeOK
  <1> QED BY <1>1, SumByParts

LEMMA Unflushed ==
    ASSUME WTypeOK, WCount, kind = "approx"
    PROVE  v <= effected /\ effected <= v + Workload!Slack
  <1> DEFINE P == [t \in 1..N |-> Pending(t)]
  <1>1. PICK W \in Nat : W = c * N /\ W > 0
    BY WorkloadNames
  <1>2. \A t \in 1..N : scratch[t] \in Nat
    BY DEF WTypeOK
  <1>3. P \in [1..N -> Int] /\ \A t \in 1..N : 0 <= P[t] /\ P[t] <= W
    BY <1>1, <1>2 DEF Pending, Workload!Counts
  <1>4. effected = v + Sum(P, N) /\ v \in Nat
    BY DEF WCount, WTypeOK
  <1> HIDE DEF P
  <1>5. Sum(P, N) \in Int /\ 0 <= Sum(P, N) /\ Sum(P, N) <= N * W
    BY <1>1, <1>3, TotalBounds
  <1>6. Workload!Slack = N * W /\ N * W \in Int
    <2>1. N * c * N = N * (c * N)
      BY WorkloadNames
    <2>2. Workload!Slack = N * c * N
      BY DEF Workload!Slack
    <2>3. N * W \in Int
      BY WorkloadNames
    <2> QED BY <1>1, <2>1, <2>2, <2>3
  <1> QED BY <1>4, <1>5, <1>6

\* What a reader's own step does.
Enters(a) == pc[a] \in {"spin", "join"} /\ pc'[a] = "read" /\ acc' = acc /\ j' = j
LoadsV(a) ==
    /\ kind \in {"naive", "faa", "approx", "lock"} /\ pc[a] \in {"read", "sum"}
    /\ pc'[a] \in {"haveRead", "readUnlock"} /\ acc'[a] = v
LocksOne(a) ==
    /\ kind \in {"lock", "shard_lock"} /\ pc[a] = "read" /\ pc'[a] \in {"read", "sum"} /\ acc' = acc
    /\ pc'[a] = "sum" => j'[a] = 1
UnlocksOne(a) == pc[a] = "readUnlock" /\ pc'[a] \in {"readUnlock", "haveRead"} /\ acc' = acc
Collects(a) ==
    /\ acc'[a] = acc[a] + scratch[j[a]]
    /\ \/ kind = "shard_wf" /\ pc[a] = "read"
       \/ kind = "shard_lock" /\ pc[a] = "sum"
    /\ \/ /\ j[a] = N /\ pc'[a] \in {"haveRead", "readUnlock"}
       \/ /\ j[a] # N /\ pc'[a] = pc[a] /\ j'[a] = j[a] + 1

LEMMA ReadMoves ==
    ASSUME NEW a \in 0..N, Acts(a)
    PROVE  \/ ~Workload!Reading(pc'[a])
           \/ /\ UNCHANGED <<v, scratch, effected>>
              /\ Enters(a) \/ LoadsV(a) \/ LocksOne(a) \/ UnlocksOne(a) \/ Collects(a)
  <1>1. CASE Workloads(a)
    BY <1>1 DEF Workloads, Untouched, Goes, Enters, Workload!Reading
  <1>2. CASE IncSteps(a)
    BY <1>2 DEF IncSteps, Goes, Workload!Reading
  <1>3. CASE ReadSteps(a)
    BY <1>3 DEF ReadSteps, Goes, LoadsV, LocksOne, UnlocksOne, Collects, Workload!Reading
  <1> QED BY <1>1, <1>2, <1>3 DEF Acts

\* What a reader has seen and summed stays right when another actor moves.
LEMMA OthersRead ==
    ASSUME WTypeOK, WTypeOK', WPlaces, WLocks, WCount, WReads, Workload!Record, NEW a \in 0..N, Acts(a),
           NEW b \in 0..N, b # a
    PROVE  ReadRight(b)'
  <1>1. kind' = kind /\ pc'[b] = pc[b] /\ j'[b] = j[b] /\ acc'[b] = acc[b]
    BY DEF Acts, Frame
  <1>2. /\ Workload!Reading(pc[b]) => effected' \in seen'[b] /\ seen[b] \subseteq seen'[b]
        /\ effected \in Nat /\ acc[b] \in Nat /\ N \in Nat /\ j[b] \in 1..N
    BY <1>1, SeenGrows, WorkloadNames DEF WTypeOK
  <1>3. effected' = effected \/ effected' = effected + 1
    BY Grows
  <1>4. ReadRight(b)
    BY DEF WReads
  <1>5. Workload!Reading(pc[b])' <=> Workload!Reading(pc[b])
    BY <1>1 DEF Workload!Reading
  <1>6. kind # "naive" /\ pc[b] \in {"readUnlock", "haveRead"} =>
            \E n \in seen'[b] : acc[b] <= n /\ n <= acc[b] + Workload!Slack
    BY <1>2, <1>4 DEF ReadRight, Workload!Reading
  <1>7. kind = "naive" /\ pc[b] = "haveRead" => acc[b] <= effected'
    BY <1>2, <1>3, <1>4 DEF ReadRight
  <1>8. kind = "shard_lock" /\ pc[b] = "sum" => acc[b] = Sum(scratch', j[b] - 1)
    <2> SUFFICES ASSUME kind = "shard_lock", pc[b] = "sum" PROVE acc[b] = Sum(scratch', j[b] - 1)
      OBVIOUS
    <2>1. acc[b] = Sum(scratch, j[b] - 1)
      BY <1>4 DEF ReadRight
    <2>2. a \in 1..N => pc[a] # "bump"
      BY DEF WLocks, Has
    <2>3. scratch' = scratch
      BY <2>2, PrefixGrows
    <2> QED BY <2>1, <2>3
  <1>9. kind = "shard_wf" /\ pc[b] = "read" =>
            \E lo \in Nat : /\ lo \in seen'[b] /\ lo .. effected' \subseteq seen'[b]
                            /\ lo + Sum(scratch', j[b] - 1) <= acc[b] + effected'
                            /\ acc[b] <= Sum(scratch', j[b] - 1)
    <2> SUFFICES ASSUME kind = "shard_wf", pc[b] = "read"
                 PROVE  \E lo \in Nat : /\ lo \in seen'[b] /\ lo .. effected' \subseteq seen'[b]
                                        /\ lo + Sum(scratch', j[b] - 1) <= acc[b] + effected'
                                        /\ acc[b] <= Sum(scratch', j[b] - 1)
      OBVIOUS
    <2>1. PICK lo \in Nat : Collecting(b, lo)
      BY <1>4 DEF ReadRight
    <2>2. lo \in seen'[b] /\ lo .. effected' \subseteq seen'[b]
      BY <1>2, <1>3, <2>1 DEF Collecting, Workload!Reading
    <2>3. PICK n \in 0..N : n = j[b] - 1
      BY <1>2
    <2>4. Sum(scratch, n) \in Int /\ lo + Sum(scratch, n) <= acc[b] + effected /\ acc[b] <= Sum(scratch, n)
      BY <2>1, <2>3, Prefixes DEF Collecting
    <2>5. \/ Sum(scratch', n) = Sum(scratch, n) /\ effected' = effected
          \/ /\ effected' = effected + 1
             /\ Sum(scratch', n) = Sum(scratch, n) \/ Sum(scratch', n) = Sum(scratch, n) + 1
      <3>1. CASE scratch' = scratch /\ effected' = effected
        BY <3>1
      <3>2. CASE /\ a \in 1..N /\ effected' = effected + 1
                 /\ \A i \in 0..N : Sum(scratch', i) = Sum(scratch, i) + (IF a <= i THEN 1 ELSE 0)
        BY <2>4, <3>2
      <3> QED BY <3>1, <3>2, PrefixGrows
    <2>6. lo + Sum(scratch', n) <= acc[b] + effected' /\ acc[b] <= Sum(scratch', n)
      BY <1>2, <2>4, <2>5
    <2> QED BY <2>2, <2>3, <2>6
  <1>10. Workload!Slack' = Workload!Slack
    BY <1>1 DEF Workload!Slack
  <1> QED BY <1>1, <1>2, <1>5, <1>6, <1>7, <1>8, <1>9, <1>10 DEF ReadRight, Collecting

\* A collect without locks that has summed all the shards.
LEMMA Collected ==
    ASSUME WTypeOK, WCount, kind = "shard_wf", NEW a \in 0..N, NEW lo \in Nat, Collecting(a, lo),
           j[a] = N, Workload!Record, Workload!Reading(pc[a]), Workload!Reading(pc'[a])
    PROVE  acc[a] + scratch[N] \in seen'[a]
  <1>1. /\ effected \in Nat /\ acc[a] \in Nat /\ N \in 1..N /\ scratch[N] \in Nat
        /\ Sum(scratch, N) \in Int /\ Sum(scratch, N - 1) \in Int
    <2>1. effected \in Nat /\ acc[a] \in Nat
      BY DEF WTypeOK
    <2>2. N \in 1..N /\ N \in 0..N /\ N - 1 \in 0..N
      BY WorkloadNames
    <2>3. scratch[N] \in Nat
      BY <2>2 DEF WTypeOK
    <2> QED BY <2>1, <2>2, <2>3, Prefixes
  <1>2. effected = Sum(scratch, N - 1) + scratch[N]
    BY <1>1, Prefixes DEF WCount
  <1>3. lo + Sum(scratch, N - 1) <= acc[a] + effected /\ acc[a] <= Sum(scratch, N - 1)
    BY DEF Collecting
  <1>4. acc[a] + scratch[N] \in lo .. effected
    BY <1>1, <1>2, <1>3
  <1> QED BY <1>4, SeenGrows DEF Collecting

LEMMA OwnWitness ==
    ASSUME WTypeOK, WTypeOK', WPlaces, WCount, WReads, Workload!Record, NEW a \in 0..N, Acts(a),
           kind # "naive", pc'[a] \in {"readUnlock", "haveRead"}
    PROVE  \E n \in seen'[a] : acc'[a] <= n /\ n <= acc'[a] + Workload!Slack
  <1>1. /\ Workload!Reading(pc'[a])
        /\ effected \in seen'[a] /\ (Workload!Reading(pc[a]) => seen[a] \subseteq seen'[a])
    BY SeenGrows DEF Workload!Reading
  <1>2. effected \in Nat /\ v \in Nat /\ acc'[a] \in Nat
    BY DEF WTypeOK
  <1>3. Workload!Slack \in Nat /\ (kind # "approx" => Workload!Slack = 0)
    <2>1. N * c \in Nat
      BY WorkloadNames
    <2>2. N * c * N \in Nat
      BY <2>1, WorkloadNames
    <2> QED BY <2>2 DEF Workload!Slack
  <1>4. CASE LoadsV(a)
    <2>1. v <= effected /\ effected <= v + Workload!Slack
      <3>1. CASE kind = "approx"
        BY <3>1, Unflushed
      <3>2. CASE kind \in {"faa", "lock"}
        BY <1>2, <1>3, <3>2 DEF WCount
      <3> QED BY <1>4, <3>1, <3>2 DEF LoadsV
    <2> QED BY <1>1, <1>4, <2>1 DEF LoadsV
  <1>5. CASE UnlocksOne(a)
    <2>1. ReadRight(a) /\ pc[a] = "readUnlock" /\ acc' = acc
      BY <1>5 DEF WReads, UnlocksOne
    <2>2. \E n \in seen[a] : acc[a] <= n /\ n <= acc[a] + Workload!Slack
      BY <2>1 DEF ReadRight
    <2> QED BY <1>1, <2>1, <2>2 DEF Workload!Reading
  <1>6. CASE Collects(a)
    <2>1. j[a] = N /\ acc'[a] = acc[a] + scratch[N]
      BY <1>6 DEF Collects
    <2>2. acc'[a] \in seen'[a]
      <3>1. CASE kind = "shard_wf" /\ pc[a] = "read"
        <4>1. ReadRight(a)
          BY DEF WReads
        <4>2. PICK lo \in Nat : Collecting(a, lo)
          BY <3>1, <4>1 DEF ReadRight
        <4>3. Workload!Reading(pc[a])
          BY <3>1 DEF Workload!Reading
        <4> QED BY <1>1, <2>1, <3>1, <4>2, <4>3, Collected
      <3>2. CASE kind = "shard_lock" /\ pc[a] = "sum"
        <4>1. ReadRight(a)
          BY DEF WReads
        <4>2. acc[a] = Sum(scratch, N - 1) /\ effected = Sum(scratch, N)
          BY <2>1, <3>2, <4>1 DEF ReadRight, WCount
        <4>3. Sum(scratch, N) = Sum(scratch, N - 1) + scratch[N]
          BY Prefixes, WorkloadNames
        <4> QED BY <1>1, <2>1, <4>2, <4>3
      <3> QED BY <1>6, <3>1, <3>2 DEF Collects
    <2> QED BY <1>2, <1>3, <2>2
  <1> QED BY <1>1, <1>4, <1>5, <1>6, ReadMoves DEF Enters, LocksOne

LEMMA OwnRead ==
    ASSUME WTypeOK, WTypeOK', WPlaces, WCount, WReads, Workload!Record, NEW a \in 0..N, Acts(a)
    PROVE  ReadRight(a)'
  <1>1. kind' = kind /\ ReadRight(a) /\ N \in Nat /\ j[a] \in 1..N /\ effected \in Nat /\ acc[a] \in Nat
    BY WorkloadNames DEF Acts, Frame, WReads, WTypeOK
  <1>2. Workload!Reading(pc'[a]) => effected' \in seen'[a]
    BY SeenGrows
  <1>3. Workload!Reading(pc[a])' <=> Workload!Reading(pc'[a])
    BY DEF Workload!Reading
  <1>4. Workload!Slack' = Workload!Slack
    BY <1>1 DEF Workload!Slack
  <1>5. kind # "naive" /\ pc'[a] \in {"readUnlock", "haveRead"} =>
            \E n \in seen'[a] : acc'[a] <= n /\ n <= acc'[a] + Workload!Slack
    BY OwnWitness
  <1>6. kind = "naive" /\ pc'[a] = "haveRead" => acc'[a] <= effected'
    <2> SUFFICES ASSUME kind = "naive", pc'[a] = "haveRead" PROVE acc'[a] <= effected'
      OBVIOUS
    <2>1. acc'[a] = v /\ effected' = effected
      BY ReadMoves DEF Enters, LoadsV, LocksOne, UnlocksOne, Collects, Workload!Reading, WPlaces, Placed
    <2> QED BY <2>1 DEF WCount
  <1>7. kind = "shard_lock" /\ pc'[a] = "sum" => acc'[a] = Sum(scratch', j'[a] - 1)
    <2> SUFFICES ASSUME kind = "shard_lock", pc'[a] = "sum" PROVE acc'[a] = Sum(scratch', j'[a] - 1)
      OBVIOUS
    <2>1. Workload!Reading(pc'[a])
      BY DEF Workload!Reading
    <2>2. CASE LocksOne(a) /\ scratch' = scratch
      <3>1. acc'[a] = 0 /\ j'[a] = 1
        BY <2>2 DEF LocksOne, WPlaces, Placed
      <3> QED BY <2>2, <3>1, Prefixes
    <2>3. CASE Collects(a) /\ scratch' = scratch
      <3>1. acc[a] = Sum(scratch, j[a] - 1) /\ acc'[a] = acc[a] + scratch[j[a]] /\ j'[a] = j[a] + 1
        BY <1>1, <2>3 DEF Collects, ReadRight
      <3>2. acc'[a] = Sum(scratch, j[a]) /\ j'[a] - 1 = j[a]
        BY <1>1, <3>1, Prefixes
      <3> QED BY <2>3, <3>2
    <2> QED BY <2>1, <2>2, <2>3, ReadMoves DEF Enters, LoadsV, UnlocksOne
  <1>8. kind = "shard_wf" /\ pc'[a] = "read" =>
            \E lo \in Nat : /\ lo \in seen'[a] /\ lo .. effected' \subseteq seen'[a]
                            /\ lo + Sum(scratch', j'[a] - 1) <= acc'[a] + effected'
                            /\ acc'[a] <= Sum(scratch', j'[a] - 1)
    <2> SUFFICES ASSUME kind = "shard_wf", pc'[a] = "read"
                 PROVE  \E lo \in Nat : /\ lo \in seen'[a] /\ lo .. effected' \subseteq seen'[a]
                                        /\ lo + Sum(scratch', j'[a] - 1) <= acc'[a] + effected'
                                        /\ acc'[a] <= Sum(scratch', j'[a] - 1)
      OBVIOUS
    <2>1. Workload!Reading(pc'[a]) /\ (Workload!Reading(pc[a]) => seen[a] \subseteq seen'[a])
      BY SeenGrows DEF Workload!Reading
    <2>2. CASE Enters(a) /\ scratch' = scratch /\ effected' = effected
      <3>1. acc'[a] = 0 /\ j'[a] - 1 = 0
        BY <2>2 DEF Enters, WPlaces, Placed
      <3>2. effected \in seen'[a] /\ effected .. effected = {effected}
        BY <1>1, <1>2, <2>1, <2>2
      <3>3. Sum(scratch', 0) = 0
        BY <2>2, Prefixes
      <3> QED BY <1>1, <2>2, <3>1, <3>2, <3>3
    <2>3. CASE Collects(a) /\ scratch' = scratch /\ effected' = effected
      <3>1. pc[a] = "read" /\ acc'[a] = acc[a] + scratch[j[a]] /\ j'[a] = j[a] + 1
        BY <2>3 DEF Collects
      <3>2. PICK lo \in Nat : Collecting(a, lo)
        BY <1>1, <3>1 DEF ReadRight
      <3>3. lo \in seen'[a] /\ lo .. effected' \subseteq seen'[a]
        BY <2>1, <2>3, <3>1, <3>2 DEF Collecting, Workload!Reading
      <3>4. /\ Sum(scratch, j[a]) = Sum(scratch, j[a] - 1) + scratch[j[a]] /\ Sum(scratch, j[a] - 1) \in Int
            /\ scratch[j[a]] \in Nat /\ j'[a] - 1 = j[a]
        <4>1. j[a] \in 1..N /\ j[a] - 1 \in 0..N /\ j'[a] - 1 = j[a]
          BY <1>1, <3>1
        <4>2. scratch[j[a]] \in Nat
          BY <4>1 DEF WTypeOK
        <4> QED BY <4>1, <4>2, Prefixes
      <3>5. lo + Sum(scratch, j[a] - 1) <= acc[a] + effected /\ acc[a] <= Sum(scratch, j[a] - 1)
        BY <3>2 DEF Collecting
      <3>6. lo + Sum(scratch, j[a]) <= acc'[a] + effected /\ acc'[a] <= Sum(scratch, j[a])
        BY <1>1, <3>1, <3>4, <3>5
      <3> QED BY <2>3, <3>3, <3>4, <3>6
    <2> QED BY <2>1, <2>2, <2>3, ReadMoves DEF LoadsV, LocksOne, UnlocksOne
  <1> QED BY <1>1, <1>2, <1>3, <1>4, <1>5, <1>6, <1>7, <1>8 DEF ReadRight, Collecting

LEMMA ReadsStep ==
    ASSUME WTypeOK, WTypeOK', WPlaces, WLocks, WCount, WReads, Workload!Record, NEW a \in 0..N, Acts(a)
    PROVE  WReads'
  BY OthersRead, OwnRead DEF WReads

-----------------------------------------------------------------------------
\* The increments performed.
Unfinished == {"incUnlock", "flush", "reset", "incremented"}
MainReads == {"read", "sum", "readUnlock", "haveRead"}

LEMMA PerformMoves ==
    ASSUME NEW a \in 0..N, Acts(a)
    PROVE  /\ pc[a] # "done" /\ (pc'[a] = "done" => pc[a] = "add")
           /\ a = 0 => effected' = effected /\ performed' = performed /\ incs' = incs
           /\ a = 0 /\ pc'[a] \in MainReads =>
                  pc[a] \in MainReads \/ (pc[a] = "join" /\ \A t \in 1..N : pc[t] = "done")
           /\ \/ /\ effected' = effected /\ performed' = performed /\ incs'[a] = incs[a]
                 /\ pc[a] # "add" /\ (pc'[a] \in Unfinished <=> pc[a] \in Unfinished)
              \/ /\ effected' = effected + 1 /\ performed' = performed /\ incs'[a] = incs[a]
                 /\ pc[a] \notin Unfinished \cup {"add"} /\ pc'[a] \in Unfinished
              \/ /\ effected' = effected /\ performed' = performed /\ incs'[a] = incs[a] + 1
                 /\ pc[a] = "incremented" /\ pc'[a] \in {"add", "inc"}
              \/ /\ effected' = effected /\ performed' = performed + incs[a] /\ incs'[a] = incs[a]
                 /\ pc[a] = "add" /\ pc'[a] = "done"
  <1>1. CASE Workloads(a)
    BY <1>1 DEF Workloads, Untouched, Goes, Unfinished, MainReads
  <1>2. CASE IncSteps(a)
    BY <1>2 DEF IncSteps, Goes, Unfinished, MainReads
  <1>3. CASE ReadSteps(a)
    BY <1>3 DEF ReadSteps, Goes, Unfinished, MainReads
  <1> QED BY <1>1, <1>2, <1>3 DEF Acts

LEMMA PerformedStep ==
    ASSUME WTypeOK, WTypeOK', WPerformed, Workload!Record, NEW a \in 0..N, Acts(a)
    PROVE  WPerformed'
  <1> DEFINE C == [t \in 1..N |-> Own(t)]
             D == [t \in 1..N |-> Own(t)']
  <1>1. initially' = initially /\ \A t \in 1..N : t # a => pc'[t] = pc[t] /\ incs'[t] = incs[t]
    BY WorkloadNames DEF Acts, Frame
  <1>2. /\ effected \in Nat /\ effected' \in Nat /\ performed \in Nat /\ performed' \in Nat /\ initially \in Nat
        /\ \A t \in 1..N : incs[t] \in Nat /\ incs'[t] \in Nat
    BY DEF WTypeOK
  <1>3. C \in [1..N -> Int] /\ D \in [1..N -> Int] /\ \A t \in 1..N : t # a => D[t] = C[t]
    BY <1>1, <1>2 DEF Own
  <1>4. effected = initially + performed + Sum(C, N)
    BY DEF WPerformed
  <1>5. effected' = initially + performed' + Sum(D, N)
    <2>1. CASE a = 0
      <3>1. effected' = effected /\ performed' = performed
        BY <2>1, PerformMoves
      <3>2. \A t \in 1..N : D[t] = C[t]
        BY <1>3, <2>1
      <3>3. D = C
        BY <3>2
      <3> QED BY <1>4, <3>1, <3>3
    <2>2. CASE a \in 1..N
      <3>1. D[a] - C[a] = (effected' - effected) - (performed' - performed)
        <4>1. /\ C[a] = (IF pc[a] = "done" THEN 0 ELSE incs[a]) + (IF pc[a] \in Unfinished THEN 1 ELSE 0)
              /\ D[a] = (IF pc'[a] = "done" THEN 0 ELSE incs'[a]) + (IF pc'[a] \in Unfinished THEN 1 ELSE 0)
          BY <2>2 DEF Own, Unfinished
        <4>2. pc[a] # "done" /\ (pc'[a] = "done" => pc[a] = "add")
          BY PerformMoves
        <4>3. "add" \notin Unfinished /\ "inc" \notin Unfinished /\ "done" \notin Unfinished
              /\ "incremented" \in Unfinished
          BY DEF Unfinished
        <4> HIDE DEF C, D
        <4>4. incs[a] \in Nat /\ incs'[a] \in Nat
          BY <1>2, <2>2
        <4>5. CASE /\ effected' = effected /\ performed' = performed /\ incs'[a] = incs[a]
                   /\ pc[a] # "add" /\ (pc'[a] \in Unfinished <=> pc[a] \in Unfinished)
          <5>1. D[a] = C[a]
            BY <4>1, <4>2, <4>5
          <5>2. C[a] \in Int
            BY <1>3, <2>2
          <5> QED BY <1>2, <4>5, <5>1, <5>2
        <4>6. CASE /\ effected' = effected + 1 /\ performed' = performed /\ incs'[a] = incs[a]
                   /\ pc[a] \notin Unfinished \cup {"add"} /\ pc'[a] \in Unfinished
          <5>1. C[a] = incs[a] + 0 /\ D[a] = incs[a] + 1
            BY <4>1, <4>2, <4>3, <4>6
          <5> QED BY <1>2, <4>4, <4>6, <5>1
        <4>7. CASE /\ effected' = effected /\ performed' = performed /\ incs'[a] = incs[a] + 1
                   /\ pc[a] = "incremented" /\ pc'[a] \in {"add", "inc"}
          <5>1. C[a] = incs[a] + 1 /\ D[a] = (incs[a] + 1) + 0
            BY <4>1, <4>2, <4>3, <4>7
          <5> QED BY <1>2, <4>4, <4>7, <5>1
        <4>8. CASE /\ effected' = effected /\ performed' = performed + incs[a] /\ incs'[a] = incs[a]
                   /\ pc[a] = "add" /\ pc'[a] = "done"
          <5>1. C[a] = incs[a] + 0 /\ D[a] = 0 + 0
            BY <4>1, <4>2, <4>3, <4>8
          <5> QED BY <1>2, <4>4, <4>8, <5>1
        <4> QED BY <4>5, <4>6, <4>7, <4>8, PerformMoves
      <3> HIDE DEF C, D
      <3>2. Sum(C, N) \in Int /\ Sum(D, N) = Sum(C, N) + (D[a] - C[a])
        BY <1>3, <2>2, TotalChange
      <3>3. D[a] \in Int /\ C[a] \in Int
        BY <1>3, <2>2
      <3> QED BY <1>2, <1>4, <3>1, <3>2, <3>3
    <2> QED BY <2>1, <2>2, WorkloadNames
  <1>6. pc'[0] \in MainReads => seen'[0] \subseteq {effected'} /\ \A t \in 1..N : pc'[t] = "done"
    <2> SUFFICES ASSUME pc'[0] \in MainReads
                 PROVE  seen'[0] \subseteq {effected'} /\ \A t \in 1..N : pc'[t] = "done"
      OBVIOUS
    <2>1. 0 \in 0..N /\ \A t \in 1..N : t # 0
      BY WorkloadNames
    <2>2. pc[0] \in MainReads => seen[0] \subseteq {effected} /\ \A t \in 1..N : pc[t] = "done"
      BY DEF WPerformed, MainReads
    <2>3. a = 0
      <3> SUFFICES ASSUME a # 0 PROVE FALSE
        OBVIOUS
      <3>1. pc'[0] = pc[0] /\ a \in 1..N
        BY <2>1, WorkloadNames DEF Acts, Frame
      <3> QED BY <2>2, <3>1, PerformMoves
    <2>4. effected' = effected /\ \A t \in 1..N : pc'[t] = pc[t]
      BY <1>1, <2>1, <2>3, PerformMoves
    <2>5. CASE pc[0] \in MainReads
      BY <2>1, <2>2, <2>4, <2>5, SeenGrows
    <2>6. CASE pc[0] = "join" /\ \A t \in 1..N : pc[t] = "done"
      BY <2>1, <2>4, <2>6, SeenGrows DEF Workload!Reading
    <2> QED BY <2>3, <2>5, <2>6, PerformMoves
  <1> QED BY <1>1, <1>5, <1>6 DEF WPerformed, MainReads

-----------------------------------------------------------------------------
\* The beginning, and the theorems.
LEMMA FirstSum ==
    ASSUME scratch \in [1..N -> Nat]
    PROVE  Workload!SumOfShards = Sum([t \in 1..N |-> Workload!Counts(scratch[t])], N)
  <1> DEFINE w == [t \in 1..N |-> Workload!Counts(scratch[t])]
             Is(f) == f = [i \in 0..N |-> IF i = 0 THEN 0 ELSE f[i - 1] + w[i]]
             Was(f) == f = [i \in 0..N |-> IF i = 0 THEN 0 ELSE f[i - 1] + Workload!Counts(scratch[i])]
  <1>1. N \in Nat /\ \A i \in 0..N : i # 0 => i \in 1..N
    BY WorkloadNames
  <1>2. \A i \in 0..N : i # 0 => w[i] = Workload!Counts(scratch[i])
    BY <1>1
  <1>3. \A f : Is(f) <=> Was(f)
    <2> HIDE DEF w
    <2> QED BY <1>2
  <1>4. (CHOOSE f : Is(f)) = (CHOOSE f : Was(f))
    <2> HIDE DEF Is, Was
    <2> QED BY <1>3
  <1>5. Sum(w, N) = (CHOOSE f : Is(f))[N]
    BY DEF Sum
  <1>6. Workload!SumOfShards = (CHOOSE f : Was(f))[N]
    BY DEF Workload!SumOfShards
  <1> QED BY <1>4, <1>5, <1>6

LEMMA FirstCounts ==
    ASSUME scratch \in [1..N -> Nat]
    PROVE  /\ [t \in 1..N |-> Workload!Counts(scratch[t])] \in [1..N -> Nat]
           /\ kind # "approx" => \A t \in 1..N : Workload!Counts(scratch[t]) = scratch[t]
  <1>1. PICK W \in Nat : W = c * N /\ W > 0
    BY WorkloadNames
  <1>2. \A t \in 1..N : Workload!Counts(scratch[t]) = IF kind = "approx" /\ scratch[t] >= W THEN W - 1 ELSE scratch[t]
    BY <1>1 DEF Workload!Counts
  <1>3. \A t \in 1..N : scratch[t] \in Nat
    OBVIOUS
  <1> QED BY <1>1, <1>2, <1>3

LEMMA WInit == Workload!Init => WInv
  <1> SUFFICES ASSUME Workload!Init PROVE WInv
    OBVIOUS
  <1> DEFINE w == [t \in 1..N |-> Workload!Counts(scratch[t])]
  <1>1. /\ kind \in Workload!Kinds /\ v \in IF kind = "faa" THEN Junk ELSE {0}
        /\ effected = v + Workload!SumOfShards /\ initially = effected
        /\ barrier = 0 /\ started = FALSE /\ performed = 0
    BY DEF Workload!Init, Workload!CountersInit, Workload!BarrierInit
  <1>2. scratch \in IF kind \in {"approx", "shard_lock", "shard_wf"} THEN [1..N -> Junk] ELSE [1..N -> {0}]
    BY WorkloadNames DEF Workload!Init, Workload!CountersInit
  <1>3. /\ held = [i \in 0..N |-> N + 1] /\ j = [a \in 0..N |-> 1] /\ acc = [a \in 0..N |-> 0]
        /\ pc = [a \in 0..N |-> IF a = 0 THEN "startTimer" ELSE "arrive"]
        /\ incs = [t \in 1..N |-> 0] /\ seen = [a \in 0..N |-> {}]
    BY WorkloadNames DEF Workload!Init, Workload!CountersInit
  <1>4. N \in Nat \ {0} /\ Junk \subseteq Nat /\ 0 \in 0..N /\ \A t \in 1..N : t \in 0..N /\ t # 0
    BY WorkloadNames
  <1>5. v \in Nat /\ (kind # "faa" => v = 0)
    BY <1>1, <1>4
  <1>6. scratch \in [1..N -> Nat] /\ (kind \notin {"approx", "shard_lock", "shard_wf"} => \A t \in 1..N : scratch[t] = 0)
    <2>1. CASE kind \in {"approx", "shard_lock", "shard_wf"}
      <3>1. scratch \in [1..N -> Junk]
        BY <1>2, <2>1
      <3> QED BY <1>4, <2>1, <3>1
    <2>2. CASE kind \notin {"approx", "shard_lock", "shard_wf"}
      <3>1. scratch \in [1..N -> {0}]
        BY <1>2, <2>2
      <3> QED BY <3>1
    <2> QED BY <2>1, <2>2
  <1>7. pc[0] = "startTimer" /\ \A t \in 1..N : pc[t] = "arrive"
    BY <1>3, <1>4
  <1>8. \A a \in 0..N : pc[a] \in {"startTimer", "arrive"} /\ j[a] = 1 /\ acc[a] = 0
    BY <1>3
  <1>9. effected = v + Sum(w, N) /\ Sum(w, N) \in Nat /\ effected \in Nat
    <2>1. effected = v + Sum(w, N)
      BY <1>1, <1>6, FirstSum
    <2>2. Sum(w, N) \in Nat
      BY <1>6, FirstCounts, SumOfNat
    <2> QED BY <1>5, <2>1, <2>2
  <1>10. WTypeOK
    <2>1. held \in [0..N -> 0..N + 1] /\ j \in [0..N -> 1..N] /\ acc \in [0..N -> Nat]
      <3>1. N + 1 \in 0..N + 1 /\ 1 \in 1..N /\ 0 \in Nat
        BY <1>4
      <3> QED BY <1>3, <3>1
    <2>2. incs \in [1..N -> Nat] /\ seen \in [0..N -> SUBSET Nat]
      BY <1>3
    <2>3. pc \in [0..N -> MainPlaces \cup ThreadPlaces] /\ pc[0] \in MainPlaces
          /\ \A t \in 1..N : pc[t] \in ThreadPlaces
      <3>1. {"startTimer", "arrive"} \subseteq MainPlaces /\ "arrive" \in ThreadPlaces
        BY DEF MainPlaces, ThreadPlaces
      <3> HIDE DEF w
      <3> QED BY <1>3, <1>7, <3>1
    <2>4. started \in BOOLEAN /\ initially \in Nat /\ barrier \in Nat /\ performed \in Nat
      BY <1>1, <1>9
    <2> QED BY <1>1, <1>5, <1>6, <1>9, <2>1, <2>2, <2>3, <2>4 DEF WTypeOK
  <1>11. WPlaces
    BY <1>8 DEF WPlaces, Placed
  <1>12. WBarrier
    <2> DEFINE C == [t \in 1..N |-> Come(t)]
    <2>1. C \in [1..N -> Int] /\ (\A t \in 1..N : C[t] = 0) /\ Come(0) = 0
      BY <1>7 DEF Come
    <2>2. Sum(C, N) = 0
      BY <2>1, TotalOfZeros
    <2> QED BY <1>1, <1>7, <1>8, <2>1, <2>2 DEF WBarrier
  <1>13. WLocks
    <2>1. \A a \in 0..N, i \in 1..N : ~Has(a, i)
      BY <1>8 DEF Has
    <2>2. \A a \in 0..N : pc[a] \notin {"bump", "store", "incUnlock", "sum", "readUnlock"}
      BY <1>8
    <2> QED BY <2>1, <2>2 DEF WLocks
  <1>14. WCount
    <2>1. \A t \in 1..N : pc[t] # "store"
      BY <1>7
    <2>2. CASE kind \in {"naive", "lock", "faa"}
      <3>1. \A t \in 1..N : w[t] = 0
        BY <1>6, <2>2, FirstCounts
      <3>2. w \in [1..N -> Int]
        BY <3>1
      <3> HIDE DEF w
      <3>3. Sum(w, N) = 0
        BY <3>1, <3>2, TotalOfZeros
      <3>4. effected = v
        BY <1>5, <1>9, <3>3
      <3> QED BY <1>5, <2>1, <2>2, <3>4 DEF WCount
    <2>3. CASE kind \in {"shard_lock", "shard_wf"}
      <3>1. w = scratch
        <4>1. \A t \in 1..N : w[t] = scratch[t]
          BY <1>6, <2>3, FirstCounts
        <4> QED BY <1>6, <4>1
      <3> HIDE DEF w
      <3>2. effected = Sum(scratch, N)
        BY <1>5, <1>9, <2>3, <3>1
      <3> QED BY <2>3, <3>2 DEF WCount
    <2>4. CASE kind = "approx"
      <3>1. [t \in 1..N |-> Pending(t)] = w
        BY <1>7 DEF Pending
      <3> QED BY <1>9, <2>4, <3>1 DEF WCount
    <2> QED BY <1>1, <2>2, <2>3, <2>4 DEF Workload!Kinds
  <1>15. WReads
    <2>1. \A a \in 0..N : ~Workload!Reading(pc[a])
      BY <1>8 DEF Workload!Reading
    <2> QED BY <1>8, <2>1 DEF WReads, ReadRight
  <1>16. WPerformed
    <2> DEFINE C == [t \in 1..N |-> Own(t)]
    <2>1. C \in [1..N -> Int] /\ \A t \in 1..N : C[t] = 0
      BY <1>3, <1>7 DEF Own
    <2>2. Sum(C, N) = 0
      BY <2>1, TotalOfZeros
    <2> QED BY <1>1, <1>7, <1>9, <2>2 DEF WPerformed
  <1> QED BY <1>10, <1>11, <1>12, <1>13, <1>14, <1>15, <1>16 DEF WInv

LEMMA WNext == ASSUME WInv, NEW a \in 0..N, Workload!Step(a) PROVE WInv'
  <1>1. WTypeOK /\ WPlaces /\ WBarrier /\ WLocks /\ WCount /\ WReads /\ WPerformed
    BY DEF WInv
  <1>2. Acts(a) /\ Workload!Record
    BY <1>1, StepActs, StepSplit
  <1>3. WTypeOK' /\ WPlaces'
    BY <1>1, TypeStep
  <1>4. WBarrier'
    BY <1>1, <1>2, BarrierStep
  <1>5. WLocks'
    BY <1>1, <1>2, <1>3, LocksStep
  <1>6. WCount'
    BY <1>1, <1>2, <1>3, CountStep
  <1>7. WReads'
    BY <1>1, <1>2, <1>3, ReadsStep
  <1>8. WPerformed'
    BY <1>1, <1>2, <1>3, PerformedStep
  <1> QED BY <1>3, <1>4, <1>5, <1>6, <1>7, <1>8 DEF WInv

LEMMA WorkloadInvariance == Spec => []WorkloadInv
  <1>1. Init => WorkloadInv
    BY WInit DEF Init, WorkloadInv
  <1>2. WorkloadInv /\ [Next]_vars => WorkloadInv'
    <2> SUFFICES ASSUME WorkloadInv, [Next]_vars PROVE WorkloadInv'
      OBVIOUS
    <2>1. CASE program = "workload" /\ \E a \in 0..N : WorkloadStep(a)
      BY <2>1, WNext DEF WorkloadInv, WorkloadStep
    <2>2. CASE UNCHANGED <<program, workloadVars>>
      <3>1. WInv <=> WInv'
        BY <2>2 DEF workloadVars, WInv, WTypeOK, WPlaces, Placed, WBarrier, Come, WLocks, Has, WCount,
                    Pending,
             Workload!Counts, WReads, ReadRight, Collecting, Workload!Reading, Workload!Slack, WPerformed, Own, Sum
      <3> QED BY <2>2, <3>1 DEF WorkloadInv
    <2>3. \/ program = "workload" /\ \E a \in 0..N : WorkloadStep(a)
          \/ UNCHANGED <<program, workloadVars>>
      BY WorkloadNames DEF Next, vars, AtomicGet, AtomicStep, LockGet, LockStep, LockDrain, WorkloadStep
    <2> QED BY <2>1, <2>2, <2>3
  <1> QED BY <1>1, <1>2, PTL DEF Spec

\* Nobody is past the barrier before everybody has come and the timer runs
\* (a2/util.h:20-23, 38-41, workload_timed.cpp:59, 85-86).
THEOREM NobodyStartsEarly == Spec => []BarrierHolds
  <1>1. WorkloadInv => BarrierHolds
    BY AllCame DEF WorkloadInv, WInv, BarrierHolds
  <1> QED BY <1>1, WorkloadInvariance, PTL

\* Whatever the number of threads, a read of any counter but CounterNaive returns what the count
\* was at some instant of the read, CounterApproximate to within c * N * N
\* (counters_impl.h:87-99, 115-137, 155-166).
THEOREM ReadsSeeTheCount == Spec => []ReadsAreLinearizable
  <1>1. WorkloadInv => ReadsAreLinearizable
    BY WorkloadNames
       DEF WorkloadInv, WInv, WReads, ReadRight, ReadsAreLinearizable, Workload!ReadsAreLinearizable,
           Workload!At
  <1> QED BY <1>1, WorkloadInvariance, PTL

\* The value main prints is the first count and every increment of every thread, CounterApproximate's
\* to within c * N * N; CounterNaive's is no greater (workload_timed.cpp:72, 95).  The mains of q3_2
\* and q3_3 print every increment of both threads (q3_2.cpp:78, q3_3.cpp:79-81).
THEOREM FinalValueIsExact == Spec => []FinalIsExact
  <1>1. WorkloadInv => (program = "workload" => Workload!FinalIsExact)
    <2> SUFFICES ASSUME WInv, pc[0] = "haveRead"
                 PROVE  /\ acc[0] <= initially + performed
                        /\ kind # "naive" => initially + performed <= acc[0] + Workload!Slack
      BY DEF WorkloadInv, Workload!FinalIsExact, Workload!At
    <2> DEFINE C == [t \in 1..N |-> Own(t)]
    <2>1. effected \in Nat /\ initially \in Nat /\ performed \in Nat /\ 0 \in 0..N
      BY WorkloadNames DEF WInv, WTypeOK
    <2>2. /\ effected = initially + performed + Sum(C, N)
          /\ seen[0] \subseteq {effected} /\ \A t \in 1..N : pc[t] = "done"
      BY DEF WInv, WPerformed
    <2>3. C \in [1..N -> Int] /\ \A t \in 1..N : C[t] = 0
      BY <2>2 DEF Own
    <2>4. Sum(C, N) = 0
      BY <2>3, TotalOfZeros
    <2>5. effected = initially + performed
      BY <2>1, <2>2, <2>4
    <2>6. ReadRight(0)
      BY <2>1 DEF WInv, WReads
    <2> QED BY <2>2, <2>5, <2>6 DEF ReadRight
  <1>2. WorkloadInv /\ DekkerInv /\ Silent => FinalIsExact
    BY <1>1, DekkerCounts DEF FinalIsExact
  <1> QED BY <1>2, WorkloadInvariance, DekkerInvariance, PTL
=============================================================================
