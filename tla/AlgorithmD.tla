------------------------------ MODULE AlgorithmD ------------------------------
(***************************************************************************)
(* a4/alg_d.h: the lock-free table that expands, with the counters of      *)
(* a4/util.h that decide when.  A table that is more than half full gets a *)
(* successor; every call that meets one helps to move the old keys, chunk  *)
(* by chunk: whoever claims a chunk marks its slots one by one and inserts *)
(* what they held, and waits in the end until all chunks are done.         *)
(*                                                                         *)
(* An insert calls itself again where it has to start over, which is a     *)
(* jump here; frames[t] holds the call and, above it, the insert that      *)
(* migrate makes.  New arrays are taken to be zero, as fresh memory is.    *)
(* Where the code does what C++ leaves undefined (it counts an insert in a *)
(* word outside of the counter, it frees an array in use) the model stops. *)
(***************************************************************************)
EXTENDS Integers, Sequences

CONSTANTS
    Threads,        \* thread identifiers, within 0 .. MAX_THREADS - 1
    MAX_THREADS,    \* words of a counter
    Keys,           \* 1 .. keyRangeSize, below TOMBSTONE
    TOMBSTONE,      \* 0x7FFFFFFF, the largest value without the mark
    Hash,           \* [Keys -> Nat], murmur3; the signed sum h + i is taken not to be negative
    InitCapacity,   \* chosen by the user; a multiple of CHUNK_SIZE, else migrate leaves the array
    CHUNK_SIZE,     \* 4096
    Full,           \* when a subcounter is flushed: max(1000, 30 * numThreads)
    LongProbe,      \* 10: the probes after which the inserts are counted exactly
    MaxTables       \* bound of the model: the tables there have been

EMPTY == 0

VARIABLES
    tables,         \* all tables, the oldest first; they are never deleted once installed
    currentTable,   \* the number of one
    pc, op,
    frames,         \* frames[t]: the insert or erase, and the insert within migrate
    help,           \* help[t]: what helpExpansion works on, and where it returns to
    sum,            \* sum[t]: a count of the inserts under way
    undefined

vars == <<tables, currentTable, pc, op, frames, help, sum, undefined>>

Marked(v) == v - TOMBSTONE - 1      \* v | MARKED_MASK, on 32 bits
IsMarked(v) == v < 0

At(t, label) == pc[t] = label
Goto(t, label) == pc' = [pc EXCEPT ![t] = label]

Top(t) == frames[t][Len(frames[t])]
SetTop(t, frame) == frames' = [frames EXCEPT ![t][Len(frames[t])] = frame]
Tab(t) == tables[Top(t).tab]
HashOf(v) == IF v \in Keys THEN Hash[v] ELSE v      \* murmur3 of EMPTY and TOMBSTONE: any value
Index(t) == (HashOf(Top(t).key) + Top(t).i) % Tab(t).capacity
Found(t) == Tab(t).data[Index(t)]

Ceiling(n, m) == (n + m - 1) \div m
totalOldChunks(n) == IF n = 1 THEN 0 ELSE Ceiling(tables[n - 1].capacity, CHUNK_SIZE)

Table(capacity) ==
    [data |-> [s \in 0 .. capacity - 1 |-> EMPTY], capacity |-> capacity,
     inserts |-> 0, insertsOf |-> [w \in 0 .. MAX_THREADS - 1 |-> 0],
     chunksClaimed |-> 0, chunksDone |-> 0]

Frame(key, tid, disableExpansion) ==
    [key |-> key, tid |-> tid, disableExpansion |-> disableExpansion, tab |-> 1, i |-> 0, val |-> 0]

-----------------------------------------------------------------------------
Call(t) ==
    /\ At(t, "idle")
    /\ \E o \in {"insert", "erase"}, k \in Keys :
          /\ op' = [op EXCEPT ![t] = o]
          /\ frames' = [frames EXCEPT ![t] = <<Frame(k, t, FALSE)>>]
    /\ Goto(t, "enter")
    /\ UNCHANGED <<tables, currentTable, help, sum, undefined>>

\* What an iteration of the loop begins with.
Expands(t) == op[t] = "insert" /\ ~Top(t).disableExpansion
Probe(t, frame) ==
    /\ SetTop(t, frame)
    /\ IF Expands(t)
       THEN Goto(t, "claim") /\ help' = [help EXCEPT ![t] = [@ EXCEPT !.of = frame.tab, !.to = "check"]]
       ELSE Goto(t, "read") /\ UNCHANGED help

Enter(t) ==
    /\ At(t, "enter")
    /\ Probe(t, [Top(t) EXCEPT !.tab = currentTable, !.i = 0])
    /\ UNCHANGED <<tables, currentTable, op, sum, undefined>>

NextProbe(t) ==
    \/ /\ Top(t).i + 1 < Tab(t).capacity
       /\ Probe(t, [Top(t) EXCEPT !.i = @ + 1])
    \/ /\ Top(t).i + 1 >= Tab(t).capacity
       /\ Goto(t, "return") /\ UNCHANGED <<frames, help>>

Jump(t, label) == Goto(t, label) /\ UNCHANGED <<frames, help>>
Write(t, v) == tables' = [tables EXCEPT ![Top(t).tab].data[Index(t)] = v]

InsertRead(t) ==
    /\ At(t, "read") /\ op[t] = "insert"
    /\ \/ IsMarked(Found(t)) /\ Jump(t, "enter")
       \/ Found(t) = Top(t).key /\ Jump(t, "return")
       \/ Found(t) = EMPTY /\ Top(t).key # EMPTY /\ Jump(t, "cas")
       \/ ~IsMarked(Found(t)) /\ Found(t) \notin {Top(t).key, EMPTY} /\ NextProbe(t)
    /\ UNCHANGED <<tables, currentTable, op, sum, undefined>>

InsertCAS(t) ==
    /\ At(t, "cas") /\ op[t] = "insert"
    /\ \/ Found(t) = EMPTY /\ Write(t, Top(t).key) /\ Jump(t, "inc")
       \/ IsMarked(Found(t)) /\ Jump(t, "enter") /\ UNCHANGED tables
       \/ Found(t) = Top(t).key /\ Jump(t, "return") /\ UNCHANGED tables
       \/ /\ ~IsMarked(Found(t)) /\ Found(t) \notin {Top(t).key, EMPTY}
          /\ NextProbe(t) /\ UNCHANGED tables
    /\ UNCHANGED <<currentTable, op, sum, undefined>>

EraseRead(t) ==
    /\ At(t, "read") /\ op[t] = "erase"
    /\ \/ Found(t) = Top(t).key /\ Jump(t, "cas")
       \/ Found(t) = EMPTY /\ Jump(t, "return")
       \/ Found(t) \notin {Top(t).key, EMPTY} /\ NextProbe(t)
    /\ UNCHANGED <<tables, currentTable, op, sum, undefined>>

\* A CAS that fails always starts over: `found == key | MARKED_MASK` is never 0.
EraseCAS(t) ==
    /\ At(t, "cas") /\ op[t] = "erase"
    /\ \/ Found(t) = Top(t).key /\ Write(t, TOMBSTONE) /\ Jump(t, "return")
       \/ Found(t) # Top(t).key /\ Jump(t, "enter") /\ UNCHANGED tables
    /\ UNCHANGED <<currentTable, op, sum, undefined>>

\* The end of the call, or of the insert that migrate has made: on to the next slot of the
\* chunk, or migrate counts the chunk as done.
Return(t) ==
    /\ At(t, "return")
    /\ LET migrates == Len(frames[t]) = 2
           chunkEnds == (help[t].idx + 1) % CHUNK_SIZE = 0
       IN  /\ frames' = [frames EXCEPT ![t] = IF migrates THEN <<Head(@)>> ELSE <<>>]
           /\ op' = [op EXCEPT ![t] = IF migrates THEN @ ELSE "none"]
           /\ help' = [help EXCEPT ![t].idx = IF migrates THEN @ + 1 ELSE 0]
           /\ Goto(t, IF ~migrates THEN "idle" ELSE IF chunkEnds THEN "migrated" ELSE "migrate")
    /\ UNCHANGED <<tables, currentTable, sum, undefined>>

-----------------------------------------------------------------------------
\* counter::inc, with the tid that insertIfAbsent was given: migrate gives it the key.
IncLoad(t) ==
    /\ At(t, "inc")
    /\ IF Top(t).tid < MAX_THREADS
       THEN /\ SetTop(t, [Top(t) EXCEPT !.val = Tab(t).insertsOf[Top(t).tid] + 1])
            /\ Goto(t, "inc store") /\ UNCHANGED undefined
       ELSE undefined' = TRUE /\ UNCHANGED <<frames, pc>>
    /\ UNCHANGED <<tables, currentTable, op, help, sum>>

IncStore(t) ==
    /\ At(t, "inc store")
    /\ tables' = [tables EXCEPT ![Top(t).tab].insertsOf[Top(t).tid] = Top(t).val]
    /\ Jump(t, IF Top(t).val >= Full THEN "flush" ELSE "return")
    /\ UNCHANGED <<currentTable, op, sum, undefined>>

IncFlush(t) ==
    /\ At(t, "flush")
    /\ tables' = [tables EXCEPT ![Top(t).tab].inserts = @ + Top(t).val]
    /\ Jump(t, "reset")
    /\ UNCHANGED <<currentTable, op, sum, undefined>>

IncReset(t) ==
    /\ At(t, "reset")
    /\ tables' = [tables EXCEPT ![Top(t).tab].insertsOf[Top(t).tid] = 0]
    /\ Jump(t, "return")
    /\ UNCHANGED <<currentTable, op, sum, undefined>>

\* counter::getAccurate adds up the words one after the other and then the global counter.
Count(t, label) == sum' = [sum EXCEPT ![t] = [total |-> 0, word |-> 0, to |-> label]] /\ Jump(t, "sum")

Sum(t) ==
    /\ At(t, "sum")
    /\ LET w == sum[t].word IN
       IF w < MAX_THREADS
       THEN /\ sum' = [sum EXCEPT ![t].total = @ + Tab(t).insertsOf[w], ![t].word = w + 1]
            /\ UNCHANGED pc
       ELSE /\ sum' = [sum EXCEPT ![t].total = @ + Tab(t).inserts]
            /\ Goto(t, sum[t].to)
    /\ UNCHANGED <<tables, currentTable, op, frames, help, undefined>>

-----------------------------------------------------------------------------
\* helpExpansion: claim chunks while there are any,
Claim(t) ==
    /\ At(t, "claim")
    /\ Jump(t, IF tables[help[t].of].chunksClaimed < totalOldChunks(help[t].of)
               THEN "fetch" ELSE "wait")
    /\ UNCHANGED <<tables, currentTable, op, sum, undefined>>

FetchChunk(t) ==
    /\ At(t, "fetch")
    /\ LET h == help[t].of
           myChunk == tables[h].chunksClaimed
       IN  /\ tables' = [tables EXCEPT ![h].chunksClaimed = @ + 1]
           /\ help' = [help EXCEPT ![t].idx = myChunk * CHUNK_SIZE]
           /\ Goto(t, IF myChunk < totalOldChunks(h) THEN "migrate" ELSE "claim")
    /\ UNCHANGED <<currentTable, op, frames, sum, undefined>>

\* migrate: read a slot of the old array,
MigrateRead(t) ==
    /\ At(t, "migrate")
    /\ help' = [help EXCEPT ![t].currentKey = tables[help[t].of - 1].data[help[t].idx]]
    /\ Goto(t, "mark")
    /\ UNCHANGED <<tables, currentTable, op, frames, sum, undefined>>

\* mark it, however often it takes, and insert what it held; the key is passed as tid too,
MigrateMark(t) ==
    /\ At(t, "mark")
    /\ LET h == help[t]
           found == tables[h.of - 1].data[h.idx]
       IN  \/ /\ found = h.currentKey
              /\ tables' = [tables EXCEPT ![h.of - 1].data[h.idx] = Marked(found)]
              /\ frames' = [frames EXCEPT ![t] = Append(@, Frame(found, found, TRUE))]
              /\ Goto(t, "enter") /\ UNCHANGED help
           \/ /\ found # h.currentKey
              /\ help' = [help EXCEPT ![t].currentKey = found]
              /\ UNCHANGED <<tables, frames, pc>>
    /\ UNCHANGED <<currentTable, op, sum, undefined>>

\* and count the chunk as done.
MigrateDone(t) ==
    /\ At(t, "migrated")
    /\ tables' = [tables EXCEPT ![help[t].of].chunksDone = @ + 1]
    /\ Jump(t, "done")
    /\ UNCHANGED <<currentTable, op, sum, undefined>>

\* helpExpansion counts the chunk as done,
ChunkDone(t) ==
    /\ At(t, "done")
    /\ tables' = [tables EXCEPT ![help[t].of].chunksDone = @ + 1]
    /\ Jump(t, "claim")
    /\ UNCHANGED <<currentTable, op, sum, undefined>>

\* and goes on once as many chunks are done as there are.
Wait(t) ==
    /\ At(t, "wait")
    /\ tables[help[t].of].chunksDone = totalOldChunks(help[t].of)
    /\ Jump(t, help[t].to)
    /\ UNCHANGED <<tables, currentTable, op, sum, undefined>>

-----------------------------------------------------------------------------
\* expandAsNeeded, when it has helped; "decide" once the inserts have been counted exactly.
Check(t) ==
    /\ At(t, "check")
    /\ \/ Tab(t).inserts > Tab(t).capacity \div 2 /\ Jump(t, "start") /\ UNCHANGED sum
       \/ /\ Tab(t).inserts <= Tab(t).capacity \div 2
          /\ IF Top(t).i > LongProbe THEN Count(t, "decide") ELSE Jump(t, "read") /\ UNCHANGED sum
    /\ UNCHANGED <<tables, currentTable, op, undefined>>

Decide(t) ==
    /\ At(t, "decide")
    /\ Jump(t, IF sum[t].total > Tab(t).capacity \div 2 THEN "start" ELSE "read")
    /\ UNCHANGED <<tables, currentTable, op, sum, undefined>>

\* startExpansion: nothing to install if the table is no longer the current one.
Start(t) ==
    /\ At(t, "start")
    /\ IF currentTable = Top(t).tab THEN Count(t, "install") ELSE Jump(t, "join") /\ UNCHANGED sum
    /\ UNCHANGED <<tables, currentTable, op, undefined>>

\* The new table's capacity is four times what was counted, in chunks; nothing is ever counted
\* in approxDeletes.  The destructor of a table that lost the race frees the old array with it.
Install(t) ==
    /\ At(t, "install")
    /\ LET keys == IF sum[t].total = 0 THEN 1 ELSE sum[t].total
       IN  \/ /\ currentTable = Top(t).tab /\ Len(tables) < MaxTables
              /\ tables' = Append(tables, Table(Ceiling(4 * keys, CHUNK_SIZE) * CHUNK_SIZE))
              /\ currentTable' = Len(tables) + 1
              /\ Jump(t, "join") /\ UNCHANGED undefined
           \/ /\ currentTable # Top(t).tab
              /\ undefined' = TRUE
              /\ UNCHANGED <<tables, currentTable, pc, frames, help>>
    /\ UNCHANGED <<op, sum>>

\* helpExpansion on what is the current table now, and the insert starts over.
Join(t) ==
    /\ At(t, "join")
    /\ help' = [help EXCEPT ![t] = [@ EXCEPT !.of = currentTable, !.to = "enter"]]
    /\ Goto(t, "claim")
    /\ UNCHANGED <<tables, currentTable, op, frames, sum, undefined>>

-----------------------------------------------------------------------------
Step(t) ==
    \/ Enter(t) \/ InsertRead(t) \/ InsertCAS(t) \/ EraseRead(t) \/ EraseCAS(t) \/ Return(t)
    \/ IncLoad(t) \/ IncStore(t) \/ IncFlush(t) \/ IncReset(t) \/ Sum(t)
    \/ Claim(t) \/ FetchChunk(t) \/ MigrateRead(t) \/ MigrateMark(t) \/ MigrateDone(t)
    \/ ChunkDone(t) \/ Wait(t)
    \/ Check(t) \/ Decide(t) \/ Start(t) \/ Install(t) \/ Join(t)

Init ==
    /\ tables = <<Table(InitCapacity)>>
    /\ currentTable = 1
    /\ pc = [t \in Threads |-> "idle"]
    /\ op = [t \in Threads |-> "none"]
    /\ frames = [t \in Threads |-> <<>>]
    /\ help = [t \in Threads |-> [of |-> 1, to |-> "check", idx |-> 0, currentKey |-> EMPTY]]
    /\ sum = [t \in Threads |-> [total |-> 0, word |-> 0, to |-> "decide"]]
    /\ undefined = FALSE

Next == ~undefined /\ \E t \in Threads : Call(t) \/ Step(t)

Spec == Init /\ [][Next]_vars

\* A thread inside a call is scheduled again and again.
FairSpec == Spec /\ \A t \in Threads : WF_vars(~undefined /\ Step(t))

-----------------------------------------------------------------------------
\* "busy wait until done": a thread that waits in helpExpansion for the migration goes on in
\* the end, as the migration itself ends (alg_d.h:123-124).
WaitEnds == \A t \in Threads : At(t, "wait") ~> ~At(t, "wait") \/ undefined
=============================================================================
