-------------------------------- MODULE Kcas --------------------------------
(***************************************************************************)
(* KCASLockFree of a5/kcas.h (a6/kcas/kcas_reuse_impl.h is the same code): *)
(* a multi-word compare-and-swap with one reusable descriptor per thread.  *)
(*                                                                         *)
(* A word of memory is <<"value", v, 0>>, <<"rdcss", t, n>> or             *)
(* <<"kcas", t, n>>: a tagged pointer names the descriptor of thread t     *)
(* while its sequence number is n.  Every access to shared memory is a     *)
(* step; the stores that fill a descriptor are one step with the sequence  *)
(* number that unveils it, because no tag of that number exists before.    *)
(*                                                                         *)
(* frames[t] is t's stack of calls of help: its own KCAS at the bottom,    *)
(* the KCASes it is helping above it.  Two variables are history, which no *)
(* step reads: seen is AtomicKcas's, and past[t] lists the descriptors     *)
(* that t had before its present one.                                      *)
(***************************************************************************)
EXTENDS Naturals, Sequences

CONSTANTS Threads, Addrs, Values,
          Plans,      \* the calls that each thread makes, one after the other: a model bound
          MaxDepth,   \* the calls of help, one inside the other, that a stack has room for: a model bound
          SeqLimit    \* sequence numbers wrap here: 2^WIDTH_SEQ in the code, two for each operation

Requests == UNION {{f[t][i] : i \in DOMAIN f[t]} : f \in Plans, t \in Threads}
Entries == Addrs \X Values \X Values   \* <<address, expected value, new value>>

ASSUME KcasAssumption ==
    /\ Addrs \subseteq Nat
    /\ Values \subseteq Nat /\ {0, 1} \subseteq Values
    /\ SeqLimit \in Nat \ {0} /\ MaxDepth \in Nat \ {0}
    /\ Plans \subseteq [Threads -> Seq(Requests)]
    /\ \A r \in Requests :
          /\ r \in [kind : {"read", "kcas"}, entries : Seq(Entries)] /\ r.entries # << >>
          /\ \A i, j \in DOMAIN r.entries : r.entries[i][1] = r.entries[j][1] => i = j

VARIABLES mem, kdesc, rdesc, pc, request, frames, word, helped, answer, plan, seen, past

local == <<request, plan>>
vars == <<mem, kdesc, rdesc, pc, request, frames, word, helped, answer, plan, seen, past>>
codeVars == <<mem, kdesc, rdesc, pc, request, frames, word, helped, answer, plan>>

Value(v) == <<"value", v, 0>>
KcasTag(t, n) == <<"kcas", t, n>>
RdcssTag(t, n) == <<"rdcss", t, n>>
NoWord == <<"none", 0, 0>>
NoRdcss == [tag |-> NoWord, undecided |-> FALSE,
            desc |-> [seq |-> 0, tag |-> NoWord, addr |-> 0, old2 |-> 0]]
NoRequest == [kind |-> "none", entries |-> << >>]
isRdcss(w) == w[1] = "rdcss"
isKcas(w) == w[1] = "kcas"

\* A plausible slip: the entries stay in the caller's order.
kcasdesc_unsorted(es) == es

\* kcasdesc_sort: the entries by address, which must differ.
Sorted(es) == \A i, j \in DOMAIN es : i < j => es[i][1] < es[j][1]
kcasdesc_sort(es) ==
    CHOOSE s \in [DOMAIN es -> {es[i] : i \in DOMAIN es}] : Sorted(s)

NextSeq(n) == (n + 1) % SeqLimit
Current(tag) == kdesc[tag[2]].seq = tag[3]
StateOf(tag) == kdesc[tag[2]].state

Top(t) == frames[t][Len(frames[t])]
Under(t) == SubSeq(frames[t], 1, Len(frames[t]) - 1)
Entry(t) == Top(t).entries[Top(t).i]
Busy(t) == frames[t] # << >>
Own(t) == Len(frames[t]) = 1 /\ request[t].kind = "kcas"

Goto(t, l) == pc' = [pc EXCEPT ![t] = l]
SetTop(t, f) == frames' = [frames EXCEPT ![t] = Append(Under(t), f)]
SetMem(a, w) == mem' = [mem EXCEPT ![a] = w]
\* Compare-and-swap of address a; the swap happens only on the expected word.
CAS(a, old, new) == SetMem(a, IF mem[a] = old THEN new ELSE mem[a])

Init ==
    /\ mem = [a \in Addrs |-> Value(0)]
    /\ kdesc = [t \in Threads |-> [seq |-> 0, state |-> "undecided", entries |-> << >>]]
    /\ rdesc = [t \in Threads |-> NoRdcss.desc]
    /\ pc = [t \in Threads |-> "idle"]
    /\ request = [t \in Threads |-> NoRequest]
    /\ frames = [t \in Threads |-> << >>]
    /\ word = [t \in Threads |-> NoWord]
    /\ helped = [t \in Threads |-> NoRdcss]
    /\ answer = [t \in Threads |-> 0]
    /\ plan \in Plans
    /\ seen = [t \in Threads |-> {}]
    /\ past = [t \in Threads |-> << >>]

-----------------------------------------------------------------------------
\* A call of readPtr, or of getDescriptor, addPtrAddr... and execute: the next one of t's plan.
Called(t, kind) ==
    /\ pc[t] = "idle" /\ plan[t] # << >> /\ Head(plan[t]).kind = kind
    /\ request' = [request EXCEPT ![t] = Head(plan[t])]
    /\ plan' = [plan EXCEPT ![t] = Tail(@)]

CallRead(t) ==
    /\ Called(t, "read")
    /\ Goto(t, "read")
    /\ UNCHANGED <<mem, kdesc, rdesc, frames, word, helped, answer>>

CallExecute(t) ==
    LET d == [seq     |-> NextSeq(kdesc[t].seq),
              state   |-> "undecided",
              entries |-> kcasdesc_sort(request'[t].entries)]
    IN  /\ Called(t, "kcas")
        /\ kdesc' = [kdesc EXCEPT ![t] = d]
        /\ frames' = [frames EXCEPT ![t] =
              <<[tag |-> KcasTag(t, d.seq), entries |-> d.entries, i |-> 1,
                 newstate |-> "succeeded"]>>]
        /\ Goto(t, "help")
        /\ UNCHANGED <<mem, rdesc, word, helped, answer>>

\* The word that readPtr returns, or the operation it must help first.
Read(t) ==
    LET a == request[t].entries[1][1]
    IN  /\ pc[t] = "read"
        /\ word' = [word EXCEPT ![t] = IF mem[a][1] = "value" THEN NoWord ELSE mem[a]]
        /\ answer' = [answer EXCEPT ![t] = IF mem[a][1] = "value" THEN mem[a][2] ELSE 0]
        /\ Goto(t, CASE isRdcss(mem[a]) -> "snapRdcss"
                     [] isKcas(mem[a])  -> "snapKcas"
                     [] OTHER           -> "return")
        /\ UNCHANGED <<mem, kdesc, rdesc, frames, helped, local>>

Return(t) ==
    /\ pc[t] = "return"
    /\ request' = [request EXCEPT ![t] = NoRequest]
    /\ answer' = [answer EXCEPT ![t] = 0]
    /\ Goto(t, "idle")
    /\ UNCHANGED <<mem, kdesc, rdesc, frames, word, helped, plan>>

-----------------------------------------------------------------------------
\* help: phase 1 installs the KCAS's tag at every address, in order.

\* Where a call of help, or a read, goes on after it has helped another KCAS.
Resume(t, below) == Goto(t, IF below = << >> THEN "read" ELSE "prepare")

\* help returns to its caller: execute, readPtr's loop or the loop over the entries.
HelpReturns(t, result) ==
    /\ frames' = [frames EXCEPT ![t] = Under(t)]
    /\ IF Own(t)
       THEN Goto(t, "return") /\ answer' = [answer EXCEPT ![t] = result]
       ELSE Resume(t, Under(t)) /\ UNCHANGED answer

\* A plausible slip: a helper also skips the second entry.
HelpOtherSkipsEntry(t) ==
    /\ pc[t] = "snapKcas" /\ Len(frames[t]) < MaxDepth
    /\ IF Current(word[t])
       THEN /\ frames' = [frames EXCEPT ![t] = Append(@,
                   [tag |-> word[t], entries |-> kdesc[word[t][2]].entries, i |-> 3,
                    newstate |-> "succeeded"])]
            /\ Goto(t, "help")
       ELSE Resume(t, frames[t]) /\ UNCHANGED frames
    /\ word' = [word EXCEPT ![t] = NoWord]
    /\ UNCHANGED <<mem, kdesc, rdesc, helped, answer, local>>

\* helpOther: DESC_SNAPSHOT copies the descriptor if its sequence number still is the tag's.
HelpOther(t) ==
    /\ pc[t] = "snapKcas" /\ Len(frames[t]) < MaxDepth
    /\ IF Current(word[t])
       THEN /\ frames' = [frames EXCEPT ![t] = Append(@,
                   [tag |-> word[t], entries |-> kdesc[word[t][2]].entries, i |-> 2,
                    newstate |-> "succeeded"])]
            /\ Goto(t, "help")
       ELSE Resume(t, frames[t]) /\ UNCHANGED frames
    /\ word' = [word EXCEPT ![t] = NoWord]
    /\ UNCHANGED <<mem, kdesc, rdesc, helped, answer, local>>

HelpReadsState(t) ==
    /\ pc[t] = "help"
    /\ IF ~Current(Top(t).tag)
       THEN HelpReturns(t, 0)
       ELSE /\ Goto(t, IF StateOf(Top(t).tag) # "undecided" THEN "phase2"
                       ELSE IF Top(t).i > Len(Top(t).entries) THEN "decide"
                       ELSE "prepare")
            /\ UNCHANGED <<frames, answer>>
    /\ UNCHANGED <<mem, kdesc, rdesc, word, helped, local>>

\* retry_entry: t's RDCSS descriptor is filled anew, under a new sequence number.
PrepareRdcss(t) ==
    /\ pc[t] = "prepare"
    /\ rdesc' = [rdesc EXCEPT ![t] =
          [seq |-> NextSeq(@.seq), tag |-> Top(t).tag, addr |-> Entry(t)[1], old2 |-> Entry(t)[2]]]
    /\ Goto(t, "install")
    /\ UNCHANGED <<mem, kdesc, frames, word, helped, answer, local>>

\* The loop over the entries goes on to the next one, or ends.
NextEntry(t) ==
    /\ SetTop(t, [Top(t) EXCEPT !.i = @ + 1])
    /\ Goto(t, IF Top(t).i < Len(Top(t).entries) THEN "prepare" ELSE "decide")

\* The VAL_CAS of rdcss, and what help does with the word it returns.
InstallRdcss(t) ==
    LET d == rdesc[t]
        r == mem[d.addr]
    IN  /\ pc[t] = "install"
        /\ CAS(d.addr, Value(d.old2), RdcssTag(t, d.seq))
        /\ \/ /\ r = Value(d.old2)
              /\ helped' = [helped EXCEPT ![t] =
                    [tag |-> RdcssTag(t, d.seq), desc |-> d, undecided |-> FALSE]]
              /\ Goto(t, "rdcssState")
              /\ UNCHANGED <<frames, word>>
           \/ /\ isRdcss(r)
              /\ word' = [word EXCEPT ![t] = r]
              /\ Goto(t, "snapRdcss")
              /\ UNCHANGED <<frames, helped>>
           \/ /\ isKcas(r) /\ r # Top(t).tag
              /\ word' = [word EXCEPT ![t] = r]
              /\ Goto(t, "snapKcas")
              /\ UNCHANGED <<frames, helped>>
           \/ /\ r = Top(t).tag
              /\ NextEntry(t)
              /\ UNCHANGED <<word, helped>>
           \/ /\ r[1] = "value" /\ r # Value(d.old2)
              /\ SetTop(t, [Top(t) EXCEPT !.newstate = "failed"])
              /\ Goto(t, "decide")
              /\ UNCHANGED <<word, helped>>
        /\ UNCHANGED <<kdesc, rdesc, answer, local>>

-----------------------------------------------------------------------------
\* rdcssHelp: an installed RDCSS becomes the KCAS's tag, if that is still undecided,
\* or the value it replaced.

\* After helping another thread's RDCSS the loops of rdcss and rdcssRead try again.
Retry(t) == Goto(t, IF Busy(t) THEN "install" ELSE "read")

RdcssHelpOther(t) ==
    LET d == rdesc[word[t][2]]
    IN  /\ pc[t] = "snapRdcss"
        /\ IF d.seq = word[t][3]
           THEN /\ helped' = [helped EXCEPT ![t] = [tag |-> word[t], desc |-> d, undecided |-> FALSE]]
                /\ Goto(t, "rdcssState")
           ELSE Retry(t) /\ UNCHANGED helped
        /\ word' = [word EXCEPT ![t] = NoWord]
        /\ UNCHANGED <<mem, kdesc, rdesc, frames, answer, local>>

\* A plausible slip: the state of the KCAS is not looked at again, as in a plain CAS.
RdcssTrustsState(t) ==
    /\ pc[t] = "rdcssState"
    /\ helped' = [helped EXCEPT ![t].undecided = TRUE]
    /\ Goto(t, "rdcssSet")
    /\ UNCHANGED <<mem, kdesc, rdesc, frames, word, answer, local>>

RdcssReadsState(t) ==
    LET k == helped[t].desc.tag
    IN  /\ pc[t] = "rdcssState"
        /\ helped' = [helped EXCEPT ![t].undecided = Current(k) /\ StateOf(k) = "undecided"]
        /\ Goto(t, "rdcssSet")
        /\ UNCHANGED <<mem, kdesc, rdesc, frames, word, answer, local>>

RdcssSets(t) ==
    LET h == helped[t]
    IN  /\ pc[t] = "rdcssSet"
        /\ CAS(h.desc.addr, h.tag, IF h.undecided THEN h.desc.tag ELSE Value(h.desc.old2))
        /\ IF h.tag[2] = t THEN NextEntry(t) ELSE Retry(t) /\ UNCHANGED frames
        /\ helped' = [helped EXCEPT ![t] = NoRdcss]
        /\ UNCHANGED <<kdesc, rdesc, word, answer, local>>

-----------------------------------------------------------------------------
\* help: the state is decided once, and phase 2 replaces the tags.

\* SEQBITS_CAS_FIELD succeeds on the same sequence number and UNDECIDED only.
Decide(t) ==
    LET k == Top(t).tag
    IN  /\ pc[t] = "decide"
        /\ kdesc' = IF Current(k) /\ StateOf(k) = "undecided"
                    THEN [kdesc EXCEPT ![k[2]].state = Top(t).newstate]
                    ELSE kdesc
        /\ Goto(t, "phase2")
        /\ UNCHANGED <<mem, rdesc, frames, word, helped, answer, local>>

Phase2(t) ==
    LET k == Top(t).tag
    IN  /\ pc[t] = "phase2"
        /\ IF ~Current(k)
           THEN HelpReturns(t, 0)
           ELSE /\ SetTop(t, [Top(t) EXCEPT !.i = 1, !.newstate = StateOf(k)])
                /\ Goto(t, "release")
                /\ UNCHANGED answer
        /\ UNCHANGED <<mem, kdesc, rdesc, word, helped, local>>

\* A plausible slip: the last entry is not released.
ReleaseStopsEarly(t) ==
    LET e == Entry(t)
        succeeded == Top(t).newstate = "succeeded"
    IN  /\ pc[t] = "release"
        /\ IF Top(t).i < Len(Top(t).entries)
           THEN /\ CAS(e[1], Top(t).tag, Value(IF succeeded THEN e[3] ELSE e[2]))
                /\ SetTop(t, [Top(t) EXCEPT !.i = @ + 1])
                /\ UNCHANGED <<pc, answer>>
           ELSE HelpReturns(t, IF succeeded THEN 1 ELSE 0) /\ UNCHANGED mem
        /\ UNCHANGED <<kdesc, rdesc, word, helped, local>>

Release(t) ==
    LET e == Entry(t)
        succeeded == Top(t).newstate = "succeeded"
    IN  /\ pc[t] = "release"
        /\ CAS(e[1], Top(t).tag, Value(IF succeeded THEN e[3] ELSE e[2]))
        /\ IF Top(t).i < Len(Top(t).entries)
           THEN SetTop(t, [Top(t) EXCEPT !.i = @ + 1]) /\ UNCHANGED <<pc, answer>>
           ELSE HelpReturns(t, IF succeeded THEN 1 ELSE 0)
        /\ UNCHANGED <<kdesc, rdesc, word, helped, local>>

-----------------------------------------------------------------------------
Work(t) ==
    \/ Read(t) \/ Return(t) \/ HelpOther(t) \/ HelpReadsState(t) \/ PrepareRdcss(t)
    \/ InstallRdcss(t) \/ RdcssHelpOther(t) \/ RdcssReadsState(t) \/ RdcssSets(t)
    \/ Decide(t) \/ Phase2(t) \/ Release(t)

\* The descriptor that a tag names, or named before it was reused.
DescOf(tag) == IF Current(tag) THEN kdesc[tag[2]] ELSE past[tag[2]][tag[3] + 1]

\* What an address holds for the callers: an RDCSS has changed nothing, and the tag of a
\* KCAS stands for its new value once that has succeeded.  (No reader gets past the tag
\* of a descriptor that has been reused.)
Meaning(w, a) ==
    LET d == DescOf(w)
        e == CHOOSE e \in {d.entries[i] : i \in DOMAIN d.entries} : e[1] = a
    IN  CASE w[1] = "value" -> w[2]
          [] isRdcss(w)     -> rdesc[w[2]].old2
          [] isKcas(w)      -> IF d.state = "succeeded" THEN e[3] ELSE e[2]

Contents == [a \in Addrs |-> Meaning(mem[a], a)]

Applied(t) == request[t].kind = "kcas" /\ kdesc[t].state = "succeeded"
Status == [t \in Threads |-> IF pc[t] = "idle" THEN "idle"
                             ELSE IF pc[t] = "return" \/ Applied(t) THEN "answered"
                             ELSE "pending"]
Answer == [t \in Threads |-> IF pc[t] # "idle" /\ Applied(t) THEN 1 ELSE answer[t]]

Atomic == INSTANCE AtomicKcas WITH contents <- Contents, status <- Status, answer <- Answer

Record ==
    /\ past' = [t \in Threads |-> IF kdesc'[t].seq = kdesc[t].seq THEN past[t]
                                  ELSE Append(past[t], kdesc[t])]
    /\ seen' = [t \in Threads |-> Atomic!Observe(t)]

CallStep(t) == (CallRead(t) \/ CallExecute(t)) /\ Record
WorkStep(t) == Work(t) /\ Record

Next == \E t \in Threads : CallStep(t) \/ WorkStep(t)

Spec == Init /\ [][Next]_vars

\* A thread inside a call is scheduled again and again; nothing makes it call.
FairSpec == Spec /\ \A t \in Threads : WF_codeVars(Work(t))

-----------------------------------------------------------------------------
\* execute and readPtr are linearizable, whoever does the work: a successful KCAS takes
\* effect when its state is decided, a failing one met a mismatch (kcas.h:307-367,
\* 397-411).
Linearizable == Atomic!Spec

\* A KCAS is decided SUCCEEDED only while its tag is at every one of its addresses, even
\* by a helper that has been asleep since the phase began (kcas.h:317-350).
SuccessHoldsAll ==
    [][\A t \in Threads :
          (kdesc[t].state = "undecided" /\ kdesc'[t].state = "succeeded")
          => \A i \in DOMAIN kdesc[t].entries :
                mem[kdesc[t].entries[i][1]] = KcasTag(t, kdesc[t].seq)]_vars

\* A tag in memory names a KCAS or RDCSS that somebody is still executing: when no call is
\* in progress every address holds a plain value, so that the next call cannot spin on
\* it (kcas.h:338-341, 386, 398-404).
QuietMemory ==
    (\A t \in Threads : pc[t] = "idle") => \A a \in Addrs : mem[a][1] = "value"

\* In plans in which no value comes back under a KCAS that fails (others leave tags behind at which
\* calls spin for ever, see QuietMemory), every call returns: helping never goes in circles, because
\* the entries are sorted by address, in whatever order they were given (kcas.h:387).
CallsReturn == []<>(\A t \in Threads : pc[t] = "idle")
=============================================================================
