----------------------------- MODULE AtomicKcas -----------------------------
(***************************************************************************)
(* What KCASLockFree promises its callers: execute compares all of its     *)
(* addresses and swaps all of them at one instant between call and return, *)
(* or swaps none and reports a mismatch that really held at some instant;  *)
(* readPtr returns a value the address held at some instant of the call.   *)
(*                                                                         *)
(* An answer is a value, or C's 1 (true) or 0 (false).  seen[t] collects   *)
(* the answers that were right at some instant since t's call.             *)
(***************************************************************************)
EXTENDS Naturals, Sequences

CONSTANTS Threads, Addrs, Values, Requests

VARIABLES contents, request, status, answer, seen

kcasVars == <<contents, request, status, answer, seen>>

NoRequest == [kind |-> "none", entries |-> << >>]

\* The entries of a request are <<address, expected value, new value>>.
Matches(c, es) == \A i \in DOMAIN es : c[es[i][1]] = es[i][2]

Swap(c, es) ==
    [a \in Addrs |-> IF \E i \in DOMAIN es : es[i][1] = a
                     THEN es[CHOOSE i \in DOMAIN es : es[i][1] = a][3]
                     ELSE c[a]]

\* The answer that request r would get from contents c.
RightAnswer(c, r) ==
    IF r.kind = "read" THEN c[r.entries[1][1]]
    ELSE IF Matches(c, r.entries) THEN 1 ELSE 0

Invoke(t) ==
    /\ status[t] = "idle"
    /\ \E r \in Requests : request' = [request EXCEPT ![t] = r]
    /\ status' = [status EXCEPT ![t] = "pending"]
    /\ UNCHANGED <<contents, answer>>

Apply(t) ==
    /\ status[t] = "pending" /\ request[t].kind = "kcas"
    /\ Matches(contents, request[t].entries)
    /\ contents' = Swap(contents, request[t].entries)
    /\ status' = [status EXCEPT ![t] = "answered"]
    /\ answer' = [answer EXCEPT ![t] = 1]
    /\ UNCHANGED request

\* The answers that change nothing.
Report(t) ==
    /\ status[t] = "pending"
    /\ \E v \in seen[t] : /\ request[t].kind = "kcas" => v = 0
                          /\ answer' = [answer EXCEPT ![t] = v]
    /\ status' = [status EXCEPT ![t] = "answered"]
    /\ UNCHANGED <<contents, request>>

Return(t) ==
    /\ status[t] = "answered"
    /\ status' = [status EXCEPT ![t] = "idle"]
    /\ request' = [request EXCEPT ![t] = NoRequest]
    /\ answer' = [answer EXCEPT ![t] = 0]
    /\ UNCHANGED contents

Init ==
    /\ contents \in [Addrs -> Values]
    /\ request = [t \in Threads |-> NoRequest]
    /\ status = [t \in Threads |-> "idle"]
    /\ answer = [t \in Threads |-> 0]
    /\ seen = [t \in Threads |-> {}]

Observe(t) ==
    IF status'[t] = "idle" THEN {}
    ELSE (IF status[t] = "idle" THEN {} ELSE seen[t])
            \cup {RightAnswer(contents', request'[t])}

Next ==
    /\ \/ \E t \in Threads : Invoke(t) \/ Apply(t) \/ Report(t) \/ Return(t)
       \/ UNCHANGED <<contents, request, status, answer>>
    /\ seen' = [t \in Threads |-> Observe(t)]

Spec == Init /\ [][Next]_kcasVars
=============================================================================
