------------------------------ MODULE SetObject ------------------------------
(***************************************************************************)
(* What every concurrent set of the repository promises its callers: a     *)
(* linearizable set of keys whose updates take effect at one instant       *)
(* between call and return, and whose unsuccessful calls report a state of *)
(* affairs that really held at some instant between call and return.       *)
(*                                                                         *)
(* seen[t] is the set of answers to "is key[t] in the set?" that were true *)
(* at some instant since t's call; an answer may only be given from it.    *)
(* refused is the set of keys for which the object has run out of room; it *)
(* never shrinks, and a refused key is never added again.  The structures  *)
(* without a capacity keep it empty.                                       *)
(***************************************************************************)
EXTENDS Naturals

CONSTANTS Threads, Keys

VARIABLES contents, refused, op, key, status, seen

objVars == <<contents, refused, op, key, status, seen>>

Ops == {"insert", "erase", "contains"}
Answered == {"true", "false"}

Observe(t) == IF status'[t] = "idle"
              THEN {}
              ELSE (IF status[t] = "idle" THEN {} ELSE seen[t])
                      \cup {key'[t] \in contents'}

Invoke(t) ==
    /\ status[t] = "idle"
    /\ status' = [status EXCEPT ![t] = "pending"]
    /\ \E o \in Ops, k \in Keys : op' = [op EXCEPT ![t] = o] /\ key' = [key EXCEPT ![t] = k]
    /\ UNCHANGED contents

Add(t) ==
    /\ status[t] = "pending" /\ op[t] = "insert"
    /\ key[t] \notin contents \cup refused
    /\ contents' = contents \cup {key[t]}
    /\ status' = [status EXCEPT ![t] = "true"]
    /\ UNCHANGED <<op, key>>

Remove(t) ==
    /\ status[t] = "pending" /\ op[t] = "erase"
    /\ key[t] \in contents
    /\ contents' = contents \ {key[t]}
    /\ status' = [status EXCEPT ![t] = "true"]
    /\ UNCHANGED <<op, key>>

\* The answers that change nothing: each is true of some instant of the call.
Decline(t) ==
    /\ status[t] = "pending"
    /\ \/ op[t] = "insert" /\ (TRUE \in seen[t] \/ key[t] \in refused')
       \/ op[t] \in {"erase", "contains"} /\ FALSE \in seen[t]
    /\ status' = [status EXCEPT ![t] = "false"]
    /\ UNCHANGED <<contents, op, key>>

Confirm(t) ==
    /\ status[t] = "pending" /\ op[t] = "contains" /\ TRUE \in seen[t]
    /\ status' = [status EXCEPT ![t] = "true"]
    /\ UNCHANGED <<contents, op, key>>

Return(t) ==
    /\ status[t] \in Answered
    /\ status' = [status EXCEPT ![t] = "idle"]
    /\ \E o \in Ops \cup {"none"} : op' = [op EXCEPT ![t] = o]
    /\ \E k \in Keys \cup {0} : key' = [key EXCEPT ![t] = k]
    /\ UNCHANGED contents

Init ==
    /\ contents = {} /\ refused = {}
    /\ op = [t \in Threads |-> "none"]
    /\ key = [t \in Threads |-> 0]
    /\ status = [t \in Threads |-> "idle"]
    /\ seen = [t \in Threads |-> {}]

Next ==
    /\ \/ \E t \in Threads : Invoke(t) \/ Add(t) \/ Remove(t) \/ Decline(t) \/ Confirm(t) \/ Return(t)
       \/ UNCHANGED <<contents, op, key, status>>
    /\ refused \subseteq refused' /\ refused' \subseteq Keys
    /\ seen' = [t \in Threads |-> Observe(t)]

Spec == Init /\ [][Next]_objVars
=============================================================================
