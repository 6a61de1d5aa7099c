------------------------------- MODULE Records -------------------------------
(***************************************************************************)
(* The records of a data structure and the operations that use them, as a  *)
(* reclaimer of recordmgr sees them: pointers are read in an operation,    *)
(* between startOp and endOp of its guard, an unlinked record is retired,  *)
(* what is freed is allocated anew.  The data structure is external.       *)
(* A module of variables and operators, for the reclaimers and for what    *)
(* they promise.                                                           *)
(***************************************************************************)
EXTENDS Processes

CONSTANT Records

VARIABLES where,    \* each record: "linked", "retired" or "freed"
          running,  \* the threads in an operation
          held,     \* the records an operation has a pointer to
          graced    \* history: for each record, the operations that ran when it was
                    \* retired and still run

records == <<where, running, held, graced>>

RecordsInit ==
    /\ where = [r \in Records |-> "linked"]
    /\ running = {}
    /\ held = [t \in Threads |-> {}]
    /\ graced = [r \in Records |-> {}]

RecordsType ==
    /\ where \in [Records -> {"linked", "retired", "freed"}]
    /\ running \in SUBSET Threads
    /\ held \in [Threads -> SUBSET Records]
    /\ graced \in [Records -> SUBSET Threads]

Begin(t) ==
    /\ t \notin running
    /\ running' = running \cup {t}
    /\ UNCHANGED <<where, held, graced>>

\* Links lead to linked records, or come from a record that was unlinked later.
Reach(t) ==
    /\ t \in running
    /\ \E r \in Records : where[r] = "linked" /\ held' = [held EXCEPT ![t] = @ \cup {r}]
    /\ UNCHANGED <<where, running, graced>>

Unlink(t, r) ==
    /\ t \in running /\ r \in held[t] /\ where[r] = "linked"
    /\ where' = [where EXCEPT ![r] = "retired"]
    /\ graced' = [graced EXCEPT ![r] = running]
    /\ UNCHANGED <<running, held>>

Allocate(t) ==
    /\ t \in running
    /\ \E r \in Records : where[r] = "freed" /\ where' = [where EXCEPT ![r] = "linked"]
    /\ UNCHANGED <<running, held, graced>>

\* The pointers of an operation end with it.
End(t) ==
    /\ t \in running
    /\ running' = running \ {t}
    /\ held' = [held EXCEPT ![t] = {}]
    /\ graced' = [r \in Records |-> graced[r] \ {t}]
    /\ UNCHANGED where

Release(freeable) ==
    /\ where' = [r \in Records |-> IF r \in freeable THEN "freed" ELSE where[r]]
    /\ UNCHANGED <<running, held, graced>>
=============================================================================
