----------------------------- MODULE MCKcasTree -----------------------------
(***************************************************************************)
(* KcasTree on a small instance.                                           *)
(***************************************************************************)
EXTENDS KcasTree

\* contains is the search of the other two calls and no more: one key is enough for it.
MCCalls == ({"insert", "erase"} \X Keys) \cup {<<"contains", MinKey>>}

\* Nobody holds a free node (NoDanglingPointer) and free nodes are alike, so that it does not
\* matter which of them is allocated.
AnyOne(S) == IF S = {} THEN {} ELSE {CHOOSE m \in S : TRUE}
=============================================================================
