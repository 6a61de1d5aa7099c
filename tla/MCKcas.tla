------------------------------- MODULE MCKcas -------------------------------
(***************************************************************************)
(* Kcas on small instances: two addresses, and calls that read, that swap  *)
(* one address or both.                                                    *)
(***************************************************************************)
EXTENDS Kcas, FiniteSets, SequencesExt

CONSTANTS Th1, Th2, Th3

Read1(a) == [kind |-> "read", entries |-> <<<<a, 0, 0>>>>]
Swap1(a, old, new) == [kind |-> "kcas", entries |-> <<<<a, old, new>>>>]

\* The entries arrive in either order.
Swap2(b, old, new) == [kind |-> "kcas", entries |-> <<<<1, b, b + 1>>, <<0, old, new>>>>]
Reversed(r) == [r EXCEPT !.entries = Reverse(@)]

\* Address 1 goes back to 0 after Swap2 succeeded, so helpers that wake up late find what
\* they expect there; but a Swap2 that has met a 2 there never sees its 0 again.
Settling == <<Read1(0), Swap1(1, 1, 0), Swap1(1, 0, 2), Swap2(0, 0, 1)>>

\* The second thread's calls have their entries in the other order than the others' do: of any two
\* threads with a Swap2 one is the second.
Makes(a, b, c) ==
    [t \in Threads |-> CASE t = Th1 -> a [] t = Th2 -> [k \in DOMAIN b |-> Reversed(b[k])] [] OTHER -> c]

\* Two threads, one of which calls twice; or three, among whom no two or exactly two swap both
\* addresses.  Threads are alike: who makes which of the three calls does not matter.
SettlingPlans ==
    LET swapBoth(i) == {x \in DOMAIN i : i[x] = 4}
    IN  {Makes(<<Settling[i], Settling[j]>>, <<Settling[k]>>, << >>) : i, j, k \in 1 .. 4}
        \cup {Makes(<<Settling[i[1]]>>, <<Settling[i[2]]>>, <<Settling[i[3]]>>) :
                i \in {f \in [1 .. 3 -> 1 .. 4] :
                          f[1] <= f[2] /\ f[2] <= f[3] /\ Cardinality(swapBoth(f)) \in {0, 2}}}

\* The value of address 1 comes back under a KCAS that is about to fail, as a list's next pointer
\* does when a node is inserted behind it and erased again.
ReturningPlans ==
    {Makes(<<Swap2(0, 0, 1), Swap1(0, 1, 0)>>,
           <<Swap1(1, 0, 1), Swap1(1, 1, 0), Read1(0)>>, << >>)}
=============================================================================
