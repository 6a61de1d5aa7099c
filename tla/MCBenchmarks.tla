----------------------------- MODULE MCBenchmarks -----------------------------
(***************************************************************************)
(* Benchmarks on small instances.                                          *)
(***************************************************************************)
EXTENDS Benchmarks

\* Keys 1 and 2 collide at the last slot of the larger tables, and the probe wraps.
MCHash == [k \in Keys |-> 15 + 16 * k]

I(k) == <<"insert", k>>
D(k) == <<"erase", k>>
C(k) == <<"contains", k>>
Plan(script, calls, more) == [script |-> script, calls |-> calls, more |-> more]

\* Two calls meet, while the tree is built up or thereafter.  The rotations of an insert, to either side
\* and double, meet a search; an insert fills a node that has lost its key, while that is being
\* unlinked; the last call of a script, which repairs a tree of some size, meets another.
AvlPlans ==
    {Plan(s, {D(2), C(2), C(3)}, 1) : s \in {<<I(1), I(2), I(3)>>, <<I(3), I(1), I(2)>>}}
    \cup {Plan(<<I(3), I(2), I(1)>>, {I(1), I(4), D(1), D(3)}, 1),
          Plan(<<I(1), I(3), I(2)>>, {I(2), D(3), C(1)}, 1),
          Plan(<<I(2), I(1), D(2)>>, {I(2), I(3), D(1), D(2)}, 1),
          Plan(<<I(2), I(1), I(3), D(1)>>, {I(4), D(4)}, 2),
          Plan(<<I(2), I(1), I(3), D(2), D(1)>>, {I(1), I(2), D(3), C(3)}, 1),
          Plan(<<I(4), I(2), I(5), I(1), I(3), D(5)>>, {C(1), D(1)}, 1),
          Plan(<<I(3), I(2), I(6), I(1), I(5), I(7), I(4), I(8), D(1)>>, {D(2), D(3), C(5)}, 1)}

\* contains is the search of the other two calls and no more: one key is enough for it.
MCPlans(prog) ==
    CASE prog = "avl" -> AvlPlans
      [] prog = "hash" -> {Plan(<<>>, {I(1), I(2), D(1), D(2)}, 1)}
      [] OTHER -> {Plan(<<>>, {I(1), I(2), D(1), D(2)}, 1), Plan(<<>>, {I(2), D(2), C(2)}, 1)}

\* An erase has the root's height repaired while an insert makes one of its children higher.
DamagePlans(prog) == {Plan(<<I(2), I(1), I(4), I(3), I(5), D(1)>>, {I(1), D(2)}, 2)}
=============================================================================
