--------------------------- MODULE MCFixedTables ---------------------------
(***************************************************************************)
(* FixedTables on a small instance.                                        *)
(***************************************************************************)
EXTENDS FixedTables

\* Both keys start at slot 0; the probe of key 1 wraps at HashRange and misses slot 2.
MCHash == [k \in Keys |-> IF k = 1 THEN HashRange - 2 ELSE 0]

=============================================================================
