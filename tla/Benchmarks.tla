------------------------------ MODULE Benchmarks ------------------------------
(***************************************************************************)
(* The two benchmarks of a7: one runs its threads on the hash table, the   *)
(* other on one of the trees.  seen is the history variable of SetObject.  *)
(***************************************************************************)
EXTENDS ElidedTable, ElidedTree, AvlTree

CONSTANTS
    Programs,   \* which of "hash", "tree", "prealloc" and "avl" are run
    Plans(_)    \* which calls, <<operation, key>>, are made in each: at first the script's, one
                \* after the other; while the last of them is under way and thereafter, a number
                \* of calls, of which there is no end unless it is the AVL tree

ASSUME ProgramsAssumption ==
    /\ Programs \subseteq {"hash", "tree", "prealloc", "avl"}
    /\ \A prog \in Programs :
          LET all == (IF prog = "hash" THEN {"insert", "erase"}
                      ELSE {"insert", "erase", "contains"}) \X Keys
          IN  Plans(prog) \subseteq [script : Seq(all), calls : SUBSET all, more : Nat]

VARIABLES program, plan, seen

vars == <<callVars, tableVars, treeVars, avlVars, program, plan, seen>>

Contents == CASE program = "hash" -> Held(data) [] program = "avl" -> AvlKeys [] OTHER -> TreeKeys

Init ==
    /\ program \in Programs
    /\ prealloc = (program = "prealloc")
    /\ plan \in Plans(program)
    /\ CallsInit /\ TreeInit /\ AvlInit
    /\ TableInit(IF program = "hash" THEN TableSizes ELSE {1})
    /\ seen = [t \in Threads |-> {}]

Set == INSTANCE SetObject
       WITH contents <- Contents, refused <- {}, key <- arg, status <- Status

Record == UNCHANGED program /\ seen' = [t \in Threads |-> Set!Observe(t)]

\* One thread makes the calls of the script.
Start(t) ==
    /\ \/ /\ plan.script # <<>> /\ t = CHOOSE first \in Threads : TRUE
          /\ Call(t, {Head(plan.script)})
          /\ plan' = [plan EXCEPT !.script = Tail(@)]
       \/ /\ plan.script = <<>> /\ plan.more > 0
          /\ Call(t, plan.calls)
          /\ plan' = [plan EXCEPT !.more = IF program = "avl" THEN @ - 1 ELSE @]
    /\ IF program = "avl" THEN AvlCall(t) ELSE UNCHANGED avlVars
    /\ TreeCall(t)
    /\ UNCHANGED tableVars

HashWork(t) ==
    /\ TableWork(t) \/ (Return(t) /\ UNCHANGED tableVars)
    /\ UNCHANGED <<treeVars, avlVars, plan>>

TreesWork(t) == (TreeWork(t) \/ TreeReturn(t)) /\ UNCHANGED <<tableVars, avlVars, plan>>

\* An assertion that fails ends the program.
Running == \A t \in Threads : ~At(t, "assert")

StartStep(t) == Running /\ Start(t) /\ Record
HashStep(t) == program = "hash" /\ Running /\ HashWork(t) /\ Record
TreeStep(t) == program \in {"tree", "prealloc"} /\ TreesWork(t) /\ Record
AvlStep(t) == program = "avl" /\ Running /\ AvlWork(t) /\ UNCHANGED <<tableVars, treeVars, plan>> /\ Record
FreeStep(m) == program = "avl" /\ Running /\ AvlFree(m) /\ UNCHANGED <<tableVars, treeVars, plan>> /\ Record

Next ==
    \/ \E t \in Threads : StartStep(t) \/ HashStep(t) \/ TreeStep(t) \/ AvlStep(t)
    \/ \E m \in Cells : FreeStep(m)

Spec == Init /\ [][Next]_vars

\* A thread inside a call is scheduled again and again; nothing makes it call, nothing makes a
\* transaction commit, nothing makes a lock choose among those that wait for it, and nothing makes
\* the reclaimer free a node.  How TLEGuard chooses is not in the source: nothing is said of the
\* hash table's calls.
FairSpec == Spec /\ \A t \in Threads : WF_vars(TreeStep(t) \/ AvlStep(t))

-----------------------------------------------------------------------------
TypeOK ==
    /\ pc \in [Threads -> AvlPlaces \cup {"idle", "begin", "wait", "acquire", "search", "delete p",
                                          "delete n", "release", "return", "assert"}]
    /\ op \in [Threads -> {"none", "insert", "erase", "contains"}]
    /\ arg \in [Threads -> Keys \cup {0}]
    /\ res \in [Threads -> {"pending", "true", "false"}]
    /\ TableTypeOK /\ TreeTypeOK /\ AvlTypeOK
    /\ seen \in [Threads -> SUBSET BOOLEAN]

\* The calls of the hash table and of the trees are linearizable, also while the table grows, while
\* transactions meet the holder of the lock, and while rotations move nodes out of the way of
\* searches that take no locks (hashtable.h:129-193, tree.h:82-143, ccavl_impl.h:518-836).
Linearizable == Set!Spec

\* The assertions hold.  Every loop of the hash table ends at a key or at an empty slot, if the table
\* is ample (hashtable.h:164, 190); no node of the AVL tree is unlinked twice or below a node that
\* is, and none is rotated while it is being rotated (ccavl_impl.h:427-447, 932-944).
AssertsHold == (program = "hash" => Ample) => Running

\* Nobody meets a node that has been deleted or freed, none that has been linked is lost (nor one that
\* has not, in tree.h), and the AVL tree is in order again when all calls have returned
\* (tree.h:87, 149-153, 193-201; ccavl_impl.h:922-1057).
NoStrayNode == TreeIsSound /\ AvlIsSound

\* try to insert key; return true if successful (if it doesn't already exist), false otherwise
\* (tree.h:52, tree_prealloc_internal.h:52).
InsertsOnce ==
    [][\A t \in Threads :
          op[t] = "insert" /\ res[t] = "pending" /\ res'[t] = "true" =>
              arg[t] \notin Contents]_vars

\* As long as somebody is in a call, calls return, though no transaction need ever commit:
\* whoever has tried often enough gets the lock, or sees another get it (tree.h:83-142).  In the
\* AVL tree, whose locks are always taken from above though rotations exchange above and below,
\* searches end, those that wait for a rotation included (ccavl_impl.h:474-493, 1021-1237).
CallsReturn ==
    program # "hash" =>
        (\E t \in Threads : ~At(t, "idle")) ~> (\E t \in Threads : At(t, "return"))
=============================================================================
