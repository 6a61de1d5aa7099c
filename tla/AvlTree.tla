------------------------------- MODULE AvlTree -------------------------------
(***************************************************************************)
(* The relaxed AVL tree that a7's tree benchmark runs for comparison:      *)
(* ccavl_impl.h behind adapter.h.  A search takes no locks.  It reads each *)
(* node's version before it goes there and looks again at the version of   *)
(* the node above; when that has shrunk meanwhile, that is, when a         *)
(* rotation has moved it down, it backs up.  An update locks the nodes it  *)
(* changes, from above, and afterwards repairs the heights and the balance *)
(* on the way up, as far as the damage goes.  A node with two children is  *)
(* not unlinked when its key is erased: it stays without a value.          *)
(*                                                                         *)
(* One step is one access to memory that others may change meanwhile;      *)
(* what is read or written under the lock that protects it goes with the   *)
(* step before or after.  Loads and stores take effect in program order.   *)
(* On x86 taking a lock is a fence and giving it back is none: a load that *)
(* overtakes a store made under a lock just given back is left out.        *)
(***************************************************************************)
EXTENDS BenchmarkCalls, Sequences, Functions

CONSTANTS
    Cells,      \* addresses for the nodes, numbers; a model bound, see Room
    Holder      \* the root, which holds the tree on its right

ASSUME AvlAssumption ==
    /\ Cells \subseteq Nat /\ IsFiniteSet(Cells)
    /\ Holder # NULL /\ {Holder, NULL} \cap Cells = {}

VARIABLES
    node,       \* the fields of the nodes: struct node_t
    fate,       \* each node: "free", "linked", "limbo" (retired by a call under way) or "retired"
    graced,     \* who retired a node; from the end of that call, whose guards it waits for
    w           \* the local variables of a thread's call

avlVars == <<node, fate, graced, w>>

Spots == Cells \cup {Holder}
Linked == {m \in Cells : fate[m] = "linked"}
Without == {m \in Cells : fate[m] = "free"}

Other == [left |-> "right", right |-> "left"]
Apart(a, b) == a - b > 1 \/ b - a > 1

\* changeOVL.  How often the node has grown is left out: nobody compares it.
NewOVL == [state |-> "still", shrinks |-> 0]
UnlinkedOVL == [state |-> "unlinked", shrinks |-> 0]
isUnlinked(m) == node[m].ovl.state = "unlinked"

NoNode == [key |-> 0, value |-> FALSE, left |-> NULL, right |-> NULL, parent |-> NULL,
           height |-> 0, ovl |-> NewOVL, lock |-> NoThread]
rbnode_create(k, up) == [NoNode EXCEPT !.key = k, !.value = TRUE, !.parent = up, !.height = 1]

height(m) == IF m = NULL THEN 0 ELSE node[m].height

Idle == [path |-> <<>>,     \* the nodes the search has come through, and how often each had shrunk
         child |-> NULL, version |-> NewOVL,    \* the node it looks at next
         spine |-> <<>>,    \* the nodes of a repair, from above
         focus |-> NULL,    \* the one whose height or balance is in question
         got |-> <<>>,      \* its left, right, value and height, and the heights below, as far as read
         far |-> 0, outer |-> 0, inner |-> 0,   \* the heights a rotation is chosen by
         todo |-> <<>>,     \* the stores of a rotation that are left
         settled |-> FALSE] \* after it only the height above is in question

AvlInit ==
    /\ node = [m \in Spots |-> IF m = Holder THEN [rbnode_create(MinKey - 1, NULL) EXCEPT !.value = FALSE]
                               ELSE NoNode]
    /\ fate = [m \in Cells |-> "free"]
    /\ graced = [m \in Cells |-> {}]
    /\ w = [t \in Threads |-> Idle]

AvlKeys == {node[m].key : m \in {l \in Linked : node[l].value}}

-----------------------------------------------------------------------------
Step(t, label, local) ==
    /\ Goto(t, label)
    /\ w' = [w EXCEPT ![t] = local]
    /\ UNCHANGED <<op, arg, res>>

Decide(t, answer) ==
    /\ Answer(t, answer, "return")
    /\ w' = [w EXCEPT ![t] = Idle]

Free(m) == node[m].lock = NoThread
Locked(t, m) == [node EXCEPT ![m].lock = t]
Unlocked(t, nodes) ==
    [m \in Spots |-> IF nodes[m].lock = t THEN [nodes[m] EXCEPT !.lock = NoThread] ELSE nodes[m]]

\* Where the search is, and in which direction the key is from there.
Frame(t) == w[t].path[Len(w[t].path)]
Here(t) == Frame(t).at
Side(k, m) == IF k < node[m].key THEN "left" ELSE "right"
Below(t) == node[Here(t)][Side(arg[t], Here(t))]

\* hasShrunkOrUnlinked.  The holder never does either; where the code does not look again, for
\* that reason, the step finds nothing.
HasShrunk(t) ==
    \/ node[Here(t)].ovl.state \in {"shrinking", "unlinked"}
    \/ node[Here(t)].ovl.shrinks # Frame(t).shrinks

\* SpecialRetry: the caller of this attempt reads its child again.
BackUp(t) ==
    Step(t, "begin", [Idle EXCEPT !.path = SubSeq(w[t].path, 1, Len(w[t].path) - 1)])

Again(t) == Step(t, "begin", [Idle EXCEPT !.path = w[t].path])

Room ==
    LET inserting == {t \in Threads : op[t] = "insert" /\ res[t] = "pending"}
    IN  Cardinality(inserting) < Cardinality(Without)

\* get, putIfAbsent and remove_node, from their guards on: the search starts at the holder.
AvlCall(t) ==
    /\ op'[t] = "insert" => Room
    /\ w' = [w EXCEPT ![t].path = <<[at |-> Holder, shrinks |-> 0]>>]
    /\ UNCHANGED <<node, fate, graced>>

ReadChild(t) ==
    LET c == Below(t)
    IN  /\ At(t, "begin")
        /\ Step(t, IF op[t] # "contains" \/ c = NULL THEN "validate"
                   ELSE IF node[c].key = arg[t] THEN "value" ELSE "version",
                [w[t] EXCEPT !.child = c])
        /\ UNCHANGED <<node, fate, graced>>

\* The child was read while the way to its parent was right; if there is none, the key is absent.
Validate(t) ==
    /\ At(t, "validate")
    /\ IF HasShrunk(t) THEN BackUp(t)
       ELSE IF w[t].child # NULL THEN Step(t, "version", w[t])
       ELSE IF op[t] = "insert" THEN Step(t, "place", w[t])
       ELSE Decide(t, "false")
    /\ UNCHANGED <<node, fate, graced>>

\* How the search got to its key is irrelevant.
ReadValue(t) ==
    /\ At(t, "value")
    /\ Decide(t, IF node[w[t].child].value THEN "true" ELSE "false")
    /\ UNCHANGED <<node, fate, graced>>

\* An update validates after it has read the child again, a get before.
Anew(t) == IF op[t] = "contains" THEN Step(t, "recheck", w[t]) ELSE Again(t)

ReadVersion(t) ==
    LET ovl == node[w[t].child].ovl
    IN  /\ At(t, "version")
        /\ IF ovl.state = "unlinked" THEN Anew(t)
           ELSE Step(t, IF ovl.state = "shrinking" THEN "wait" ELSE "reread",
                     [w[t] EXCEPT !.version = ovl])
        /\ UNCHANGED <<node, fate, graced>>

waitUntilChangeCompleted(t) ==
    /\ At(t, "wait") /\ node[w[t].child].ovl # w[t].version
    /\ Anew(t)
    /\ UNCHANGED <<node, fate, graced>>

Reread(t) ==
    /\ At(t, "reread")
    /\ IF Below(t) = w[t].child THEN Step(t, "confirm", w[t]) ELSE Anew(t)
    /\ UNCHANGED <<node, fate, graced>>

Recheck(t) ==
    /\ At(t, "recheck")
    /\ IF HasShrunk(t) THEN BackUp(t) ELSE Again(t)
    /\ UNCHANGED <<node, fate, graced>>

Confirm(t) ==
    /\ At(t, "confirm")
    /\ IF HasShrunk(t) THEN BackUp(t)
       ELSE Step(t, IF node[w[t].child].key # arg[t] THEN "begin"
                    ELSE IF op[t] = "insert" THEN "in place" ELSE "erase",
                 [Idle EXCEPT !.path = Append(w[t].path,
                     [at |-> w[t].child, shrinks |-> w[t].version.shrinks])])
    /\ UNCHANGED <<node, fate, graced>>

-----------------------------------------------------------------------------
\* The new leaf.  Below the holder no height is in question.
InsertLeaf(t) ==
    LET m == Here(t)
        leaf == CHOOSE l \in Without : \A o \in Without : l <= o
        linked == [node EXCEPT ![leaf] = rbnode_create(arg[t], m),
                               ![m][Side(arg[t], m)] = leaf]
    IN  /\ At(t, "place") /\ Free(m)
        /\ IF HasShrunk(t) THEN BackUp(t) /\ UNCHANGED <<node, fate>>
           ELSE IF Below(t) # NULL THEN Again(t) /\ UNCHANGED <<node, fate>>
           ELSE /\ fate' = [fate EXCEPT ![leaf] = "linked"]
                /\ IF m = Holder
                   THEN /\ node' = [linked EXCEPT ![m].height = 2]
                        /\ Decide(t, "true")
                   ELSE /\ node' = [linked EXCEPT ![m].lock = t]
                        /\ Answer(t, "true", "fix")
                        /\ w' = [w EXCEPT ![t] = [Idle EXCEPT !.spine = <<m>>, !.focus = m]]
        /\ UNCHANGED graced

\* attemptNodeUpdate: a look without locks at what an erase will need.
EraseLooks(t) ==
    LET n == node[Here(t)]
    IN  /\ \/ At(t, "erase") /\ IF n.value THEN Step(t, "left", w[t]) ELSE Decide(t, "false")
           \/ At(t, "left") /\ Step(t, IF n.left = NULL THEN "parent" ELSE "right", w[t])
           \/ At(t, "right") /\ Step(t, IF n.right = NULL THEN "parent" ELSE "in place", w[t])
        /\ UNCHANGED <<node, fate, graced>>

UpdateInPlace(t) ==
    LET m == Here(t)
        had == node[m].value
    IN  /\ At(t, "in place") /\ Free(m)
        /\ IF isUnlinked(m) \/ (op[t] = "erase" /\ NULL \in {node[m].left, node[m].right})
           THEN BackUp(t) /\ UNCHANGED node
           ELSE /\ node' = [node EXCEPT ![m].value = (op[t] = "insert")]
                /\ Decide(t, IF had = (op[t] = "erase") THEN "true" ELSE "false")
        /\ UNCHANGED <<fate, graced>>

LockParent(t) ==
    LET up == w[t].path[Len(w[t].path) - 1].at
    IN  /\ At(t, "parent") /\ Free(up)
        /\ IF isUnlinked(up) \/ node[Here(t)].parent # up
           THEN BackUp(t) /\ UNCHANGED node
           ELSE /\ node' = Locked(t, up)
                /\ Step(t, "node", [w[t] EXCEPT !.spine = <<up, Here(t)>>])
        /\ UNCHANGED <<fate, graced>>

Splice(m) == IF node[m].left # NULL THEN node[m].left ELSE node[m].right

\* attemptUnlink_nl gives up: m has two children, or is no child of up.
CannotUnlink(up, m) ==
    m \notin {node[up].left, node[up].right} \/ NULL \notin {node[m].left, node[m].right}

\* Its first half: m leaves the tree and is retired, though it does not look like it yet.
attemptUnlink_nl(t, up, m, label) ==
    /\ IF isUnlinked(up) \/ isUnlinked(m) \/ node[m].parent # up
       THEN Goto(t, "assert")
       ELSE Goto(t, label)
    /\ node' = [node EXCEPT ![up][IF node[up].left = m THEN "left" ELSE "right"] = Splice(m),
                            ![m].lock = t]
    /\ fate' = [fate EXCEPT ![m] = "limbo"]
    /\ graced' = [graced EXCEPT ![m] = {t}]
    /\ w' = [w EXCEPT ![t] = [Idle EXCEPT !.spine = <<up, m>>, !.focus = up]]

UnlinkGoesOn(m) == IF Splice(m) = NULL THEN "mark" ELSE "splice"

EraseNode(t) ==
    LET up == w[t].spine[1]
        m == Here(t)
    IN  /\ At(t, "node") /\ Free(m)
        /\ IF ~node[m].value
           THEN /\ Decide(t, "false")
                /\ node' = Unlocked(t, node) /\ UNCHANGED <<fate, graced>>
           ELSE IF CannotUnlink(up, m)
           THEN /\ BackUp(t)
                /\ node' = Unlocked(t, node) /\ UNCHANGED <<fate, graced>>
           ELSE /\ attemptUnlink_nl(t, up, m, UnlinkGoesOn(m))
                /\ res' = [res EXCEPT ![t] = "true"]
                /\ UNCHANGED <<op, arg>>

SpliceParent(t) ==
    LET m == w[t].spine[2]
    IN  /\ At(t, "splice") /\ Free(Splice(m))
        /\ node' = [node EXCEPT ![Splice(m)].parent = w[t].spine[1]]
        /\ Step(t, "mark", w[t])
        /\ UNCHANGED <<fate, graced>>

MarkUnlinked(t) ==
    /\ At(t, "mark")
    /\ node' = [node EXCEPT ![w[t].spine[2]].ovl = UnlinkedOVL]
    /\ Step(t, "clear", w[t])
    /\ UNCHANGED <<fate, graced>>

\* An erase unlocks the node then; a repair, whose node has had no value, keeps it locked.
ClearValue(t) ==
    LET m == w[t].spine[2]
    IN  /\ At(t, "clear")
        /\ node' = [node EXCEPT ![m].value = FALSE,
                                ![m].lock = IF node[m].value THEN NoThread ELSE t]
        /\ Step(t, "fix", w[t])
        /\ UNCHANGED <<fate, graced>>

-----------------------------------------------------------------------------
\* nodeCondition, of the six values it reads.
Condition(g) ==
    IF NULL \in {g[1], g[2]} /\ ~g[3] THEN "unlink"
    ELSE IF Apart(g[5], g[6]) THEN "rebalance"
    ELSE IF g[4] # 1 + Larger(g[5], g[6]) THEN "height"
    ELSE "nothing"

\* Of a node that is locked, only the heights below it can change.
LookLocked(t) ==
    LET n == node[w[t].focus]
    IN  /\ pc[t] \in {"fix", "rebalance", "weigh"} /\ w[t].got = <<>>
        /\ w' = [w EXCEPT ![t].got = <<n.left, n.right, n.value, n.height, height(n.left)>>]
        /\ UNCHANGED <<callVars, node, fate, graced>>

Looked(t, label) == At(t, label) /\ w[t].got # <<>>
Got(t) == Append(w[t].got, height(w[t].got[2]))

\* All locks are released, and a damaged node, if there is one, is next.
Finish(t, nodes, damaged) ==
    /\ node' = Unlocked(t, nodes)
    /\ IF damaged = NULL THEN Step(t, "return", Idle)
       ELSE Step(t, "damaged", [Idle EXCEPT !.focus = damaged])

\* The height above is in question.
Above(t, nodes, up) ==
    /\ node' = nodes
    /\ Step(t, "fix", [Idle EXCEPT !.focus = up])

fixHeight_nl(t) ==
    LET m == w[t].focus
        c == Condition(Got(t))
    IN  /\ Looked(t, "fix")
        /\ IF c = "height"
           THEN Finish(t, [node EXCEPT ![m].height = 1 + Larger(Got(t)[5], Got(t)[6])], node[m].parent)
           ELSE Finish(t, node, IF c = "nothing" THEN NULL ELSE m)
        /\ UNCHANGED <<fate, graced>>

\* fixHeightAndRebalance: a look at the damaged node without locks, one value after the other.
Damaged(t) ==
    /\ At(t, "damaged")
    /\ IF node[w[t].focus].parent = NULL THEN Step(t, "return", Idle) ELSE Step(t, "condition", w[t])
    /\ UNCHANGED <<node, fate, graced>>

LookNext(t) ==
    LET n == node[w[t].focus]
        g == w[t].got
        look(x) == Step(t, "condition", [w[t] EXCEPT !.got = Append(g, x)])
    IN  /\ At(t, "condition")
        /\ \/ Len(g) = 0 /\ look(n.left)
           \/ Len(g) = 1 /\ look(n.right)
           \/ Len(g) = 2 /\ look(n.value)
           \/ Len(g) = 3 /\ look(n.height)
           \/ Len(g) = 4 /\ look(height(g[1]))
           \/ Len(g) = 5 /\ IF Condition(Got(t)) = "nothing" THEN Step(t, "return", Idle)
                            ELSE look(height(g[2]))
        /\ UNCHANGED <<node, fate, graced>>

\* There is no point in fixing a node that is unlinked.
LookUnlinked(t) ==
    /\ At(t, "condition") /\ Len(w[t].got) = 6
    /\ IF isUnlinked(w[t].focus) THEN Step(t, "return", Idle)
       ELSE Step(t, IF Condition(w[t].got) = "height" THEN "lock" ELSE "up",
                 [Idle EXCEPT !.focus = w[t].focus])
    /\ UNCHANGED <<node, fate, graced>>

LockDamaged(t) ==
    LET m == w[t].focus
    IN  /\ At(t, "lock") /\ Free(m)
        /\ node' = Locked(t, m)
        /\ Step(t, "fix", w[t])
        /\ UNCHANGED <<fate, graced>>

ReadParent(t) ==
    /\ At(t, "up")
    /\ Step(t, "lock up", [w[t] EXCEPT !.spine = <<node[w[t].focus].parent>>])
    /\ UNCHANGED <<node, fate, graced>>

LockUp(t) ==
    LET up == w[t].spine[1]
    IN  /\ At(t, "lock up") /\ Free(up)
        /\ IF isUnlinked(up) \/ node[w[t].focus].parent # up
           THEN Step(t, "damaged", [Idle EXCEPT !.focus = w[t].focus]) /\ UNCHANGED node
           ELSE /\ node' = Locked(t, up)
                /\ Step(t, "lock down", w[t])
        /\ UNCHANGED <<fate, graced>>

LockDown(t) ==
    LET m == w[t].focus
    IN  /\ At(t, "lock down") /\ Free(m)
        /\ node' = Locked(t, m)
        /\ Step(t, "rebalance", [w[t] EXCEPT !.spine = Append(@, m)])
        /\ UNCHANGED <<fate, graced>>

rebalance_nl(t) ==
    LET up == w[t].spine[1]
        n == w[t].focus
        g == Got(t)
        c == Condition(g)
        s == IF g[5] > g[6] THEN "left" ELSE "right"
    IN  /\ Looked(t, "rebalance")
        /\ \/ /\ c = "unlink" /\ ~CannotUnlink(up, n)
              /\ attemptUnlink_nl(t, up, n, UnlinkGoesOn(n))
              /\ UNCHANGED <<op, arg, res>>
           \/ /\ c = "rebalance"
              /\ Step(t, "lock big",
                      [Idle EXCEPT !.spine = Append(w[t].spine, node[n][s]),
                                   !.far = IF s = "left" THEN g[6] ELSE g[5]])
              /\ UNCHANGED <<node, fate, graced>>
           \/ /\ c = "height"
              /\ Above(t, [node EXCEPT ![n].height = 1 + Larger(g[5], g[6])], up)
              /\ UNCHANGED <<fate, graced>>
           \/ /\ c = "nothing" \/ (c = "unlink" /\ CannotUnlink(up, n))
              /\ Finish(t, node, IF c = "nothing" THEN NULL ELSE n)
              /\ UNCHANGED <<fate, graced>>

-----------------------------------------------------------------------------
\* A rotation is about the last nodes of the spine: parent, n, its child that is too big, and
\* that one's inner child.  rebalanceToRight_nl and rotateRight_nl are those where the big child
\* is on the left, rebalanceToLeft_nl and rotateLeft_nl the same in the mirror.
BigSide(nodes, n, big) == IF nodes[n].left = big THEN "left" ELSE "right"

\* The first question of rebalanceTo..._nl: is the locked child too big?
Consider(t, nodes, spine, far) ==
    LET big == spine[Len(spine)]
    IN  IF nodes[big].height - far <= 1
        THEN Finish(t, nodes, spine[Len(spine) - 1])
        ELSE /\ node' = nodes
             /\ Step(t, "weigh", [Idle EXCEPT !.spine = spine, !.focus = big, !.far = far])

LockBig(t) ==
    LET big == w[t].spine[Len(w[t].spine)]
    IN  /\ At(t, "lock big") /\ Free(big)
        /\ Consider(t, Locked(t, big), w[t].spine, w[t].far)
        /\ UNCHANGED <<fate, graced>>

Shrinking(nodes, m) == <<m, "ovl", [nodes[m].ovl EXCEPT !.state = "shrinking"]>>
Growing(nodes, m) == <<m, "ovl", [nodes[m].ovl EXCEPT !.state = "growing"]>>
Shrunk(nodes, m) == <<m, "ovl", [nodes[m].ovl EXCEPT !.shrinks = @ + 1]>>
Grown(nodes, m) == <<m, "ovl", nodes[m].ovl>>
StoresTo(ms) == SelectSeq(ms, LAMBDA st : st[1] # NULL)

\* The stores come one after the other, and after the last all that is left is to unlock.
Rotate(t, nodes, moved, stores, tainted, up) ==
    /\ node' = nodes
    /\ Step(t, IF \A m \in moved : nodes[m].ovl.state = "still" THEN "store" ELSE "assert",
            [Idle EXCEPT !.todo = StoresTo(stores), !.settled = (tainted = NULL),
                         !.focus = IF tainted = NULL THEN up ELSE tainted])

Single(t, nodes, up, n, big, hFar, hOuter, hInner) ==
    LET s == BigSide(nodes, n, big)
        i == nodes[big][Other[s]]
        hN == 1 + Larger(hInner, hFar)
    IN  Rotate(t, nodes, {n, big},
            << Shrinking(nodes, n), Growing(nodes, big),
               <<n, s, i>>, <<big, Other[s], n>>, <<up, BigSide(nodes, up, n), big>>,
               <<big, "parent", up>>, <<n, "parent", big>>, <<i, "parent", n>>,
               <<n, "height", hN>>, <<big, "height", 1 + Larger(hOuter, hN)>>,
               Grown(nodes, big), Shrunk(nodes, n) >>,
            IF Apart(hInner, hFar) THEN n ELSE IF Apart(hOuter, hN) THEN big ELSE NULL, up)

Double(t, up, n, big, i, hFar, hOuter, hNear, hOther) ==
    LET s == BigSide(node, n, big)
        hN == 1 + Larger(hOther, hFar)
        hBig == 1 + Larger(hOuter, hNear)
    IN  Rotate(t, node, {n, big, i},
            << Shrinking(node, n), Shrinking(node, big), Growing(node, i),
               <<n, s, node[i][Other[s]]>>, <<big, Other[s], node[i][s]>>,
               <<i, s, big>>, <<i, Other[s], n>>, <<up, BigSide(node, up, n), i>>,
               <<i, "parent", up>>, <<big, "parent", i>>, <<n, "parent", i>>,
               <<node[i][Other[s]], "parent", n>>, <<node[i][s], "parent", big>>,
               <<n, "height", hN>>, <<big, "height", hBig>>, <<i, "height", 1 + Larger(hBig, hN)>>,
               Grown(node, i), Shrunk(node, big), Shrunk(node, n) >>,
            IF Apart(hOther, hFar) THEN n ELSE IF Apart(hBig, hN) THEN i ELSE NULL, up)

\* The heights below the big child decide between a single rotation and more.
Weigh(t) ==
    LET sp == w[t].spine
        big == w[t].focus
        s == BigSide(node, sp[Len(sp) - 1], big)
        g == Got(t)
        outer == IF s = "left" THEN g[5] ELSE g[6]
        inner == IF s = "left" THEN g[6] ELSE g[5]
    IN  /\ Looked(t, "weigh")
        /\ IF node[big][Other[s]] = NULL
           THEN Single(t, node, sp[Len(sp) - 2], sp[Len(sp) - 1], big, w[t].far, outer, 0)
           ELSE /\ Step(t, "lock inner",
                        [Idle EXCEPT !.spine = Append(sp, node[big][Other[s]]), !.far = w[t].far,
                                     !.outer = outer, !.inner = inner])
                /\ UNCHANGED node
        /\ UNCHANGED <<fate, graced>>

\* A single rotation goes by the height the inner child had before it was locked, if that
\* was small enough.
LockInner(t) ==
    LET sp == w[t].spine
        i == sp[Len(sp)]
        hInner == IF w[t].outer >= w[t].inner THEN w[t].inner ELSE node[i].height
    IN  /\ At(t, "lock inner") /\ Free(i)
        /\ IF w[t].outer >= hInner
           THEN Single(t, Locked(t, i), sp[Len(sp) - 3], sp[Len(sp) - 2], sp[Len(sp) - 1],
                       w[t].far, w[t].outer, hInner)
           ELSE node' = Locked(t, i) /\ Step(t, "near", w[t])
        /\ UNCHANGED <<fate, graced>>

\* A double rotation, unless it would leave the big child out of balance: then that one is
\* rotated first, the other way.
Near(t) ==
    LET sp == w[t].spine
        i == sp[Len(sp)]
        big == sp[Len(sp) - 1]
        hNear == height(node[i][BigSide(node, sp[Len(sp) - 2], big)])
    IN  /\ At(t, "near")
        /\ IF Apart(w[t].outer, hNear)
           THEN Consider(t, node, sp, w[t].outer)
           ELSE Step(t, "double", [w[t] EXCEPT !.inner = hNear]) /\ UNCHANGED node
        /\ UNCHANGED <<fate, graced>>

RotateTwice(t) ==
    LET sp == w[t].spine
        i == sp[Len(sp)]
        big == sp[Len(sp) - 1]
        n == sp[Len(sp) - 2]
    IN  /\ At(t, "double")
        /\ Double(t, sp[Len(sp) - 3], n, big, i, w[t].far, w[t].outer, w[t].inner,
                  height(node[i][Other[BigSide(node, n, big)]]))
        /\ UNCHANGED <<fate, graced>>

Store(t) ==
    LET st == Head(w[t].todo)
        stored == [node EXCEPT ![st[1]][st[2]] = st[3]]
    IN  /\ At(t, "store")
        /\ IF Len(w[t].todo) > 1
           THEN node' = stored /\ Step(t, "store", [w[t] EXCEPT !.todo = Tail(@)])
           ELSE IF w[t].settled THEN Above(t, stored, w[t].focus)
           ELSE Finish(t, stored, w[t].focus)
        /\ UNCHANGED <<fate, graced>>

-----------------------------------------------------------------------------
InGuard == {t \in Threads : pc[t] # "idle"}

\* A plausible slip: what a call has retired is free when the call returns.
ReturnFreesAtOnce(t) ==
    /\ Return(t)
    /\ fate' = [m \in Cells |-> IF fate[m] = "limbo" /\ t \in graced[m] THEN "retired" ELSE fate[m]]
    /\ graced' = [m \in Cells |-> graced[m] \ {t}]
    /\ UNCHANGED <<node, w>>

\* The call's guard ends.  What it has retired waits for the guards that have begun before: the
\* epoch cannot pass the next one before the call ends, and its bag is freed two epochs later.
AvlReturn(t) ==
    /\ Return(t)
    /\ fate' = [m \in Cells |-> IF fate[m] = "limbo" /\ t \in graced[m] THEN "retired" ELSE fate[m]]
    /\ graced' = [m \in Cells |-> (IF fate[m] = "limbo" /\ t \in graced[m] THEN InGuard ELSE graced[m]) \ {t}]
    /\ UNCHANGED <<node, w>>

\* The reclaimer frees a node.
AvlFree(m) ==
    /\ fate[m] = "retired" /\ graced[m] = {}
    /\ fate' = [fate EXCEPT ![m] = "free"]
    /\ node' = [node EXCEPT ![m] = NoNode]
    /\ UNCHANGED <<callVars, graced, w>>

AvlWork(t) ==
    \/ ReadChild(t) \/ Validate(t) \/ ReadValue(t) \/ ReadVersion(t)
    \/ waitUntilChangeCompleted(t) \/ Reread(t) \/ Recheck(t) \/ Confirm(t)
    \/ InsertLeaf(t) \/ EraseLooks(t) \/ UpdateInPlace(t) \/ LockParent(t) \/ EraseNode(t)
    \/ SpliceParent(t) \/ MarkUnlinked(t) \/ ClearValue(t)
    \/ LookLocked(t) \/ fixHeight_nl(t) \/ Damaged(t) \/ LookNext(t) \/ LookUnlinked(t)
    \/ LockDamaged(t) \/ ReadParent(t) \/ LockUp(t) \/ LockDown(t) \/ rebalance_nl(t)
    \/ LockBig(t) \/ Weigh(t) \/ LockInner(t) \/ Near(t) \/ RotateTwice(t) \/ Store(t)
    \/ AvlReturn(t)

-----------------------------------------------------------------------------
AvlPlaces == {"validate", "value", "version", "wait", "reread", "recheck", "confirm", "place",
              "in place", "erase", "left", "right", "parent", "node", "splice", "mark", "clear",
              "fix", "damaged", "condition", "lock", "up", "lock up", "lock down", "rebalance",
              "lock big", "weigh", "lock inner", "near", "double", "store"}

AvlTypeOK ==
    LET ref == Spots \cup {NULL}
        ovls == [state : {"still", "shrinking", "growing", "unlinked"}, shrinks : Nat]
    IN  /\ \A m \in Spots :
              /\ node[m].key \in Nat /\ node[m].value \in BOOLEAN /\ node[m].height \in Nat
              /\ {node[m].left, node[m].right, node[m].parent} \subseteq ref
              /\ node[m].ovl \in ovls /\ node[m].lock \in Threads \cup {NoThread}
        /\ fate \in [Cells -> {"free", "linked", "limbo", "retired"}]
        /\ graced \in [Cells -> SUBSET Threads]
        /\ \A t \in Threads :
              /\ w[t].path \in Seq([at : Spots, shrinks : Nat]) /\ w[t].spine \in Seq(Spots)
              /\ {w[t].child, w[t].focus} \subseteq ref /\ w[t].version \in ovls
              /\ {w[t].far, w[t].outer, w[t].inner} \subseteq Nat /\ w[t].settled \in BOOLEAN

\* The nodes in the hands of a thread.
Hands(t) ==
    {frame.at : frame \in Range(w[t].path)} \cup Range(w[t].spine)
        \cup {w[t].child, w[t].focus} \cup {w[t].got[i] : i \in DOMAIN w[t].got \cap {1, 2}}
        \cup {st[1] : st \in Range(w[t].todo)}

AvlReachable ==
    LET within[i \in 0 .. Cardinality(Cells)] ==
            IF i = 0 THEN {Holder}
            ELSE (within[i - 1] \cup {node[m].left : m \in within[i - 1]}
                                \cup {node[m].right : m \in within[i - 1]}) \ {NULL}
    IN  within[Cardinality(Cells)]

AllIdle == \A t \in Threads : At(t, "idle")

\* Nobody has a node in hand that has been freed, though a node is retired before it looks unlinked.
\* When all calls have returned, the tree is in order again whatever rotations have met: the
\* parents are those of the children, no lock is left behind, and by the heights that the
\* nodes have, no node is out of balance (ccavl_impl.h:922-980, 1020-1057, 1258-1276).
AvlIsSound ==
    /\ \A t \in Threads : Hands(t) \cap Without = {}
    /\ AllIdle =>
          /\ AvlReachable \ {Holder} = Linked
          /\ \A m \in Linked : m \in {node[node[m].parent].left, node[node[m].parent].right}
          /\ \A m \in Spots : Free(m)
          /\ \A m \in Linked : ~Apart(height(node[m].left), height(node[m].right))

\* Since any thread that changes a node promises to fix it, either our read was consistent (and a
\* NothingRequired conclusion is correct) or someone else has taken responsibility for either
\* node or one of its children (ccavl_impl.h:1005-1009): when all calls have returned there is
\* nobody left to be responsible, and every height is right.
DamageIsRepaired ==
    AllIdle => \A m \in Linked :
        node[m].height = 1 + Larger(height(node[m].left), height(node[m].right))
=============================================================================
