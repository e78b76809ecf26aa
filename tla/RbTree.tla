------------------------------- MODULE RbTree -------------------------------
(***************************************************************************)
(* The red-black tree of rb.c: table operations (rb_probe, rb_insert,      *)
(* rb_replace, rb_delete, rb_find), traversers with their stack of parent  *)
(* pointers, rb_copy with its error recovery, and rb_destroy.              *)
(*                                                                         *)
(* A tree is a record of functions on node addresses.  The two mirrored    *)
(* halves of every loop of the source are one definition over a direction  *)
(* d and 1 - d.  The address of a node is the key it was allocated for:    *)
(* the code compares addresses for equality only, and a tree never has two *)
(* nodes of one key.  Items are pointers; two items with the same key      *)
(* compare equal and are still different pointers.                         *)
(*                                                                         *)
(* The model has two parts.  In one the caller uses every operation on a   *)
(* tree of a few fixed keys.  In the other it only inserts and deletes, in *)
(* larger trees: rb.c knows of a key nothing but how it compares to others *)
(* and of an address nothing but whether it equals another, so that trees  *)
(* that differ by an order preserving renumbering of both behave alike,    *)
(* and after every call the keys are renumbered to be 1, 2 and so on.      *)
(***************************************************************************)
EXTENDS Integers, Sequences, FiniteSets, SequencesExt

CONSTANTS
    Items,       \* records [key, id]
    Travs,       \* traversers
    MaxNodes,    \* bound: nodes of a renumbered tree
    NULL,
    Junk         \* what a malloc'ed field holds before it is assigned

Ranks == 1 .. MaxNodes
RankItem(k) == [key |-> k, id |-> 0]

ASSUME ItemsAssumption == \A i \in Items : i.key \in Nat \ {0}

RB_BLACK == "black"
RB_RED == "red"

\* (struct rb_node *) &tree->rb_root: a node of which only rb_link[0] exists.
RootAddr == 0

VARIABLES
    tree,        \* rb_root (link[RootAddr][0]), the nodes, rb_count
    trav,        \* traversers: rb_node, rb_stack up to rb_height, and whether
                 \* rb_generation equals the tree's
    copied,      \* outcome of the last rb_copy, until one of the trees is destroyed
    items,       \* ghost: the items the caller believes to be in the table
    ranked       \* the part of the model: the keys are renumbered

vars == <<tree, trav, copied, items, ranked>>

\* The items the caller has, and their keys.
Universe == IF ranked THEN {RankItem(k) : k \in Ranks} ELSE Items
Keys == {i.key : i \in Universe}

\* No memory at the address.
Free == [link |-> [d \in 0..1 |-> NULL], data |-> NULL, color |-> RB_BLACK]

\* rb_create.
rb_create == [node |-> [n \in {RootAddr} \cup Keys |-> Free], count |-> 0]

Link(t, n, d) == t.node[n].link[d]
Root(t) == Link(t, RootAddr, 0)
SetLink(t, n, d, m) == [t EXCEPT !.node[n].link[d] = m]
Color(t, n) == t.node[n].color
Paint(t, n, c) == [t EXCEPT !.node[n].color = c]
IsRed(t, n) == n # NULL /\ Color(t, n) = RB_RED
Data(t, n) == IF n = NULL THEN NULL ELSE t.node[n].data

\* The direction cmp > 0 that the comparison of two items gives.
Dir(a, b) == IF a.key > b.key THEN 1 ELSE 0

-----------------------------------------------------------------------------
(* Descents *)

\* The pairs (pa[i], da[i]) from below `st' down to `item' or to the null link
\* where it belongs.
RECURSIVE Descend(_, _, _)
Descend(t, item, st) ==
    LET p == Link(t, Last(st).node, Last(st).dir) IN
    IF p = NULL \/ Data(t, p).key = item.key
    THEN st
    ELSE Descend(t, item, Append(st, [node |-> p, dir |-> Dir(item, Data(t, p))]))

SearchPath(t, item) == Descend(t, item, <<[node |-> RootAddr, dir |-> 0]>>)
NodeBelow(t, st) == Link(t, Last(st).node, Last(st).dir)

\* The node rb_find, rb_probe and rb_delete stop at.
NodeOf(t, item) == NodeBelow(t, SearchPath(t, item))

\* rb_find.
rb_find(t, item) == Data(t, NodeOf(t, item))

\* Down the links d from x: the nodes passed, and where it ends.
RECURSIVE Spine(_, _, _, _)
Spine(t, x, d, stack) ==
    IF Link(t, x, d) = NULL
    THEN [node |-> x, stack |-> stack]
    ELSE Spine(t, Link(t, x, d), d, Append(stack, x))

-----------------------------------------------------------------------------
(* Insertion *)

\* Mutant of Rotate: the subtree between the two nodes is not handed over.
RotateDropsInner(t, up, x, d) ==
    LET y == Link(t, x, d) IN
    SetLink(SetLink(SetLink(t, x, d, NULL), y, 1 - d, x), up.node, up.dir, y)

\* Lift x's child in direction d into x's place below `up'.
Rotate(t, up, x, d) ==
    LET y == Link(t, x, d) IN
    SetLink(SetLink(SetLink(t, x, d, Link(t, y, 1 - d)), y, 1 - d, x), up.node, up.dir, y)

\* Mutant of ProbeFix: a red uncle is repainted, but the walk goes up one level only.
RECURSIVE ProbeFixOneUp(_, _)
ProbeFixOneUp(t, st) ==
    LET k == Len(st) IN
    IF ~(k >= 3 /\ IsRed(t, st[k].node)) THEN t ELSE
    LET d == st[k - 1].dir
        g == st[k - 1].node
        uncle == Link(t, g, 1 - d)
    IN  IF IsRed(t, uncle)
        THEN ProbeFixOneUp(Paint(Paint(Paint(t, st[k].node, RB_BLACK), uncle, RB_BLACK), g, RB_RED),
                           SubSeq(st, 1, k - 1))
        ELSE LET t1 == IF st[k].dir = d THEN t
                       ELSE Rotate(t, st[k - 1], st[k].node, 1 - d)
                 y == Link(t1, g, d)
             IN  Rotate(Paint(Paint(t1, g, RB_RED), y, RB_BLACK), st[k - 2], g, d)

\* The loop of rb_probe: the node below st is red, and so may be its parent.
RECURSIVE ProbeFix(_, _)
ProbeFix(t, st) ==
    LET k == Len(st) IN
    IF ~(k >= 3 /\ IsRed(t, st[k].node)) THEN t ELSE
    LET d == st[k - 1].dir
        g == st[k - 1].node
        uncle == Link(t, g, 1 - d)
    IN  IF IsRed(t, uncle)
        THEN ProbeFix(Paint(Paint(Paint(t, st[k].node, RB_BLACK), uncle, RB_BLACK), g, RB_RED),
                      SubSeq(st, 1, k - 2))
        ELSE LET t1 == IF st[k].dir = d THEN t
                       ELSE Rotate(t, st[k - 1], st[k].node, 1 - d)
                 y == Link(t1, g, d)
             IN  Rotate(Paint(Paint(t1, g, RB_RED), y, RB_BLACK), st[k - 2], g, d)

\* rb_probe of an item that is not in the tree, when malloc gives a node.
rb_probe(t, item) ==
    LET st == SearchPath(t, item)
        n == item.key
        t1 == [SetLink(t, Last(st).node, Last(st).dir, n) EXCEPT
                  !.node[n] = [Free EXCEPT !.data = item, !.color = RB_RED],
                  !.count = @ + 1]
        t2 == ProbeFix(t1, st)
    IN  Paint(t2, Root(t2), RB_BLACK)

-----------------------------------------------------------------------------
(* Deletion *)

BlackOrNull(t, n) == ~IsRed(t, n)

\* The loop of rb_delete: the subtree below st is one black node short.
RECURSIVE DeleteFix(_, _)
DeleteFix(t, st) ==
    LET k == Len(st)
        x == NodeBelow(t, st)
    IN  IF IsRed(t, x) THEN Paint(t, x, RB_BLACK)
        ELSE IF k < 2 THEN t
        ELSE
        LET d == st[k].dir
            p == st[k].node
            w0 == Link(t, p, 1 - d)
            \* A red sibling is lifted, and p is one level deeper.
            t1 == IF IsRed(t, w0)
                  THEN Rotate(Paint(Paint(t, w0, RB_BLACK), p, RB_RED), st[k - 1], p, 1 - d)
                  ELSE t
            st1 == IF IsRed(t, w0)
                   THEN Append([st EXCEPT ![k].node = w0], st[k])
                   ELSE st
            w1 == Link(t1, p, 1 - d)
        IN  IF BlackOrNull(t1, Link(t1, w1, 0)) /\ BlackOrNull(t1, Link(t1, w1, 1))
            THEN DeleteFix(Paint(t1, w1, RB_RED), Front(st1))
            ELSE LET inner == BlackOrNull(t1, Link(t1, w1, 1 - d))
                     y == Link(t1, w1, d)
                     t2 == IF inner
                           THEN Rotate(Paint(Paint(t1, y, RB_BLACK), w1, RB_RED),
                                       [node |-> p, dir |-> 1 - d], w1, d)
                           ELSE t1
                     w == IF inner THEN y ELSE w1
                     t3 == Paint(Paint(Paint(t2, w, Color(t2, p)), p, RB_BLACK),
                                 Link(t2, w, 1 - d), RB_BLACK)
                 IN  Rotate(t3, st1[Len(st1) - 1], p, 1 - d)

\* rb_delete takes p out: p's left subtree or p's successor s comes in its place.
\* The colour is the one that leaves the tree with p; st ends above the link where
\* it is missing.
Unlink(t, p, st) ==
    LET left == Link(t, p, 0)
        r == Link(t, p, 1)
    IN  IF r = NULL
        THEN [t |-> SetLink(t, Last(st).node, Last(st).dir, left), st |-> st, color |-> Color(t, p)]
        ELSE
        LET down == Spine(t, r, 0, <<>>)
            s == down.node
            above == [i \in 1 .. Len(down.stack) |-> [node |-> down.stack[i], dir |-> 0]]
            t1 == IF s = r THEN t
                  ELSE SetLink(SetLink(t, Last(down.stack), 0, Link(t, s, 1)), s, 1, r)
            t2 == SetLink(SetLink(t1, s, 0, left), Last(st).node, Last(st).dir, s)
        IN  [t |-> Paint(t2, s, Color(t, p)),
             st |-> Append(st, [node |-> s, dir |-> 1]) \o above,
             color |-> Color(t, s)]

\* rb_delete of an item that is in the tree.
rb_delete(t, item) ==
    LET st == SearchPath(t, item)
        p == NodeBelow(t, st)
        u == Unlink(t, p, st)
        t1 == IF u.color = RB_BLACK THEN DeleteFix(u.t, u.st) ELSE u.t
    IN  [t1 EXCEPT !.node[p] = Free, !.count = @ - 1]

-----------------------------------------------------------------------------
(* rb_destroy and rb_copy *)

\* rb_destroy from p on: left links are rotated away, nodes without one are freed.
RECURSIVE Destroy(_, _, _)
Destroy(t, p, out) ==
    IF p = NULL THEN out
    ELSE LET q == Link(t, p, 0) IN
         IF q = NULL
         THEN Destroy(t, Link(t, p, 1),
                      [destroyed |-> IF Data(t, p) = NULL THEN out.destroyed
                                     ELSE Append(out.destroyed, Data(t, p)),
                       freed |-> out.freed \cup {p}])
         ELSE Destroy(SetLink(SetLink(t, p, 0, Link(t, q, 1)), q, 1, p), q, out)

rb_destroy(t) == Destroy(t, Root(t), [destroyed |-> <<>>, freed |-> {}])

\* malloc: every field holds what was in the memory.
Malloced(junk) == [link |-> [d \in 0..1 |-> junk], data |-> junk, color |-> junk]

\* A copy in the making: the new tree, the items copied and the nodes allocated so
\* far, how many more calls of malloc and copy succeed, and (ghost) the nodes whose
\* rb_data is not assigned when it fails.
NewCopy(calls) == [t |-> rb_create, made |-> <<>>, malloced |-> {}, calls |-> calls, unset |-> {}]
NoCopy == [t |-> rb_create, made |-> <<>>, malloced |-> {}, unset |-> {}, destroyed |-> <<>>,
           freed |-> {}, ok |-> FALSE]

Copied(c, out, ok) == [t |-> IF ok THEN c.t ELSE rb_create, made |-> c.made,
                       malloced |-> c.malloced, unset |-> c.unset, destroyed |-> out.destroyed,
                       freed |-> out.freed, ok |-> ok]

\* Mutant of copy_error_recovery: the right links above are cut, nodes and items leak.
RecoverLeaks(stack, c) == Copied(c, [destroyed |-> <<>>, freed |-> {}], FALSE)

\* copy_error_recovery: stack[0] is the address of the root and has no right link.
\* rb_data of the nodes above is what malloc left there.
copy_error_recovery(stack, c) ==
    LET above == ToSet(Tail(stack)) IN
    Copied([c EXCEPT !.unset = {n \in above : Data(c.t, n) # NULL}],
           rb_destroy([c.t EXCEPT !.node = [n \in DOMAIN @ |->
                              IF n \in above THEN [@[n] EXCEPT !.link[1] = NULL] ELSE @[n]]]),
           FALSE)

\* Append node m below y in direction d.
Grow(c, y, d, m, junk) ==
    [SetLink(c.t, y, d, m) EXCEPT !.node[m] = Malloced(junk)]

\* The two loops of rb_copy.  A node of the new tree has the address of the node it
\* is a copy of, so that the pairs (x, y) on the stack are single addresses.
RECURSIVE CopyDown(_, _, _, _, _), CopyUp(_, _, _, _, _)
CopyDown(org, x, stack, c, junk) ==
    LET m == Link(org, x, 0) IN
    IF m = NULL THEN CopyUp(org, x, stack, [c EXCEPT !.t = SetLink(@, x, 0, NULL)], junk)
    ELSE IF c.calls = 0
    THEN LET t1 == SetLink(c.t, x, 0, NULL) IN
         IF x = RootAddr THEN Copied(c, rb_destroy(t1), FALSE)
         ELSE copy_error_recovery(stack,
                  [c EXCEPT !.t = [SetLink(t1, x, 1, NULL) EXCEPT !.node[x].data = NULL]])
    ELSE CopyDown(org, m, Append(stack, x),
                  [c EXCEPT !.t = Grow(c, x, 0, m, junk), !.malloced = @ \cup {m},
                            !.calls = @ - 1], junk)
CopyUp(org, x, stack, c0, junk) ==
    LET m == Link(org, x, 1)
        c == [c0 EXCEPT !.t.node[x].color = Color(org, x)]
        c1 == [c EXCEPT !.t.node[x].data = Data(org, x), !.made = Append(@, Data(org, x)),
                        !.calls = @ - 1]
    IN  IF c.calls = 0
        THEN copy_error_recovery(stack,
                 [c EXCEPT !.t = [SetLink(@, x, 1, NULL) EXCEPT !.node[x].data = NULL]])
        ELSE IF m = NULL
        THEN LET c2 == [c1 EXCEPT !.t = SetLink(@, x, 1, NULL)] IN
             IF Len(stack) <= 1
             THEN Copied(c2, [destroyed |-> <<>>, freed |-> {}], TRUE)
             ELSE CopyUp(org, Last(stack), Front(stack), c2, junk)
        ELSE IF c1.calls = 0
        THEN copy_error_recovery(stack, [c1 EXCEPT !.t = SetLink(@, x, 1, NULL)])
        ELSE CopyDown(org, m, stack,
                      [c1 EXCEPT !.t = Grow(c1, x, 1, m, junk), !.malloced = @ \cup {m},
                                 !.calls = @ - 1], junk)

\* rb_copy (rb_create included, whose failure leaves nothing to destroy).
rb_copy(org, calls, junk) ==
    IF org.count = 0
    THEN Copied(NewCopy(calls), [destroyed |-> <<>>, freed |-> {}], TRUE)
    ELSE LET c == CopyDown(org, RootAddr, <<>>, NewCopy(calls), junk)
         IN  IF c.ok THEN [c EXCEPT !.t.count = org.count] ELSE c

-----------------------------------------------------------------------------
(* Traversers *)

NullTrav == [node |-> NULL, stack |-> <<>>, fresh |-> TRUE]

\* rb_t_first (d = 0) and rb_t_last (d = 1).
Extreme(t, d) ==
    IF Root(t) = NULL THEN NullTrav
    ELSE LET down == Spine(t, Root(t), d, <<>>) IN
         [node |-> down.node, stack |-> down.stack, fresh |-> TRUE]

\* The nodes above the one that st ends at.
NodesAbove(st) == [i \in 1 .. Len(st) - 1 |-> st[i + 1].node]

\* Mutant of trav_refresh: the old stack is kept.
RefreshKeepsStack(t, v) == [v EXCEPT !.fresh = TRUE]

\* trav_refresh, called when the tree has changed since the stack was built.
trav_refresh(t, v) ==
    IF v.node = NULL THEN [v EXCEPT !.fresh = TRUE]
    ELSE [v EXCEPT !.fresh = TRUE, !.stack = NodesAbove(SearchPath(t, Data(t, v.node)))]

\* Up the stack while y is the child in direction d.
RECURSIVE Climb(_, _, _, _)
Climb(t, y, stack, d) ==
    IF stack = <<>> THEN NullTrav
    ELSE IF y = Link(t, Last(stack), d)
    THEN Climb(t, Last(stack), Front(stack), d)
    ELSE [node |-> Last(stack), stack |-> Front(stack), fresh |-> TRUE]

\* rb_t_next (d = 1) and rb_t_prev (d = 0).
Step(t, v0, d) ==
    LET v == IF v0.fresh THEN v0 ELSE trav_refresh(t, v0)
        x == v.node
    IN  IF x = NULL THEN Extreme(t, 1 - d)
        ELSE IF Link(t, x, d) = NULL THEN Climb(t, x, v.stack, d)
        ELSE LET down == Spine(t, Link(t, x, d), 1 - d, Append(v.stack, x)) IN
             [node |-> down.node, stack |-> down.stack, fresh |-> TRUE]

\* A traverser whose generation is not the tree's.  Its stack is forgotten: rb_t_next,
\* rb_t_prev and rb_t_copy read a stack only when the generations are equal.
Outdated(v) == [v EXCEPT !.fresh = FALSE, !.stack = <<>>]

\* rb_generation grows: no traverser's generation equals it any more.
AllOutdated == [v \in Travs |-> Outdated(trav[v])]

-----------------------------------------------------------------------------
(* The caller *)

Init ==
    /\ ranked \in BOOLEAN
    /\ tree = rb_create
    /\ trav = [v \in Travs |-> NullTrav]
    /\ copied = NoCopy
    /\ items = {}

\* The first part.  A copy shares nothing with its original; the caller deals with it
\* first.
NoneCopied == ~ranked /\ copied = NoCopy

Absent(item) == NodeOf(tree, item) = NULL
Same(item) == {i \in items : i.key = item.key}

\* rb_insert, and rb_assert_insert: a duplicate, or no memory, changes nothing.
rb_insert(item) ==
    /\ NoneCopied
    /\ \/ /\ Absent(item)
          /\ tree' = rb_probe(tree, item)
          /\ trav' = AllOutdated
          /\ items' = items \cup {item}
          /\ UNCHANGED <<copied, ranked>>
       \/ UNCHANGED vars

\* rb_replace of a duplicate; without one it is rb_insert.
rb_replace(item) ==
    /\ NoneCopied
    /\ ~Absent(item)
    /\ tree' = [tree EXCEPT !.node[NodeOf(tree, item)].data = item]
    /\ items' = (items \ Same(item)) \cup {item}
    /\ UNCHANGED <<trav, copied, ranked>>

\* rb_delete and rb_assert_delete.  The node a traverser stands on is not deleted
\* under it: its pointer would dangle.
Delete(item) ==
    /\ NoneCopied
    /\ ~Absent(item)
    /\ \A v \in Travs : trav[v].node # NodeOf(tree, item)
    /\ tree' = rb_delete(tree, item)
    /\ trav' = AllOutdated
    /\ items' = items \ Same(item)
    /\ UNCHANGED <<copied, ranked>>

Move(v, to) ==
    /\ NoneCopied
    /\ trav' = [trav EXCEPT ![v] = to]
    /\ UNCHANGED <<tree, copied, items, ranked>>

rb_t_init(v) == Move(v, NullTrav)
rb_t_first(v) == Move(v, Extreme(tree, 0))
rb_t_last(v) == Move(v, Extreme(tree, 1))
rb_t_next(v) == Move(v, Step(tree, trav[v], 1))
rb_t_prev(v) == Move(v, Step(tree, trav[v], 0))

rb_t_find(v, item) ==
    Move(v, IF Absent(item) THEN NullTrav
            ELSE [node |-> NodeOf(tree, item), fresh |-> TRUE,
                  stack |-> NodesAbove(SearchPath(tree, item))])

\* rb_t_insert: rb_generation - 1 is no generation of the tree, so that the next
\* move refreshes.  Without memory it is rb_t_init.
rb_t_insert(v, item) ==
    /\ NoneCopied
    /\ tree' = IF Absent(item) THEN rb_probe(tree, item) ELSE tree
    /\ trav' = [IF Absent(item) THEN AllOutdated ELSE trav EXCEPT
                   ![v] = Outdated([@ EXCEPT !.node = NodeOf(tree', item)])]
    /\ items' = IF Absent(item) THEN items \cup {item} ELSE items
    /\ UNCHANGED <<copied, ranked>>

\* rb_t_copy: the stack is only taken over when it is up to date.
rb_t_copy(v, src) ==
    Move(v, IF trav[src].fresh THEN trav[src]
            ELSE Outdated([trav[v] EXCEPT !.node = trav[src].node]))

\* rb_t_replace by an item that does not upset the order.
rb_t_replace(v, item) ==
    /\ NoneCopied
    /\ trav[v].node # NULL /\ Data(tree, trav[v].node).key = item.key
    /\ tree' = [tree EXCEPT !.node[trav[v].node].data = item]
    /\ items' = (items \ Same(item)) \cup {item}
    /\ UNCHANGED <<trav, copied, ranked>>

\* rb_copy fails at any call of malloc or copy, or not at all.  It reads no traverser:
\* the model copies while they are at rest.
Copy ==
    /\ NoneCopied
    /\ \A v \in Travs : trav[v] = NullTrav
    /\ \E calls \in 0 .. 2 * tree.count, junk \in {NULL, Junk} :
          copied' = rb_copy(tree, calls, junk)
    /\ UNCHANGED <<tree, trav, items, ranked>>

\* The caller destroys the copy, or forgets the failure.
DropCopy ==
    /\ copied # NoCopy
    /\ copied' = NoCopy
    /\ UNCHANGED <<tree, trav, items, ranked>>

\* The caller destroys the original and goes on with the copy.
KeepCopy ==
    /\ copied.ok
    /\ tree' = copied.t
    /\ trav' = [v \in Travs |-> NullTrav]
    /\ copied' = NoCopy
    /\ UNCHANGED <<items, ranked>>

\* The second part.  The nodes and their keys are renumbered: new[n] for old n.
Renumber(t, new) ==
    LET old(m) == {n \in DOMAIN new : new[n] = m}
    IN  [t EXCEPT !.node = [m \in DOMAIN @ |->
            IF old(m) = {} THEN Free
            ELSE LET n == t.node[CHOOSE n \in old(m) : TRUE] IN
                 [n EXCEPT !.link = [d \in 0..1 |-> IF @[d] = NULL THEN NULL ELSE new[@[d]]],
                           !.data = IF @ = NULL THEN NULL ELSE RankItem(m)]]]

\* rb_insert of a new item that is the k-th in the order.
InsertRank(k) ==
    /\ ranked
    /\ tree.count < MaxNodes /\ k <= tree.count + 1
    /\ tree' = rb_probe(Renumber(tree, [n \in 0 .. tree.count |-> IF n < k THEN n ELSE n + 1]),
                        RankItem(k))
    /\ items' = {RankItem(n) : n \in 1 .. tree.count + 1}
    /\ UNCHANGED <<trav, copied, ranked>>

\* rb_delete of the k-th item.
DeleteRank(k) ==
    /\ ranked
    /\ k <= tree.count
    /\ tree' = Renumber(rb_delete(tree, RankItem(k)),
                        [n \in (0 .. tree.count) \ {k} |-> IF n < k THEN n ELSE n - 1])
    /\ items' = {RankItem(n) : n \in 1 .. tree.count - 1}
    /\ UNCHANGED <<trav, copied, ranked>>

Next ==
    \/ \E item \in Items : rb_insert(item) \/ rb_replace(item) \/ Delete(item)
    \/ \E v \in Travs :
          \/ rb_t_init(v) \/ rb_t_first(v) \/ rb_t_last(v) \/ rb_t_next(v) \/ rb_t_prev(v)
          \/ \E item \in Items : rb_t_find(v, item) \/ rb_t_insert(v, item) \/ rb_t_replace(v, item)
          \/ \E src \in Travs \ {v} : rb_t_copy(v, src)
    \/ Copy
    \/ DropCopy
    \/ KeepCopy
    \/ \E k \in Ranks : InsertRank(k) \/ DeleteRank(k)

Spec == Init /\ [][Next]_vars

-----------------------------------------------------------------------------
(* Properties *)

\* The data of the subtree n, left to right.
RECURSIVE InOrder(_, _)
InOrder(t, n) ==
    IF n = NULL THEN <<>>
    ELSE InOrder(t, Link(t, n, 0)) \o <<Data(t, n)>> \o InOrder(t, Link(t, n, 1))

\* The black nodes on every path from n to a null link, or -1 when paths differ or a
\* red node has a red child.
RECURSIVE BlackHeight(_, _)
BlackHeight(t, n) ==
    IF n = NULL THEN 0
    ELSE LET l == BlackHeight(t, Link(t, n, 0))
             r == BlackHeight(t, Link(t, n, 1))
         IN  IF \/ l = -1 \/ l # r
                \/ IsRed(t, n) /\ \E d \in 0..1 : IsRed(t, Link(t, n, d))
             THEN -1
             ELSE IF IsRed(t, n) THEN l ELSE l + 1

\* rb_probe and rb_delete rebalance: the root is black, no red node has a red child,
\* and every path has as many black nodes, so that RB_MAX_HEIGHT bounds the stacks.
RedBlack == ~IsRed(tree, Root(tree)) /\ BlackHeight(tree, Root(tree)) # -1

\* The tree holds the items the calls put into it and no other, in order and once:
\* rb_find finds exactly them, and rb_count counts them.
HoldsItems ==
    LET seq == InOrder(tree, Root(tree)) IN
    /\ ToSet(seq) = items
    /\ \A i \in 1 .. Len(seq) - 1 : seq[i].key < seq[i + 1].key
    /\ tree.count = Cardinality(items)
    /\ \A item \in Universe : rb_find(tree, item) = IF Same(item) = {} THEN NULL
                                                 ELSE CHOOSE i \in items : i.key = item.key

\* The items on the side d of a position, and the nearest of them.
Side(pos, d) == {i \in items : pos = NULL \/ IF d = 1 THEN i.key > pos.key ELSE i.key < pos.key}
Nearest(pos, d) ==
    IF Side(pos, d) = {} THEN NULL
    ELSE CHOOSE i \in Side(pos, d) :
            \A j \in Side(pos, d) : IF d = 1 THEN i.key <= j.key ELSE i.key >= j.key

\* rb_t_next and rb_t_prev give the neighbour in the order of the tree as it is now,
\* whatever was inserted, deleted or replaced since the traverser was placed; and no
\* change of the tree moves another item under a traverser.
TraverserInOrder ==
    [][\A v \in Travs :
          LET pos == Data(tree, trav[v].node) IN
          /\ rb_t_next(v) => Data(tree, trav'[v].node) = Nearest(pos, 1)
          /\ rb_t_prev(v) => Data(tree, trav'[v].node) = Nearest(pos, 0)
          /\ trav'[v].node = trav[v].node /\ pos # NULL /\ NoneCopied
                => Data(tree', trav[v].node).key = pos.key]_vars

\* The shape of a tree: what a copy must share with its original.
Shape(t) == [n \in Keys |-> <<t.node[n].link, t.node[n].color, t.node[n].data>>]

\* A copy is the same tree.  A copy that fails frees every node it allocated and
\* destroys every item it copied, once and in order; and it also hands to destroy the
\* rb_data, never assigned, of every half-built node above the failure, once each,
\* where malloc did not happen to leave a null pointer.  (copy_error_recovery means
\* "to avoid touching uninitialized data" and cuts only the right links.)
\* rb_destroy of the tree destroys the items in order and frees every node.
CopyOutcome ==
    /\ copied.ok => Shape(copied.t) = Shape(tree) /\ copied.t.count = tree.count
    /\ ~copied.ok => /\ SelectSeq(copied.destroyed, LAMBDA i : i # Junk) = copied.made
                     /\ Len(copied.destroyed) = Len(copied.made) + Cardinality(copied.unset)
                     /\ copied.freed = copied.malloced
    /\ rb_destroy(tree).destroyed = InOrder(tree, Root(tree))
    /\ Cardinality(rb_destroy(tree).freed) = tree.count
=============================================================================
