------------------------------ MODULE OrderTree ------------------------------
(***************************************************************************)
(* L3Tree of crates/orderbook/src/l3_tree.rs, the red-black tree of single *)
(* orders, with the nodes of MemoryArena (memory_arena.rs).  A search goes *)
(* down the tree one node per step, fix_insertion up one turn of its loop  *)
(* per step; nothing else runs in between, but either may fail to end.     *)
(* Of a node's data only the quantity is kept.                             *)
(***************************************************************************)
EXTENDS Integers, FiniteSets

CONSTANTS
    ArenaNodes,     \* capacity of the arena, in nodes
    MaxOrderId,
    Sizes,          \* quantities of orders
    CountSize       \* node_count wraps here (2^64 in the code)

ASSUME TreeAssumption ==
    /\ ArenaNodes \in Nat /\ MaxOrderId \in Nat /\ CountSize \in Nat \ {0}
    /\ ArenaNodes < CountSize       \* the nodes are in memory
    /\ Sizes \subseteq Nat \ {0}

Nodes == 1 .. ArenaNodes
OrderIds == 1 .. MaxOrderId
Nil == 0
Sides == {"left", "right"}
Opposite(side) == IF side = "left" THEN "right" ELSE "left"

VARIABLES
    tree,       \* [root, child (of each side), parent, red]
    idOf,       \* order_id of the nodes
    quantity,   \* quantity of the nodes
    allocated,  \* nodes the arena has given out
    nodeCount,
    walk,       \* what the call in progress does: [op, node, id, at]
    panicked,   \* an unwrap() of None
    latest,     \* history: the quantity an order should have, -1 if not inserted
    ascending,  \* history: new orders came with growing ids
    miscounted  \* history: a cancelled order was cancelled or inserted again

treeVars == <<tree, idOf, quantity, allocated, nodeCount, walk, panicked,
              latest, ascending, miscounted>>

Idle == [op |-> "idle", node |-> Nil, id |-> 0, at |-> Nil]

TreeInit ==
    /\ tree = [root |-> Nil,
               child |-> [s \in Sides |-> [n \in Nodes |-> Nil]],
               parent |-> [n \in Nodes |-> Nil],
               red |-> [n \in Nodes |-> TRUE]]
    /\ idOf = [n \in Nodes |-> 0] /\ quantity = [n \in Nodes |-> 0]
    /\ allocated = 0 /\ nodeCount = 0
    /\ walk = Idle /\ panicked = FALSE
    /\ latest = [id \in OrderIds |-> -1] /\ ascending = TRUE /\ miscounted = FALSE

-----------------------------------------------------------------------------
(* `node.left.unwrap_or(other)`, of either side.                           *)
ChildOr(t, side, n, other) == IF t.child[side][n] = Nil THEN other ELSE t.child[side][n]

(* rotate_left and rotate_right: the child on the opposite side comes up.  *)
(* Each asks whether the node is its parent's child on the side it turns   *)
(* to, and a parent without such a child is taken for one that has it.     *)
Rotated(t, n, side) ==
    LET up == t.child[Opposite(side)][n]
        inner == t.child[side][up]
        above == t.parent[n]
        lower == [t.child EXCEPT ![Opposite(side)][n] = inner, ![side][up] = n]
        sideAbove == IF n = ChildOr(t, side, above, n) THEN side ELSE Opposite(side)
    IN  [t EXCEPT
            !.root = IF above = Nil THEN up ELSE @,
            !.child = IF above = Nil THEN lower ELSE [lower EXCEPT ![sideAbove][above] = up],
            !.parent = [m \in Nodes |->
                IF m = n THEN up ELSE IF m = up THEN above ELSE IF m = inner THEN n ELSE @[m]]]

Recoloured(t, reds, blacks) ==
    [t EXCEPT !.red = [n \in Nodes |-> IF n \in reds THEN TRUE ELSE n \notin blacks /\ @[n]]]

(* Where fix_insertion looks for a node: its parent seems to be the left   *)
(* child of a grandparent that has none.                                   *)
SideOf(t, p) == IF p = ChildOr(t, "left", t.parent[p], p) THEN "left" ELSE "right"
IsInner(t, n, p, side) == n = ChildOr(t, Opposite(side), p, n)

-----------------------------------------------------------------------------
Ascends(id) == \A i \in OrderIds : latest[i] >= 0 => i <= id

(* The caller takes a node from the arena and inserts it.                  *)
Insert(id, q) ==
    LET n == allocated + 1
    IN  /\ walk = Idle /\ ~panicked
        /\ n \in Nodes
        /\ allocated' = n
        /\ idOf' = [idOf EXCEPT ![n] = id]
        /\ quantity' = [quantity EXCEPT ![n] = q]
        /\ IF tree.root = Nil
           THEN /\ tree' = [tree EXCEPT !.root = n, !.red[n] = FALSE]
                /\ nodeCount' = (nodeCount + 1) % CountSize
                /\ UNCHANGED walk
           ELSE /\ walk' = [op |-> "insert", node |-> n, id |-> id, at |-> tree.root]
                /\ UNCHANGED <<tree, nodeCount>>
        /\ latest' = [latest EXCEPT ![id] = q]
        /\ ascending' = (ascending /\ (latest[id] >= 0 \/ Ascends(id)))
        /\ miscounted' = (miscounted \/ latest[id] = 0)
        /\ UNCHANGED panicked

SideTo(id, n) == IF id < idOf[n] THEN "left" ELSE "right"

Modify ==
    /\ walk.op = "insert" /\ walk.id = idOf[walk.at]
    /\ quantity' = [quantity EXCEPT ![walk.at] = quantity[walk.node]]
    /\ walk' = Idle
    /\ UNCHANGED <<tree, idOf, allocated, nodeCount, panicked, latest, ascending, miscounted>>

Link ==
    LET side == SideTo(walk.id, walk.at)
    IN  /\ walk.op = "insert" /\ walk.id # idOf[walk.at]
        /\ tree.child[side][walk.at] = Nil
        /\ tree' = [tree EXCEPT !.child[side][walk.at] = walk.node, !.parent[walk.node] = walk.at]
        /\ walk' = [walk EXCEPT !.op = "fix"]
        /\ UNCHANGED <<idOf, quantity, allocated, nodeCount, panicked, latest, ascending, miscounted>>

(* Both searches go on to a child.                                         *)
Descend ==
    LET next == tree.child[SideTo(walk.id, walk.at)][walk.at]
    IN  /\ walk.op \in {"insert", "find"} /\ walk.id # idOf[walk.at]
        /\ next # Nil
        /\ walk' = [walk EXCEPT !.at = next]
        /\ UNCHANGED <<tree, idOf, quantity, allocated, nodeCount, panicked,
                       latest, ascending, miscounted>>

-----------------------------------------------------------------------------
(* fix_insertion, then the count.                                          *)
FixEnds ==
    LET p == tree.parent[walk.node]
    IN  /\ walk.op = "fix"
        /\ IF p = Nil THEN TRUE ELSE ~tree.red[p] \/ tree.parent[p] = Nil
        /\ tree' = [tree EXCEPT !.red[tree.root] = FALSE]
        /\ nodeCount' = (nodeCount + 1) % CountSize
        /\ walk' = Idle
        /\ UNCHANGED <<idOf, quantity, allocated, panicked, latest, ascending, miscounted>>

RedParent ==
    /\ walk.op = "fix" /\ tree.parent[walk.node] # Nil
    /\ tree.red[tree.parent[walk.node]] /\ tree.parent[tree.parent[walk.node]] # Nil
Uncle ==
    LET p == tree.parent[walk.node] IN tree.child[Opposite(SideOf(tree, p))][tree.parent[p]]
RedUncle == Uncle # Nil /\ (Uncle # Nil => tree.red[Uncle])

Recolour ==
    LET p == tree.parent[walk.node]
    IN  /\ RedParent /\ RedUncle
        /\ tree' = Recoloured(tree, {tree.parent[p]}, {p, Uncle})
        /\ walk' = [walk EXCEPT !.node = tree.parent[p]]
        /\ UNCHANGED <<idOf, quantity, allocated, nodeCount, panicked, latest, ascending, miscounted>>

(* The first rotation is for a node between parent and grandparent.  A     *)
(* parent without a child on that side seems to have the node there.       *)
Rotate ==
    LET n == walk.node
        p == tree.parent[n]
        g == tree.parent[p]
        side == SideOf(tree, p)
        inner == IsInner(tree, n, p, side)
        missing == inner /\ tree.child[Opposite(side)][p] = Nil
        straight == IF inner THEN Rotated(tree, p, side) ELSE tree
        top == IF inner THEN n ELSE p
        done == Rotated(Recoloured(straight, {g}, {top}), g, Opposite(side))
    IN  /\ RedParent /\ ~RedUncle
        /\ IF missing
           THEN panicked' = TRUE /\ UNCHANGED <<tree, nodeCount, walk>>
           ELSE /\ tree' = [done EXCEPT !.red[done.root] = FALSE]
                /\ nodeCount' = (nodeCount + 1) % CountSize
                /\ walk' = Idle
                /\ UNCHANGED panicked
        /\ ~panicked
        /\ UNCHANGED <<idOf, quantity, allocated, latest, ascending, miscounted>>

-----------------------------------------------------------------------------
(* cancel, with find; delete leaves the node where it is.                  *)
Cancel(id) ==
    /\ walk = Idle /\ ~panicked
    /\ tree.root # Nil
    /\ walk' = [Idle EXCEPT !.op = "find", !.id = id, !.at = tree.root]
    /\ UNCHANGED <<tree, idOf, quantity, allocated, nodeCount, panicked,
                   latest, ascending, miscounted>>

Delete ==
    /\ walk.op = "find" /\ walk.id = idOf[walk.at]
    /\ quantity' = [quantity EXCEPT ![walk.at] = 0]
    /\ tree' = [tree EXCEPT !.red[walk.at] = FALSE]
    /\ nodeCount' = (nodeCount - 1) % CountSize
    /\ walk' = Idle
    /\ latest' = [latest EXCEPT ![walk.id] = 0]
    /\ miscounted' = (miscounted \/ latest[walk.id] = 0)
    /\ UNCHANGED <<idOf, allocated, panicked, ascending>>

NotFound ==
    /\ walk.op = "find" /\ walk.id # idOf[walk.at]
    /\ tree.child[SideTo(walk.id, walk.at)][walk.at] = Nil
    /\ walk' = Idle
    /\ UNCHANGED <<tree, idOf, quantity, allocated, nodeCount, panicked,
                   latest, ascending, miscounted>>

TreeNext ==
    \/ \E id \in OrderIds : Cancel(id) \/ \E q \in Sizes : Insert(id, q)
    \/ Modify \/ Link \/ Descend \/ FixEnds \/ Recolour \/ Rotate \/ Delete \/ NotFound

TreeSpec == TreeInit /\ [][TreeNext]_treeVars

-----------------------------------------------------------------------------
(* Where a search for an order arrives: its node, or Nil.                  *)
Search(id) ==
    LET at[k \in 0 .. ArenaNodes] ==
            IF k = 0 THEN tree.root
            ELSE IF at[k - 1] = Nil THEN Nil
            ELSE IF idOf[at[k - 1]] = id THEN at[k - 1]
            ELSE tree.child[SideTo(id, at[k - 1])][at[k - 1]]
    IN  at[ArenaNodes]

Inserted == {id \in OrderIds : latest[id] >= 0}
Live == {id \in OrderIds : latest[id] > 0}

FoundExactly ==
    \A id \in Inserted :
        Search(id) # Nil /\ (Search(id) # Nil => idOf[Search(id)] = id /\ quantity[Search(id)] = latest[id])

(* With ids that grow, the order they are given in, the tree finds every   *)
(* order with its latest quantity, through modifications, cancellations    *)
(* and the black nodes these leave behind, and counts those not cancelled  *)
(* as long as no order is cancelled or inserted after its cancellation.    *)
TreeFollowsOrders ==
    ascending =>
        /\ ~panicked
        /\ walk = Idle => FoundExactly
        /\ walk = Idle /\ ~miscounted => nodeCount = Cardinality(Live)

(* "Red-Black tree for tracking Level 3 (individual order ID) data":       *)
(* whatever the ids, insert returns and the order can be found.            *)
OrdersAreFound == ~panicked /\ (walk = Idle => FoundExactly)
=============================================================================
