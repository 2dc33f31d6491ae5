----------------------------- MODULE SearchTree -----------------------------
(***************************************************************************)
(* src/src/parts/parser/symtable.c: one table of the symbol table is a     *)
(* binary search tree of nodes, the keys ordered by strcmp.                *)
(*                                                                         *)
(* Module Symtable sees such a tree as a function from names to            *)
(* declarations.  Here the tree is the nodes, and what the operations on   *)
(* them promise is that function: table, which no code keeps.              *)
(***************************************************************************)
EXTENDS Integers, Sequences

CONSTANTS Key,     \* names, as the numbers strcmp orders them by
          Data,    \* what a node carries
          NULL     \* C's NULL: no node

ASSUME KeyAssumption == Key \subseteq Nat /\ NULL \notin Data

VARIABLES tree,    \* the root node, or NULL
          table    \* history: the data each key was first added with

vars == <<tree, table>>

\* Initial height of a new node.
NewNode(key, data) ==
    [key |-> key, data |-> data, height |-> 0, left |-> NULL, right |-> NULL]

tree_get_height(root) == IF root = NULL THEN -1 ELSE root.height

tree_get_balance(root) ==
    IF root = NULL THEN 0
    ELSE tree_get_height(root.right) - tree_get_height(root.left)

tree_update_height(root) ==
    LET l == tree_get_height(root.left)
        r == tree_get_height(root.right)
    IN  [root EXCEPT !.height = 1 + IF l > r THEN l ELSE r]
-----------------------------------------------------------------------------
(* Rotations swap keys and data of the root and its child and rewire the   *)
(* child nodes; a, b and c are the subtrees in their order.                *)

\* The fourth assignment overwrites the left child of c by its right child.
tree_left_rotate(root) ==
    LET a == root.left
        b == root.right.left
        c == root.right.right
        cut == [c EXCEPT !.left = c.right]
        x == tree_update_height([root EXCEPT !.left = a, !.right = b])
    IN  tree_update_height([root.right EXCEPT !.left = x, !.right = cut])

\* Mutant of tree_right_rotate: the subtrees of the old root are swapped.
tree_right_rotate_swapped(root) ==
    LET a == root.left.left
        b == root.left.right
        c == root.right
        y == tree_update_height([root EXCEPT !.left = c, !.right = b])
    IN  tree_update_height([root.left EXCEPT !.left = a, !.right = y])

tree_right_rotate(root) ==
    LET a == root.left.left
        b == root.left.right
        c == root.right
        y == tree_update_height([root EXCEPT !.left = b, !.right = c])
    IN  tree_update_height([root.left EXCEPT !.left = a, !.right = y])

\* The end of tree_add.
Rebalance(node) ==
    LET root == tree_update_height(node)
        balance == tree_get_balance(root)
        R == root.right
        L == root.left
    IN  IF balance > 1
        THEN tree_left_rotate(
                 IF tree_get_height(R.left) > tree_get_height(R.right)
                 THEN [root EXCEPT !.right = tree_right_rotate(R)] ELSE root)
        ELSE IF balance < -1
        THEN tree_right_rotate(
                 IF tree_get_height(L.right) > tree_get_height(L.left)
                 THEN [root EXCEPT !.left = tree_left_rotate(L)] ELSE root)
        ELSE root
-----------------------------------------------------------------------------
(* Adding and finding *)

RECURSIVE tree_find(_, _), AddNode(_, _, _), AddNodeReplacing(_, _, _),
          AddNodeMirrored(_, _, _)

\* The data of the node with that key, and NULL when there is none.
tree_find(root, key) ==
    IF root = NULL THEN NULL
    ELSE IF key < root.key THEN tree_find(root.left, key)
    ELSE IF key > root.key THEN tree_find(root.right, key)
    ELSE root.data

\* Mutants of AddNode: a key the tree has gets the new data; below the root
\* the two sides are swapped.
AddNodeReplacing(root, key, data) ==
    IF root = NULL THEN Rebalance(NewNode(key, data))
    ELSE IF key < root.key THEN [root EXCEPT !.left = AddNodeReplacing(@, key, data)]
    ELSE IF key > root.key THEN [root EXCEPT !.right = AddNodeReplacing(@, key, data)]
    ELSE [root EXCEPT !.data = data]

AddNodeMirrored(root, key, data) ==
    IF root = NULL THEN Rebalance(NewNode(key, data))
    ELSE IF key > root.key THEN [root EXCEPT !.left = AddNodeMirrored(@, key, data)]
    ELSE IF key < root.key THEN [root EXCEPT !.right = AddNodeMirrored(@, key, data)]
    ELSE root

\* The tree tree_add leaves behind.  It returns from its recursive calls at
\* once, so only the node it has just made is balanced.
AddNode(root, key, data) ==
    IF root = NULL THEN Rebalance(NewNode(key, data))
    ELSE IF key < root.key THEN [root EXCEPT !.left = AddNode(@, key, data)]
    ELSE IF key > root.key THEN [root EXCEPT !.right = AddNode(@, key, data)]
    ELSE root

\* tree_add; its result, FALSE when the key is there, is used in Symtable.
tree_add(key, data) ==
    /\ tree' = AddNode(tree, key, data)
    /\ table' = IF table[key] = NULL THEN [table EXCEPT ![key] = data] ELSE table

\* tree_init, when a scope is opened.
tree_init == tree' = NULL /\ table' = [k \in Key |-> NULL]

Init == tree = NULL /\ table = [k \in Key |-> NULL]

Next == tree_init \/ \E k \in Key, d \in Data : tree_add(k, d)

Spec == Init /\ [][Next]_vars
-----------------------------------------------------------------------------
(* Properties *)

RECURSIVE InOrder(_), Nodes(_)

InOrder(root) ==
    IF root = NULL THEN <<>>
    ELSE InOrder(root.left) \o <<root.key>> \o InOrder(root.right)

Nodes(root) ==
    IF root = NULL THEN {} ELSE {root} \cup Nodes(root.left) \cup Nodes(root.right)

\* Whatever the order of the additions, a name is found exactly when it was
\* added, with the data of its first addition: a second declaration in one
\* scope never replaces the first (symtable.c:94-153).
FindsFirstAddition == \A k \in Key : tree_find(tree, k) = table[k]

\* The nodes are in the order of their keys (symtable.c:94-115).
Ordered ==
    LET keys == InOrder(tree)
    IN  \A i, j \in 1..Len(keys) : i < j => keys[i] < keys[j]

\* The right rotation keeps the keys and their order (symtable.c:82-92).
RightRotationKeepsOrder ==
    tree # NULL /\ tree.left # NULL =>
        InOrder(tree_right_rotate(tree)) = InOrder(tree)
=============================================================================
