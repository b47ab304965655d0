------------------------------ MODULE DirIndex ------------------------------
(***************************************************************************)
(* The index of a directory: a red-black tree of its entries by the hash   *)
(* of their names (rbtree.c, rbtree_augmented.h), the insertion, removal   *)
(* and lookup of inode.c on top of it, and the readdir loops of            *)
(* slotfs_func.c that walk it one entry per call while others change it.   *)
(* Every call holds the lock of the directory, so a call is one step.      *)
(*                                                                         *)
(* A node is identified with the hash of its entry.  The two halves of     *)
(* every rebalancing loop mirror each other: a side is a parameter here.   *)
(* The augmented variants have no caller and dummy callbacks.              *)
(***************************************************************************)
EXTENDS Integers, FiniteSets

CONSTANTS
  Hashes,       \* hashes of names; neither 0 nor READDIR_END
  Readers,      \* open directory streams
  READDIR_END,  \* the offset of a stream that is done
  MaxWatched,   \* bound: the entries of a directory while a stream is open
  Null

ASSUME IndexAssumption ==
  /\ Hashes \subseteq Nat \ {0}
  /\ READDIR_END \in Nat \ (Hashes \union {0})
  /\ Null \notin Nat

VARIABLES
  tree,     \* root and nodes: parent, color, children
  offset,   \* offset[r]: fh->offset of a stream
  owed,     \* owed[r]: the entries there since it was opened, not yet returned
  cut       \* cut[r]: the entry stream r stands on has been removed

vars == <<tree, offset, owed, cut>>

L == "left"
R == "right"
Other(s) == IF s = L THEN R ELSE L

NoNode == [parent |-> Null, black |-> FALSE, child |-> [s \in {L, R} |-> Null]]

Child(T, n, s)  == T.node[n].child[s]
Parent(T, n)    == T.node[n].parent
IsRed(T, n)     == n # Null /\ ~T.node[n].black
IsBlack(T, n)   == ~IsRed(T, n)

SetChild(T, n, s, c)             == [T EXCEPT !.node[n].child[s] = c]
rb_set_parent_color(T, n, p, b)  == [T EXCEPT !.node[n].parent = p, !.node[n].black = b]
rb_set_parent(T, n, p)           == [T EXCEPT !.node[n].parent = p]
rb_set_black(T, n)               == [T EXCEPT !.node[n].black = TRUE]
IfNode(n, T, U)                  == IF n = Null THEN U ELSE T

__rb_change_child(T, old, new, parent) ==
  IF parent = Null THEN [T EXCEPT !.root = new]
  ELSE SetChild(T, parent, IF Child(T, parent, L) = old THEN L ELSE R, new)

(* The new node gets the parent and color of the old one, and the old one   *)
(* the new one for a parent and the color b.                                *)
__rb_rotate_set_parents(T, old, new, b) ==
  LET parent == Parent(T, old)
      T1 == rb_set_parent_color(T, new, parent, T.node[old].black)
      T2 == rb_set_parent_color(T1, old, new, b)
  IN  __rb_change_child(T2, old, new, parent)

Lift_InnerLost(T, down, up, s) ==
  SetChild(SetChild(T, down, s, Null), up, Other(s), down)

(* The pointers of a rotation: up, the child of down on side s, leaves its  *)
(* inner child to down and takes down in its place.                         *)
Lift(T, down, up, s) ==
  SetChild(SetChild(T, down, s, Child(T, up, Other(s))), up, Other(s), down)

(* ... and the inner child becomes a black child of down.                   *)
LiftBlack(T, down, up, s) ==
  LET inner == Child(T, up, Other(s))
      T1 == Lift(T, down, up, s)
  IN  IfNode(inner, rb_set_parent_color(T1, inner, down, TRUE), T1)

(* __rb_insert: node is red, and so may its parent be *)
RECURSIVE __rb_insert(_, _, _)
__rb_insert(T, node, parent) ==
  IF parent = Null THEN rb_set_parent_color(T, node, Null, TRUE)
  ELSE IF IsBlack(T, parent) THEN T
  ELSE LET gparent == Parent(T, parent)
           s == IF parent # Child(T, gparent, R) THEN L ELSE R
           o == Other(s)
           uncle == Child(T, gparent, o)
           flipped == LET T1 == rb_set_parent_color(T, uncle, gparent, TRUE)
                          T2 == rb_set_parent_color(T1, parent, gparent, TRUE)
                      IN  rb_set_parent_color(T2, gparent, Parent(T, gparent), FALSE)
           inner == node = Child(T, parent, o)
           T3 == IF inner
                 THEN rb_set_parent_color(LiftBlack(T, parent, node, o), parent, node, FALSE)
                 ELSE T
           up == IF inner THEN node ELSE parent
       IN  IF IsRed(T, uncle) THEN __rb_insert(flipped, gparent, Parent(T, gparent))
           ELSE __rb_rotate_set_parents(LiftBlack(T3, gparent, up, s), gparent, up, FALSE)

EraseColor_OneRound(T, node, parent) ==
  LET s == IF node # Child(T, parent, R) THEN L ELSE R
      o == Other(s)
      sibling == Child(T, parent, o)
      flipped == rb_set_parent_color(T, sibling, parent, FALSE)
  IN  IF IsRed(T, parent) THEN rb_set_black(flipped, parent) ELSE flipped

(* ____rb_erase_color: the paths through node, a child of parent, are one   *)
(* black node short                                                         *)
RECURSIVE EraseColor(_, _, _)
EraseColor(T, node, parent) ==
  LET s == IF node # Child(T, parent, R) THEN L ELSE R
      o == Other(s)
      redSibling == Child(T, parent, o)
      T1 == IF IsRed(T, redSibling)
            THEN __rb_rotate_set_parents(LiftBlack(T, parent, redSibling, o), parent, redSibling, FALSE)
            ELSE T
      sibling == Child(T1, parent, o)
      far  == Child(T1, sibling, o)
      near == Child(T1, sibling, s)
      flipped == rb_set_parent_color(T1, sibling, parent, FALSE)
      turned == SetChild(LiftBlack(T1, sibling, near, s), parent, o, near)
      Last(U, sib, outer) ==
        LET inner == Child(U, sib, s)
            U1 == rb_set_parent_color(Lift(U, parent, sib, o), outer, sib, TRUE)
            U2 == IfNode(inner, rb_set_parent(U1, inner, parent), U1)
        IN  __rb_rotate_set_parents(U2, parent, sib, TRUE)
  IN  CASE IsBlack(T1, far) /\ IsBlack(T1, near) /\ IsRed(T1, parent) -> rb_set_black(flipped, parent)
        [] IsBlack(T1, far) /\ IsBlack(T1, near) /\ IsBlack(T1, parent) ->
             IF Parent(T1, parent) = Null THEN flipped
             ELSE EraseColor(flipped, parent, Parent(T1, parent))
        [] IsBlack(T1, far) /\ IsRed(T1, near) -> Last(turned, near, sibling)
        [] IsRed(T1, far) -> Last(T1, sibling, far)

RECURSIVE Outermost(_, _, _)
Outermost(T, n, s) == IF Child(T, n, s) = Null THEN n ELSE Outermost(T, Child(T, n, s), s)

(* __rb_erase_augmented, a node with two children: its successor takes its  *)
(* place.  "short" is the node whose child is a black node short, or Null.  *)
EraseInner(T, node) ==
  LET child     == Child(T, node, R)
      successor == Outermost(T, child, L)
      parent    == IF successor = child THEN successor ELSE Parent(T, successor)
      child2    == Child(T, successor, R)
      T1 == IF successor = child THEN T
            ELSE rb_set_parent(SetChild(SetChild(T, parent, L, child2), successor, R, child),
                               child, successor)
      left == Child(T, node, L)
      T2 == rb_set_parent(SetChild(T1, successor, L, left), left, successor)
      T3 == __rb_change_child(T2, node, successor, Parent(T, node))
      T4 == rb_set_parent_color(T3, successor, Parent(T, node), T.node[node].black)
  IN  [tree |-> IfNode(child2, rb_set_parent_color(T4, child2, parent, TRUE), T4),
       short |-> IF child2 = Null /\ T.node[successor].black THEN parent ELSE Null]

(* ... and one with at most one child, which takes its place and color.     *)
EraseOuter(T, node) ==
  LET only   == IF Child(T, node, L) = Null THEN Child(T, node, R) ELSE Child(T, node, L)
      parent == Parent(T, node)
      T1 == __rb_change_child(T, node, only, parent)
  IN  [tree |-> IfNode(only, rb_set_parent_color(T1, only, parent, T.node[node].black), T1),
       short |-> IF only = Null /\ T.node[node].black THEN parent ELSE Null]

rb_erase(T, node) ==
  LET e == IF Child(T, node, L) = Null \/ Child(T, node, R) = Null
           THEN EraseOuter(T, node) ELSE EraseInner(T, node)
      T1 == IF e.short = Null THEN e.tree ELSE EraseColor(e.tree, Null, e.short)
  IN  [T1 EXCEPT !.node[node] = NoNode]

rb_first(T) == IF T.root = Null THEN Null ELSE Outermost(T, T.root, L)

(* The climb of rb_next: the first ancestor reached from the left. *)
RECURSIVE FromLeft(_, _)
FromLeft(T, n) ==
  LET parent == Parent(T, n)
  IN  IF parent # Null /\ n = Child(T, parent, R) THEN FromLeft(T, parent) ELSE parent

rb_next(T, n) ==
  IF Child(T, n, R) # Null THEN Outermost(T, Child(T, n, R), L) ELSE FromLeft(T, n)

(* The search for hash h below n: the node with it, or the one it belongs   *)
(* under.                                                                   *)
RECURSIVE Search(_, _, _)
Search(T, n, h) ==
  LET next == Child(T, n, IF h < n THEN L ELSE R)
  IN  IF n = h \/ next = Null THEN n ELSE Search(T, next, h)

dirent_lookup(T, h) ==
  IF T.root # Null /\ Search(T, T.root, h) = h THEN h ELSE Null

(* dir_index_insert of a hash that is not there: rb_link_node and           *)
(* rb_insert_color                                                          *)
dir_index_insert(T, h) ==
  LET parent == IF T.root = Null THEN Null ELSE Search(T, T.root, h)
      T1 == [T EXCEPT !.node[h] = [NoNode EXCEPT !.parent = parent]]
      T2 == IF parent = Null THEN [T1 EXCEPT !.root = h]
            ELSE SetChild(T1, parent, IF h < parent THEN L ELSE R, h)
  IN  __rb_insert(T2, h, parent)

(* The entries below n. *)
RECURSIVE Below(_, _)
Below(T, n) == IF n = Null THEN {} ELSE {n} \union UNION {Below(T, Child(T, n, s)) : s \in {L, R}}

Present == Below(tree, tree.root)

(* inode_init_header of a directory; no stream is open *)
Init ==
  /\ tree = [root |-> Null, node |-> [h \in Hashes |-> NoNode]]
  /\ offset = [r \in Readers |-> READDIR_END]
  /\ owed = [r \in Readers |-> {}]
  /\ cut = [r \in Readers |-> FALSE]
-----------------------------------------------------------------------------
(* An entry is created; -EEXIST changes nothing. *)
Insert(h) ==
  /\ dirent_lookup(tree, h) = Null
  /\ (\E r \in Readers : offset[r] # READDIR_END) => Cardinality(Present) < MaxWatched
  /\ tree' = dir_index_insert(tree, h)
  /\ UNCHANGED <<offset, owed, cut>>

(* dir_remove_entry takes an entry that was looked up out of the index. *)
Remove(h) ==
  /\ dirent_lookup(tree, h) = h
  /\ tree' = rb_erase(tree, h)
  /\ owed' = [r \in Readers |-> owed[r] \ {h}]
  /\ cut' = [r \in Readers |-> cut[r] \/ offset[r] = h]
  /\ UNCHANGED offset

(* slotfs_opendir, or a rewind: the stream starts over *)
OpenDir(r) ==
  /\ Cardinality(Present) <= MaxWatched
  /\ offset' = [offset EXCEPT ![r] = 0]
  /\ owed' = [owed EXCEPT ![r] = Present]
  /\ cut' = [cut EXCEPT ![r] = FALSE]
  /\ UNCHANGED tree

Following_FromRoot(T, pos) ==
  CASE pos = 0 -> T.root
    [] pos = READDIR_END -> Null
    [] OTHER -> IF dirent_lookup(T, pos) = Null THEN Null ELSE rb_next(T, pos)

(* The entry a call of slotfs_readdir returns, or Null. *)
Following(T, pos) ==
  CASE pos = 0 -> rb_first(T)
    [] pos = READDIR_END -> Null
    [] OTHER -> IF dirent_lookup(T, pos) = Null THEN Null ELSE rb_next(T, pos)

slotfs_readdir(r) ==
  LET d == Following(tree, offset[r])
  IN  /\ offset[r] # READDIR_END
      /\ offset' = [offset EXCEPT ![r] = IF d = Null THEN READDIR_END ELSE d]
      /\ owed' = [owed EXCEPT ![r] = IF d = Null THEN {} ELSE @ \ {d}]
      /\ cut' = [cut EXCEPT ![r] = @ /\ d # Null]
      /\ UNCHANGED tree

Next ==
  \/ \E h \in Hashes : Insert(h) \/ Remove(h)
  \/ \E r \in Readers : OpenDir(r) \/ slotfs_readdir(r)

Spec == Init /\ [][Next]_vars
-----------------------------------------------------------------------------
(* The black nodes on the way down to a leaf, when all ways agree, else -1. *)
RECURSIVE BlackHeight(_, _)
BlackHeight(T, n) ==
  IF n = Null THEN 0
  ELSE LET l == BlackHeight(T, Child(T, n, L))
           r == BlackHeight(T, Child(T, n, R))
       IN  IF l # r \/ l = -1 THEN -1 ELSE l + (IF T.node[n].black THEN 1 ELSE 0)

(* The properties of a red-black tree that rbtree.c lists, after every      *)
(* insertion and removal: the root is black, a red node has no red child,   *)
(* and every path to a leaf has the same number of black nodes.             *)
RedBlack ==
  /\ IsBlack(tree, tree.root)
  /\ \A n \in Present, s \in {L, R} : IsRed(tree, n) => IsBlack(tree, Child(tree, n, s))
  /\ BlackHeight(tree, tree.root) # -1

(* The tree is a search tree whose parent pointers invert its children, and *)
(* removed entries are out of it: the lookup of an entry finds it wherever  *)
(* the rotations moved it.                                                  *)
SearchTree ==
  /\ tree.root # Null => Parent(tree, tree.root) = Null
  /\ \A n \in Present :
       /\ \A s \in {L, R} : Child(tree, n, s) # Null => Parent(tree, Child(tree, n, s)) = n
       /\ \A m \in Below(tree, Child(tree, n, L)) : m < n
       /\ \A m \in Below(tree, Child(tree, n, R)) : m > n
  /\ \A h \in Hashes \ Present : tree.node[h] = NoNode

(* A stream that comes to its end has returned every entry that was in the  *)
(* directory since it was opened, whatever was inserted and removed between *)
(* two calls, unless the entry it stood on was itself removed (then         *)
(* slotfs_readdir stops short, slotfs_func.c:664).  It returns entries in   *)
(* the order of their hashes, none twice.                                   *)
ScanComplete ==
  [][\A r \in Readers :
       /\ offset[r] # READDIR_END /\ offset'[r] = READDIR_END /\ ~cut[r] => owed[r] = {}
       /\ {offset[r], offset'[r]} \subseteq Hashes => offset'[r] >= offset[r]]_vars
=============================================================================
