------------------------------- MODULE BTree -------------------------------
(***************************************************************************)
(* The block index of a file (btree.c): a radix tree of nodes with         *)
(* BRANCH_NUM children, whose root moves up when a key does not fit, over  *)
(* the arena its nodes come from (arena.c).  file_index_insert sets a      *)
(* range of keys and hands every entry it displaces to a callback;         *)
(* file_remove_entry sets a range to NULL without one; recovery reaches    *)
(* single keys through a hint, the place of the key it asked for last.     *)
(*                                                                         *)
(* All calls are made under the lock of the inode.  A step is one round of *)
(* a loop of the code, so that what a failure leaves behind is visible.    *)
(* The field `start` of a node is never read and left out.                 *)
(***************************************************************************)
EXTENDS Integers, FiniteSets

CONSTANTS
  BRANCH_NUM,   \* children per node (256)
  MAX_LEVELS,   \* entries of max_keys (10)
  Arenas,       \* the sets of items the arena may have
  Vals,         \* the pointers stored
  MaxKey,       \* bound: ranges end at or below this key
  Null

ASSUME BTreeAssumption ==
  /\ BRANCH_NUM \in Nat \ {0, 1} /\ MAX_LEVELS \in Nat \ {0}
  /\ MaxKey \in Nat /\ MaxKey < BRANCH_NUM ^ MAX_LEVELS
  /\ \A A \in Arenas : A # {} /\ IsFiniteSet(A) /\ (A \union {Null}) \intersect Vals = {}
  /\ \A A \in Arenas : Null \notin A

VARIABLES
  node,     \* node[n]: parent, height, branch_index and children of item n of the arena
  free,     \* the free list of the arena (its order does not matter)
  root,     \* tree->root, or Null before btree_create
  height,   \* tree->height
  hint,     \* node, index and key of the hint
  pc, start, end, ptr, pos,  \* the call in progress; "fault": a wild or null pointer was used
  told      \* the arguments of the callback of the last store, if it made one

tree == <<node, free, root, height>>
call == <<start, end, ptr, pos>>
vars == <<tree, hint, pc, call, told>>

Keys     == 0 .. MaxKey
Branches == 0 .. BRANCH_NUM - 1
NoPos    == [node |-> Null, index |-> 0]
NoHint   == [node |-> Null, index |-> 0, key |-> 0]
NoNode   == [parent |-> Null, height |-> 0, branch |-> 0, children |-> [b \in Branches |-> Null]]

(* The items of the arena. *)
Nodes == DOMAIN node

max_keys(h) == BRANCH_NUM ^ (h + 1)

(* The tree as one value, for the operators that change it. *)
Tree == [node |-> node, free |-> free, root |-> root, height |-> height]
Becomes(T) == node' = T.node /\ free' = T.free /\ root' = T.root /\ height' = T.height

(* arena_alloc, btree_node_create below a parent: the free list must have one *)
NewChild(T, parent, b) ==
  LET n == CHOOSE m \in T.free : TRUE
  IN  [T EXCEPT !.free = @ \ {n},
                !.node = [@ EXCEPT ![n] = [NoNode EXCEPT !.parent = parent, !.branch = b,
                                                         !.height = T.node[parent].height - 1],
                                   ![parent].children[b] = n]]

(* btree_pos with create: descend from n to the place of key, making the    *)
(* nodes that are missing.  ok is FALSE for -ENOMEM; what was made stays.   *)
RECURSIVE Descend(_, _, _)
Descend(T, n, key) ==
  LET h == T.node[n].height
      b == key \div max_keys(h - 1)
      R == IF T.node[n].children[b] = Null THEN NewChild(T, n, b) ELSE T
  IN  IF h = 0 THEN [ok |-> TRUE, tree |-> T, pos |-> [node |-> n, index |-> key]]
      ELSE IF T.node[n].children[b] = Null /\ T.free = {}
      THEN [ok |-> FALSE, tree |-> T, pos |-> NoPos]
      ELSE Descend(R, R.node[n].children[b], key % max_keys(h - 1))

btree_pos(T, key) == Descend(T, T.root, key)

(* btree_get *)
RECURSIVE Find(_, _, _)
Find(T, n, key) ==
  LET h == T.node[n].height
      b == key \div max_keys(h - 1)
  IN  IF h = 0 THEN T.node[n].children[key]
      ELSE IF T.node[n].children[b] = Null THEN Null
      ELSE Find(T, T.node[n].children[b], key % max_keys(h - 1))

btree_get(T, key) == Find(T, T.root, key)

(* The climb of btree_next: up from a node until it is not the last child   *)
(* of its parent, or at the root.  p is branch_index of the last node left. *)
RECURSIVE Climb(_, _, _)
Climb(T, n, p) ==
  IF T.node[n].parent = Null THEN [node |-> n, branch |-> p]
  ELSE LET q == T.node[n].branch
           u == T.node[n].parent
       IN  IF q + 1 < BRANCH_NUM THEN [node |-> u, branch |-> q] ELSE Climb(T, u, q)

(* ... and the way down again, to the leftmost leaf *)
RECURSIVE Leftmost(_, _, _)
Leftmost(T, n, b) ==
  IF T.node[n].height = 0 THEN [ok |-> TRUE, tree |-> T, pos |-> [node |-> n, index |-> 0]]
  ELSE IF T.node[n].children[b] = Null /\ T.free = {}
  THEN [ok |-> FALSE, tree |-> T, pos |-> NoPos]
  ELSE LET R == IF T.node[n].children[b] = Null THEN NewChild(T, n, b) ELSE T
       IN  Leftmost(R, R.node[n].children[b], 0)

btree_next_StaysInNode(T, p) ==
  [ok |-> TRUE, tree |-> T, pos |-> [p EXCEPT !.index = (@ + 1) % BRANCH_NUM]]

(* btree_next with create *)
btree_next(T, p) ==
  LET c == Climb(T, p.node, T.node[p.node].branch)
  IN  IF p.index + 1 < BRANCH_NUM
      THEN [ok |-> TRUE, tree |-> T, pos |-> [p EXCEPT !.index = @ + 1]]
      ELSE IF T.node[c.node].parent = Null /\ c.branch + 1 = BRANCH_NUM
      THEN [ok |-> TRUE, tree |-> T, pos |-> NoPos]
      ELSE Leftmost(T, c.node, c.branch + 1)

(* btree_expand: a new root above the old one *)
btree_expand(T) ==
  LET n == CHOOSE m \in T.free : TRUE
  IN  [node |-> [T.node EXCEPT ![n] = [NoNode EXCEPT !.height = T.height + 1,
                                                     !.children[0] = T.root],
                               ![T.root].parent = n],
       free |-> T.free \ {n}, root |-> n, height |-> T.height + 1]

(* The nodes below and including n. *)
RECURSIVE Below(_, _)
Below(T, n) ==
  {n} \union (IF T.node[n].height = 0 THEN {}
              ELSE UNION {Below(T, T.node[n].children[b]) :
                            b \in {c \in Branches : T.node[n].children[c] # Null}})

(* The place of a key and where the hint leads for it: btree_get_ptr_hint   *)
ByHint_AnyLaterKey(T, h, key) ==
  LET at == [node |-> h.node, index |-> h.index]
  IN  CASE h.node # Null /\ h.key = key -> [ok |-> TRUE, tree |-> T, pos |-> at]
        [] h.node # Null /\ key > h.key -> btree_next(T, at)
        [] OTHER                         -> btree_pos(T, key)

ByHint(T, h, key) ==
  LET at == [node |-> h.node, index |-> h.index]
  IN  CASE h.node # Null /\ h.key = key     -> [ok |-> TRUE, tree |-> T, pos |-> at]
        [] h.node # Null /\ key = h.key + 1 -> btree_next(T, at)
        [] OTHER                            -> btree_pos(T, key)

Init ==
  /\ free \in Arenas
  /\ node = [n \in free |-> NoNode]
  /\ root = Null
  /\ height = 0
  /\ hint = NoHint
  /\ pc = "none"
  /\ start = 0 /\ end = 0 /\ ptr = Null /\ pos = NoPos
  /\ told = Null
-----------------------------------------------------------------------------
Return == pc' = "idle" /\ start' = 0 /\ end' = 0 /\ ptr' = Null /\ pos' = NoPos

(* inode_init_header of a file: btree_create and an empty hint *)
CreateTree ==
  /\ pc = "none"
  /\ \E n \in free :
       /\ n = CHOOSE m \in free : TRUE
       /\ node' = [node EXCEPT ![n] = NoNode]
       /\ free' = free \ {n}
       /\ root' = n
  /\ height' = 0
  /\ hint' = NoHint
  /\ pc' = "idle"
  /\ UNCHANGED <<call, told>>

(* btree_set_range_callback is called, *)
SetRange ==
  /\ pc = "idle"
  /\ \E s, e \in Keys, v \in Vals \union {Null} :
       s < e /\ start' = s /\ end' = e /\ ptr' = v
  /\ pc' = "expand"
  /\ UNCHANGED <<tree, hint, pos, told>>

Fits == end < max_keys(height)

(* ... makes room for its end, *)
Expand ==
  /\ pc = "expand"
  /\ ~Fits
  /\ free # {}
  /\ Becomes(btree_expand(Tree))
  /\ UNCHANGED <<hint, pc, call, told>>

(* ... follows the pointer btree_node_create returns without a test, *)
ExpandFault ==
  /\ pc = "expand"
  /\ ~Fits
  /\ free = {}
  /\ pc' = "fault"
  /\ UNCHANGED <<tree, hint, call, told>>

(* ... finds the first key, or gives up with -ENOMEM, *)
Position ==
  LET r == btree_pos(Tree, start)
  IN  /\ pc = "expand"
      /\ Fits
      /\ Becomes(r.tree)
      /\ IF r.ok THEN pc' = "write" /\ pos' = r.pos /\ UNCHANGED <<start, end, ptr>> ELSE Return
      /\ UNCHANGED <<hint, told>>

(* ... and stores the pointer, telling the one it displaces; btree_set_range *)
(* has no callback.                                                          *)
Write ==
  LET old == node[pos.node].children[pos.index]
  IN  /\ pc = "write"
      /\ node' = [node EXCEPT ![pos.node].children[pos.index] = ptr]
      /\ told' = IF old # Null /\ ptr # Null THEN <<old, start>> ELSE Null
      /\ start' = start + 1
      /\ pc' = "next"
      /\ UNCHANGED <<free, root, height, hint, end, ptr, pos>>

(* It asks for the place of the next key also after the last one, and can   *)
(* fail there.                                                              *)
Advance ==
  LET r == btree_next(Tree, pos)
  IN  /\ pc = "next"
      /\ Becomes(r.tree)
      /\ IF r.ok /\ start < end
         THEN pc' = "write" /\ pos' = r.pos /\ UNCHANGED <<start, end, ptr>>
         ELSE Return
      /\ UNCHANGED <<hint, told>>

(* filent_lookup of the debug build: btree_get and btree_get_hint.  Neither *)
(* compares the key with the size of the tree.                              *)
Lookup ==
  \E k \in Keys :
    LET r == ByHint(Tree, hint, k)
    IN  /\ pc = "idle"
        /\ k < max_keys(height)
        /\ Becomes(r.tree)
        /\ hint' = IF r.ok /\ r.pos.node # Null
                   THEN [node |-> r.pos.node, index |-> r.pos.index, key |-> k] ELSE hint
        /\ UNCHANGED <<pc, call, told>>

LookupOutside ==
  /\ pc = "idle"
  /\ \E k \in Keys : k >= max_keys(height)
  /\ pc' = "fault"
  /\ UNCHANGED <<tree, hint, call, told>>

Destroy_RootKept ==
  /\ pc = "idle"
  /\ free' = free \union (Below(Tree, root) \ {root})
  /\ root' = Null /\ height' = 0 /\ hint' = NoHint /\ pc' = "none" /\ told' = Null
  /\ node' = [n \in Nodes |-> NoNode]
  /\ UNCHANGED call

(* do_inode_release: btree_destroy gives every node back (arena_free) *)
Destroy ==
  /\ pc = "idle"
  /\ free' = free \union Below(Tree, root)
  /\ root' = Null
  /\ height' = 0
  /\ hint' = NoHint
  /\ node' = [n \in Nodes |-> NoNode]
  /\ pc' = "none"
  /\ told' = Null
  /\ UNCHANGED call

Next ==
  \/ CreateTree \/ SetRange \/ Expand \/ ExpandFault \/ Position \/ Write \/ Advance
  \/ Lookup \/ LookupOutside \/ Destroy

Spec == Init /\ [][Next]_vars
-----------------------------------------------------------------------------
(* Every node of the arena is free or in the tree, and only one of the two, *)
(* also after a call that failed with -ENOMEM halfway: btree_destroy gives  *)
(* back exactly what btree_node_create took.  Parents and children agree,   *)
(* which btree_next relies on for the climb.                                *)
NodesExact ==
  /\ root = Null => free = Nodes
  /\ root # Null =>
       /\ free = Nodes \ Below(Tree, root)
       /\ node[root].height = height /\ node[root].parent = Null
       /\ \A n \in Below(Tree, root) : node[n].height > 0 =>
            \A b \in Branches : LET c == node[n].children[b] IN c # Null =>
              c \in Nodes /\ node[c].parent = n /\ node[c].branch = b
                /\ node[c].height = node[n].height - 1

(* The hint leads where the search from the root does, whatever was         *)
(* inserted, expanded or created since it was taken: assert(a == b) of      *)
(* filent_lookup (inode.c:117).                                             *)
HintRight ==
  hint.node # Null =>
    LET r == btree_pos(Tree, hint.key)
    IN  r.ok /\ r.tree = Tree /\ r.pos = [node |-> hint.node, index |-> hint.index]

(* The tree implements the map: growing it, positioning and walking change  *)
(* nothing, a round of the loop changes the key `start` counts and no       *)
(* other, and the callback is told of that key.                             *)
Index == [k \in Keys |-> IF root # Null /\ k < max_keys(height) THEN btree_get(Tree, k) ELSE Null]
Map == INSTANCE IndexMap WITH map <- Index
IsMap == Map!Spec
=============================================================================
