-------------------------------- MODULE Radix --------------------------------
(***************************************************************************)
(* The radix tree of common/radix.c.  A node is named by its path from    *)
(* the root: the sequence of child indices taken, so the root is <<>> and *)
(* a leaf node (holding values) is a path of RADIX_LEVELS - 1 indices.  A *)
(* value slot is named by the full path of RADIX_LEVELS indices of its    *)
(* key, most significant first.  kzalloc may fail in new_radix_node,      *)
(* after which radix_add returns -ENOMEM and keeps the nodes it made.     *)
(* Each call is one step: the tree belongs to one PMO, whose callers hold *)
(* the big kernel lock.                                                   *)
(***************************************************************************)
EXTENDS Integers, Sequences, Bitwise

CONSTANTS
  RADIX_NODE_BITS, RADIX_MAX_BITS,  \* the key is a u64: RADIX_MAX_BITS wide
  Keys,          \* keys the callers pass
  Vals, NULL,
  Garbage,       \* the contents of memory kmalloc has not handed out
  NodeAllocFails,  \* kzalloc may fail in new_radix_node
  HasDeleter       \* init_radix_w_deleter, rather than init_radix, set it up

DIV_UP(a, b) == (a + b - 1) \div b
RADIX_LEVELS == DIV_UP(RADIX_MAX_BITS, RADIX_NODE_BITS)
RADIX_NODE_SIZE == 2 ^ RADIX_NODE_BITS
RADIX_NODE_MASK == RADIX_NODE_SIZE - 1

ASSUME RADIX_LEVELS >= 2 /\ Keys \subseteq 0 .. 2 ^ RADIX_MAX_BITS - 1

Slots == [1 .. RADIX_LEVELS -> 0 .. RADIX_NODE_SIZE - 1]

VARIABLES
  nodes,    \* the nodes allocated and linked from the root
  values,   \* values[q]: the value slot q of its leaf node (Garbage while
            \* that leaf node is not allocated)
  ret,      \* what the last radix_get returned
  deleted,  \* the values radix_free_node handed to value_deleter
  freed     \* radix_free was called

vars == <<nodes, values, ret, deleted, freed>>

\* index[i] = key & RADIX_NODE_MASK; key >>= RADIX_NODE_BITS, for each
\* level i, used from index[RADIX_LEVELS - 1] down to index[0].
Index(key, i) == (key \div 2 ^ (i * RADIX_NODE_BITS)) & RADIX_NODE_MASK

KeyPath(key) == [n \in 1 .. RADIX_LEVELS |-> Index(key, RADIX_LEVELS - n)]

\* The node radix_add and radix_get reach after d steps from the root.
NodeAt(key, d) == SubSeq(KeyPath(key), 1, d)

\* new_radix_node: kzalloc, so a new leaf node's values are all NULL (a
\* kmalloc would leave what the memory held).
new_radix_node_nozero(vs, p) == vs

new_radix_node(vs, p) ==
  IF Len(p) = RADIX_LEVELS - 1
  THEN [q \in Slots |-> IF SubSeq(q, 1, Len(p)) = p THEN NULL ELSE vs[q]]
  ELSE vs

\* radix_add(radix, key, value): make the root if there is none and each
\* missing node on the key's path, top down; a failed allocation returns
\* -ENOMEM with the nodes made so far linked in.  Else store the value.
radix_add(key, v) ==
  LET path == [d \in 1 .. RADIX_LEVELS |-> NodeAt(key, d - 1)]
      missing == SelectSeq(path, LAMBDA p : p \notin nodes)
      Made(m) == {missing[i] : i \in 1 .. m}
      Zeroed(m) == LET RECURSIVE Z(_)
                       Z(i) == IF i = 0 THEN values
                               ELSE new_radix_node(Z(i - 1), missing[i])
                   IN  Z(m)
  IN  /\ ~freed
      /\ \/ /\ nodes' = nodes \cup Made(Len(missing))
            /\ values' = [Zeroed(Len(missing)) EXCEPT ![KeyPath(key)] = v]
         \/ /\ NodeAllocFails
            /\ \E m \in 0 .. Len(missing) - 1 :
                 nodes' = nodes \cup Made(m) /\ values' = Zeroed(m)
      /\ UNCHANGED <<ret, deleted, freed>>

\* radix_get(radix, key): NULL at a missing node, else the leaf's slot.
Lookup(key) ==
  IF \E d \in 0 .. RADIX_LEVELS - 1 : NodeAt(key, d) \notin nodes THEN NULL
  ELSE values[KeyPath(key)]

radix_get(key) ==
  /\ ~freed
  /\ ret' = Lookup(key)
  /\ UNCHANGED <<nodes, values, deleted, freed>>

\* radix_del(radix, key) is radix_add(radix, key, NULL).
radix_del(key) == radix_add(key, NULL)

\* radix_free_node(node, level, value_deleter) from the root: below the
\* leaf level, recurse into every non-NULL child; at it, hand every
\* non-NULL value to value_deleter.  No node is kfreed.
radix_free_node_nonull(d) ==
  {values[q] : q \in {q \in Slots : SubSeq(q, 1, d) \in nodes}}

radix_free_node(d) ==
  {values[q] : q \in {q \in Slots : SubSeq(q, 1, d) \in nodes /\ values[q] # NULL}}

\* radix_free(radix): WARN and -EINVAL without a root.
radix_free ==
  /\ ~freed
  /\ <<>> \in nodes
  /\ freed' = TRUE
  /\ deleted' = IF HasDeleter THEN radix_free_node(RADIX_LEVELS - 1) ELSE {}
  /\ UNCHANGED <<nodes, values, ret>>

\* new_radix and init_radix (pmo_init): a root node and no value.
Init ==
  /\ nodes = {<<>>}
  /\ values = [q \in Slots |-> IF RADIX_LEVELS = 1 THEN NULL ELSE Garbage]
  /\ ret = NULL
  /\ deleted = {}
  /\ freed = FALSE

Next ==
  \/ \E k \in Keys, v \in Vals : radix_add(k, v)
  \/ \E k \in Keys : radix_get(k)
  \/ \E k \in Keys : radix_del(k)
  \/ radix_free

Spec == Init /\ [][Next]_vars

-----------------------------------------------------------------------------

TypeOK ==
  /\ nodes \subseteq UNION {[1 .. d -> 0 .. RADIX_NODE_SIZE - 1] : d \in 0 .. RADIX_LEVELS - 1}
  /\ values \in [Slots -> Vals \cup {NULL, Garbage}]
  /\ ret \in Vals \cup {NULL}
  /\ deleted \subseteq Vals
  /\ freed \in BOOLEAN

\* The tree implements the map RadixMap specifies: radix_add stores under
\* its key alone (no two keys share a path), a radix_add that runs out of
\* memory leaves every key's value as it was although it linked new
\* nodes, radix_get returns the stored value, and radix_free hands exactly
\* the stored values to value_deleter.
Map == INSTANCE RadixMap WITH map <- [k \in Keys |-> Lookup(k)]

RefinesRadixMap == Map!Spec
====
