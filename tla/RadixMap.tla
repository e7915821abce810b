------------------------------ MODULE RadixMap ------------------------------
(***************************************************************************)
(* What a radix tree of common/radix.c promises its users (the PMO's page *)
(* index, commit_page_to_pmo and get_page_from_pmo): a map from u64 keys  *)
(* to values, NULL where nothing is stored.  radix_add stores a value or  *)
(* fails with -ENOMEM and changes nothing; radix_get returns the value    *)
(* stored; radix_free hands every stored value to the value deleter,    *)
(* when there is one, and ends the tree's use.                            *)
(***************************************************************************)
CONSTANTS Keys, Vals, NULL,
  HasDeleter   \* the tree was set up by init_radix_w_deleter

VARIABLES
  map,      \* the value stored under each key
  ret,      \* what the last radix_get returned
  deleted,  \* the values radix_free handed to the value deleter
  freed     \* radix_free was called

Add(k, v) ==
  /\ ~freed
  /\ map' = [map EXCEPT ![k] = v]
  /\ UNCHANGED <<ret, deleted, freed>>

Get(k) ==
  /\ ~freed
  /\ ret' = map[k]
  /\ UNCHANGED <<map, deleted, freed>>

Free ==
  /\ ~freed
  /\ freed' = TRUE
  /\ deleted' = IF HasDeleter THEN {map[k] : k \in Keys} \ {NULL} ELSE {}
  /\ UNCHANGED <<map, ret>>

Init ==
  /\ map = [k \in Keys |-> NULL]
  /\ ret = NULL
  /\ deleted = {}
  /\ freed = FALSE

\* A failed radix_add is a step that leaves the map as it was.
Next ==
  \/ \E k \in Keys, v \in Vals \cup {NULL} : Add(k, v)
  \/ \E k \in Keys : Get(k)
  \/ Free

Spec == Init /\ [][Next]_<<map, ret, deleted, freed>>
====
