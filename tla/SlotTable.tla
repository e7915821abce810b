------------------------------ MODULE SlotTable ------------------------------
(***************************************************************************)
(* The slot table of one process (process/process.c, process/process.h): *)
(* the array slots of capability slots, the bitmap slots_bmp of the ids  *)
(* in use, and full_slots_bmp, whose bit w is meant to say that word w   *)
(* of slots_bmp is all ones (process.h, struct slot_table).  Each array  *)
(* is a function over the indices kzalloc gave it, so a read past the    *)
(* allocation is visible.  alloc_slot_id, with expand_slot_table, and    *)
(* the alloc and free of cap_alloc and cap_free are single steps (the    *)
(* big kernel lock); so is the lookup of get_opaque (obj_get).           *)
(***************************************************************************)
EXTENDS Integers, FiniteSets

CONSTANTS
  BITS_PER_LONG,  \* the width of a bitmap word (64 in the kernel)
  MaxSize,        \* slots_size beyond which kzalloc fails (bound)
  AllocFails,     \* kzalloc and kmalloc may fail before the bound
  GarbageOnes     \* a word read past an allocation may be all ones

BASE_OBJECT_NUM == BITS_PER_LONG

DIV_ROUND_UP(n, d) == (n + d - 1) \div d
BITS_TO_LONGS(n) == DIV_ROUND_UP(n, BITS_PER_LONG)

\* Slot ids user code may pass to syscalls taking a cap (an int made from
\* a u64 cap, so also negative), from -1 to one past the largest table.
Ids == -1 .. MaxSize

ASSUME MaxSize % BASE_OBJECT_NUM = 0 /\ MaxSize >= 2 * BASE_OBJECT_NUM

VARIABLES
  slots_size,      \* slot_table->slots_size
  slots,           \* slots[i]: an object_slot is installed at id i
  slots_bmp,       \* the bits of slot_table->slots_bmp
  full_slots_bmp,  \* the bits of slot_table->full_slots_bmp
  oob,             \* a read past the end of an array happened
  panic            \* a BUG fired

vars == <<slots_size, slots, slots_bmp, full_slots_bmp, oob, panic>>

T == [slots_size |-> slots_size, slots |-> slots, slots_bmp |-> slots_bmp,
      full_slots_bmp |-> full_slots_bmp, oob |-> oob, panic |-> panic]

Commit(t) ==
  /\ slots_size' = t.slots_size /\ slots' = t.slots /\ slots_bmp' = t.slots_bmp
  /\ full_slots_bmp' = t.full_slots_bmp /\ oob' = t.oob /\ panic' = t.panic

Bits(n) == 0 .. n - 1

\* find_next_zero_bit(addr, size, offset): the lowest clear bit in
\* offset .. size - 1, else size (a bit past the array reads as clear).
find_next_zero_bit(b, size, offset) ==
  LET z == {i \in offset .. size - 1 : i \notin DOMAIN b \/ b[i] = 0}
  IN  IF z = {} THEN size ELSE CHOOSE i \in z : \A j \in z : i <= j

\* slot_table_init(slot_table, size): size rounded up to BASE_OBJECT_NUM,
\* then three zeroed arrays of size, BITS_TO_LONGS(size) words and
\* BITS_TO_LONGS(BITS_TO_LONGS(size)) words.
slot_table_init(size0) ==
  LET size == DIV_ROUND_UP(size0, BASE_OBJECT_NUM) * BASE_OBJECT_NUM IN
  [slots_size |-> size, slots |-> [i \in Bits(size) |-> FALSE],
   slots_bmp |-> [i \in Bits(BITS_TO_LONGS(size) * BITS_PER_LONG) |-> 0],
   full_slots_bmp |-> [i \in Bits(BITS_TO_LONGS(BITS_TO_LONGS(size)) * BITS_PER_LONG) |-> 0]]

\* memcpy of the first n entries of old into new.
Copy(new, old, n) == [i \in DOMAIN new |-> IF i < n THEN old[i] ELSE new[i]]

\* expand_slot_table: a table BASE_OBJECT_NUM slots larger, with the old
\* arrays copied in (the old ones are not kfreed).
expand_slot_table_oldlen(t) ==
  LET old == t.slots_size
      n == slot_table_init(old)
  IN  [t EXCEPT !.slots_size = old + BASE_OBJECT_NUM,
                !.slots = Copy(n.slots, t.slots, old),
                !.slots_bmp = Copy(n.slots_bmp, t.slots_bmp, BITS_TO_LONGS(old) * BITS_PER_LONG),
                !.full_slots_bmp = Copy(n.full_slots_bmp, t.full_slots_bmp,
                                        BITS_TO_LONGS(BITS_TO_LONGS(old)) * BITS_PER_LONG)]

expand_slot_table(t) ==
  LET old == t.slots_size
      n == slot_table_init(old + BASE_OBJECT_NUM)
  IN  [t EXCEPT !.slots_size = old + BASE_OBJECT_NUM,
                !.slots = Copy(n.slots, t.slots, old),
                !.slots_bmp = Copy(n.slots_bmp, t.slots_bmp, BITS_TO_LONGS(old) * BITS_PER_LONG),
                !.full_slots_bmp = Copy(n.full_slots_bmp, t.full_slots_bmp,
                                        BITS_TO_LONGS(BITS_TO_LONGS(old)) * BITS_PER_LONG)]

\* Whether kzalloc of a table of the given size may succeed, and fail.
ExpandResults(size) ==
  (IF size <= MaxSize THEN {TRUE} ELSE {}) \cup
  (IF AllocFails \/ size > MaxSize THEN {FALSE} ELSE {})

\* The search of alloc_slot_id: the first word whose full bit is clear,
\* then the first clear bit from that word on; -1 for "goto expand".
FindFree_wrongbmp(t) ==
  LET fb == BITS_TO_LONGS(t.slots_size)
      w == find_next_zero_bit(t.slots_bmp, fb, 0)
      e == IF w >= fb THEN t.slots_size
           ELSE find_next_zero_bit(t.slots_bmp, t.slots_size, w * BITS_PER_LONG)
  IN  IF e >= t.slots_size THEN -1 ELSE e

FindFree(t) ==
  LET fb == BITS_TO_LONGS(t.slots_size)
      w == find_next_zero_bit(t.full_slots_bmp, fb, 0)
      e == IF w >= fb THEN t.slots_size
           ELSE find_next_zero_bit(t.slots_bmp, t.slots_size, w * BITS_PER_LONG)
  IN  IF e >= t.slots_size THEN -1 ELSE e

\* What the word full_slots_bmp[e / BITS_PER_LONG] may hold when read:
\* the word if it is in the array, anything past it.
WordAllOnes(t, w) ==
  IF (w + 1) * BITS_PER_LONG <= Cardinality(DOMAIN t.full_slots_bmp)
  THEN {\A b \in w * BITS_PER_LONG .. (w + 1) * BITS_PER_LONG - 1 : t.full_slots_bmp[b] = 1}
  ELSE IF GarbageOnes THEN BOOLEAN ELSE {FALSE}

\* alloc_slot_id(process): the set of [t, r] it may end in, r the slot id
\* or -ENOMEM.  After the search succeeds it sets the bit and sets the
\* word's full bit when full_slots_bmp[e / BITS_PER_LONG] reads all ones.
RECURSIVE alloc_slot_id(_)
alloc_slot_id(t) ==
  LET e == FindFree(t) IN
  IF e >= 0
  THEN LET w == e \div BITS_PER_LONG
           t1 == [t EXCEPT !.slots_bmp[e] = 1,
                           !.oob = @ \/ w >= BITS_TO_LONGS(BITS_TO_LONGS(t.slots_size))]
       IN  {[t |-> IF ones THEN [t1 EXCEPT !.full_slots_bmp[w] = 1] ELSE t1, r |-> e] :
              ones \in WordAllOnes(t, w)}
  ELSE UNION {IF ok THEN alloc_slot_id(expand_slot_table(t)) ELSE {[t |-> t, r |-> -1]} :
                ok \in ExpandResults(t.slots_size + BASE_OBJECT_NUM)}

\* free_slot_id(process, slot_id): clear its bit and its word's full bit,
\* and the slot pointer.
free_slot_id(t, id) ==
  [t EXCEPT !.slots_bmp[id] = 0, !.full_slots_bmp[id \div BITS_PER_LONG] = 0,
            !.slots[id] = FALSE]

\* install_slot(process, slot_id, slot): BUG_ON a clear bit, then store.
install_slot(t, id) ==
  IF id \notin DOMAIN t.slots_bmp \/ t.slots_bmp[id] = 0 THEN [t EXCEPT !.panic = TRUE]
  ELSE [t EXCEPT !.slots[id] = TRUE]

\* get_slot(process, slot_id): NULL out of 0 .. slots_size - 1.
get_slot(t, id) == IF id < 0 \/ id >= t.slots_size THEN FALSE ELSE t.slots[id]

\* What reading entry id of array a may give: the entry, or when id is
\* past the allocation, zero or (with GarbageOnes) anything.
ReadBit(a, id) ==
  IF id \in DOMAIN a THEN {a[id]} ELSE IF GarbageOnes THEN {0, 1} ELSE {0}

\* is_valid_slot_id: its range test (slot_id < 0 && slot_id >= size) is
\* never true, so get_bit reads slots_bmp at any id; a set bit with a NULL
\* slot is a BUG.  The set of [t, valid] it may end in.
is_valid_slot_id(t, id) ==
  LET t1 == [t EXCEPT !.oob = @ \/ id \notin DOMAIN t.slots_bmp] IN
  UNION {IF bit = 0 THEN {[t |-> t1, valid |-> FALSE]}
         ELSE {[t |-> IF slot THEN t1 ELSE [t1 EXCEPT !.panic = TRUE], valid |-> slot] :
                 slot \in IF id \in DOMAIN t.slots THEN {t.slots[id]}
                          ELSE IF GarbageOnes THEN BOOLEAN ELSE {FALSE}} :
         bit \in ReadBit(t.slots_bmp, id)}

-----------------------------------------------------------------------------
(* The steps *)

\* cap_alloc(process, obj, rights): alloc_slot_id (-ENOMEM when it
\* fails), kmalloc of the slot (on failure free_slot_id), install_slot.
cap_alloc_noundo ==
  /\ ~panic
  /\ \E o \in alloc_slot_id(T) :
       IF o.r < 0 THEN Commit(o.t)
       ELSE \/ Commit(install_slot(o.t, o.r))
            \/ AllocFails /\ Commit(o.t)

cap_alloc ==
  /\ ~panic
  /\ \E o \in alloc_slot_id(T) :
       IF o.r < 0 THEN Commit(o.t)
       ELSE \/ Commit(install_slot(o.t, o.r))
            \/ AllocFails /\ Commit(free_slot_id(o.t, o.r))

\* cap_free(process, slot_id): -ECAPBILITY without a slot, else
\* free_slot_id (the object's reference is Capability's).
cap_free(id) ==
  /\ ~panic
  /\ get_slot(T, id)
  /\ Commit(free_slot_id(T, id))

\* get_opaque(process, slot_id, ...), the lookup of obj_get: NULL when
\* is_valid_slot_id says no; the object reference is Capability's.
get_opaque(id) ==
  /\ ~panic
  /\ \E o \in is_valid_slot_id(T, id) : Commit(o.t)

\* process_create: process_init(process, BASE_OBJECT_NUM), then the
\* process's own cap at PROCESS_OBJ_ID 0 and its vmspace's at 1.
Init ==
  LET t0 == slot_table_init(BASE_OBJECT_NUM) IN
  /\ slots_size = t0.slots_size
  /\ slots = [i \in DOMAIN t0.slots |-> i \in {0, 1}]
  /\ slots_bmp = [i \in DOMAIN t0.slots_bmp |-> IF i \in {0, 1} THEN 1 ELSE 0]
  /\ full_slots_bmp = t0.full_slots_bmp
  /\ oob = FALSE
  /\ panic = FALSE

Next ==
  \/ cap_alloc
  \/ \E id \in Ids : cap_free(id)
  \/ \E id \in Ids : get_opaque(id)

Spec == Init /\ [][Next]_vars

-----------------------------------------------------------------------------

TypeOK ==
  /\ slots_size \in {n * BASE_OBJECT_NUM : n \in 1 .. MaxSize \div BASE_OBJECT_NUM}
  /\ slots \in [Bits(slots_size) -> BOOLEAN]
  /\ slots_bmp \in [Bits(BITS_TO_LONGS(slots_size) * BITS_PER_LONG) -> {0, 1}]
  /\ full_slots_bmp \in [Bits(BITS_TO_LONGS(BITS_TO_LONGS(slots_size)) * BITS_PER_LONG) -> {0, 1}]
  /\ oob \in BOOLEAN /\ panic \in BOOLEAN

\* An id's bit in slots_bmp is set exactly when a slot is installed at it,
\* between steps: cap_alloc undoes alloc_slot_id when the slot's kmalloc
\* fails, cap_free clears both, and expand_slot_table copies both.
SlotsMatchBitmap ==
  \A i \in DOMAIN slots : slots[i] <=> slots_bmp[i] = 1

\* alloc_slot_id hands out the lowest id whose bit is clear, the
\* allocation Capability assumes, however full_slots_bmp was set (by the
\* check at process.c:129 that reads past its end).
Lowest(b) == CHOOSE i \in 0 .. Cardinality(DOMAIN b) : (i \notin DOMAIN b \/ b[i] = 0) /\
                                 \A j \in 0 .. i - 1 : j \in DOMAIN b /\ b[j] = 1

AllocReturnsLowestFree ==
  [][\A i \in DOMAIN slots_bmp' :
       slots_bmp'[i] = 1 /\ (i \notin DOMAIN slots_bmp \/ slots_bmp[i] = 0)
       => i = Lowest(slots_bmp)]_vars

\* Bit w of full_slots_bmp is set only when word w of slots_bmp is all
\* ones, as the comment of struct slot_table (process.h) says.
FullBitsSound ==
  \A w \in DOMAIN full_slots_bmp :
    full_slots_bmp[w] = 1 =>
      \A b \in w * BITS_PER_LONG .. (w + 1) * BITS_PER_LONG - 1 :
        b \in DOMAIN slots_bmp /\ slots_bmp[b] = 1

\* No lookup reads past slots_bmp or slots.
NoOutOfBoundsRead == ~oob
====
