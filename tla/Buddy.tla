------------------------------- MODULE Buddy -------------------------------
(***************************************************************************)
(* The buddy allocator of physical pages (kernel/mm/buddy.c) and its      *)
(* page-level front ends get_pages, free_pages and kmalloc                *)
(* (kernel/mm/kmalloc.c).  All callers hold the big kernel lock, so one   *)
(* call is one atomic step; the steps of a call are functions on a record *)
(* k of the pool's state, composed in code order.                         *)
(*                                                                         *)
(* Addresses are counted in pages: page p of the pool is at address       *)
(* Start + p.  get_buddy_chunk XORs the byte address with                 *)
(* 1 << (order + 12); on page-aligned addresses that is an XOR of the page *)
(* number with 2^order, which is what the model computes.                 *)
(***************************************************************************)
EXTENDS Integers, Sequences, SequencesExt, FiniteSetsExt, Bitwise

CONSTANTS
  NPages,          \* pool->pool_phys_page_num
  Start,           \* pool->pool_start_addr, in pages
  BUDDY_MAX_ORDER, \* number of free lists (from buddy.h)
  BUDDY_PAGE_SIZE, \* 4096
  SLAB_MAX_SIZE,   \* 1 << SLAB_MAX_ORDER: kmalloc serves sizes up to it from slab
  NULL,
  WildAddr,        \* what page_to_virt computes from a NULL page
  Orders,          \* the orders callers pass to get_pages
  Sizes            \* the sizes callers pass to kmalloc

Pages == 0 .. NPages - 1
ListIds == 0 .. BUDDY_MAX_ORDER - 1

ASSUME NPages \in Nat \ {0} /\ Start \in Nat /\ BUDDY_MAX_ORDER \in Nat \ {0}
ASSUME Orders \subseteq Nat /\ Sizes \subseteq Nat
ASSUME NULL \notin Int /\ WildAddr \notin Int

VARIABLES
  order,       \* page->order
  allocated,   \* page->allocated
  free_list,   \* pool->free_lists[o].free_list, head first
  nr_free,     \* pool->free_lists[o].nr_free
  owned,       \* head pages callers hold (returned and not yet freed)
  last,        \* the last call of get_pages or kmalloc and its result
  oob          \* a free list past free_lists[BUDDY_MAX_ORDER-1] was read

vars == <<order, allocated, free_list, nr_free, owned, last, oob>>

KS == [order |-> order, allocated |-> allocated, free_list |-> free_list,
       nr_free |-> nr_free, oob |-> oob]

Commit(k) ==
  /\ order' = k.order /\ allocated' = k.allocated
  /\ free_list' = k.free_list /\ nr_free' = k.nr_free /\ oob' = k.oob

\* list_add puts the node first; list_del unlinks it.
list_add(p, l) == Cons(p, l)
list_del(p, l) == Remove(l, p)

\* get_buddy_chunk: the page whose address differs in bit `order`, or NULL
\* when that address is outside the pool.
get_buddy_chunk(k, p) ==
  LET b == (Start + p) ^^ (2 ^ k.order[p])
  IN  IF b < Start \/ b >= Start + NPages THEN NULL ELSE b - Start

RECURSIVE split_page_nodec(_, _, _)
split_page_nodec(k, ord, p) ==
  IF k.order[p] = 0 \/ k.allocated[p] = 1 \/ k.order[p] <= ord THEN <<k, p>>
  ELSE
    LET r  == IF k.order[p] > ord + 1 THEN split_page_nodec(k, ord + 1, p) ELSE <<k, p>>
        pg == r[2]
        o  == r[1].order[pg]
        k1 == [r[1] EXCEPT !.free_list[o] = list_del(pg, @), !.order[pg] = o - 1]
        b  == get_buddy_chunk(k1, pg)
        k2 == [k1 EXCEPT !.order[b] = o - 1, !.allocated[b] = 0]
    IN  <<[k2 EXCEPT !.free_list[o - 1] = list_add(b, list_add(pg, @)),
                     !.nr_free[o - 1] = @ + 2], pg>>

\* split_page(pool, ord, p): split the free block p down to order ord,
\* returning <<k, page>>; the lower half stays `page`, both halves go on
\* the list of the lower order.
RECURSIVE split_page(_, _, _)
split_page(k, ord, p) ==
  IF k.order[p] = 0 \/ k.allocated[p] = 1 \/ k.order[p] <= ord THEN <<k, p>>
  ELSE
    LET r  == IF k.order[p] > ord + 1 THEN split_page(k, ord + 1, p) ELSE <<k, p>>
        pg == r[2]
        o  == r[1].order[pg]
        k1 == [r[1] EXCEPT !.nr_free[o] = @ - 1,
                           !.free_list[o] = list_del(pg, @),
                           !.order[pg] = o - 1]
        b  == get_buddy_chunk(k1, pg)
        k2 == [k1 EXCEPT !.order[b] = o - 1, !.allocated[b] = 0]
    IN  <<[k2 EXCEPT !.free_list[o - 1] = list_add(b, list_add(pg, @)),
                     !.nr_free[o - 1] = @ + 2], pg>>

FirstFit_gt1(k, ord) ==
  LET fit == {i \in ord .. BUDDY_MAX_ORDER - 1 : k.nr_free[i] > 1}
  IN  IF fit # {} THEN Min(fit)
      ELSE IF ord >= BUDDY_MAX_ORDER THEN ord ELSE BUDDY_MAX_ORDER

\* The loop of buddy_get_pages: the first list of order >= ord with
\* nr_free >= 1, BUDDY_MAX_ORDER when there is none, and ord itself when
\* ord is already past the last list.
FirstFit(k, ord) ==
  LET fit == {i \in ord .. BUDDY_MAX_ORDER - 1 : k.nr_free[i] >= 1}
  IN  IF fit # {} THEN Min(fit)
      ELSE IF ord >= BUDDY_MAX_ORDER THEN ord ELSE BUDDY_MAX_ORDER

\* Taking the first page of free list o and marking it allocated.
TakeFirst(k, o, p) ==
  [k EXCEPT !.free_list[o] = list_del(p, @), !.nr_free[o] = @ - 1,
            !.allocated[p] = 1]

\* buddy_get_pages(pool, ord), returning <<k, page>>.  A list index past
\* the array is flagged in oob; what is read there is undefined.
buddy_get_pages(k, ord) ==
  LET oi == FirstFit(k, ord) IN
  CASE oi = ord /\ ord >= BUDDY_MAX_ORDER -> <<[k EXCEPT !.oob = TRUE], NULL>>
    [] oi = ord -> <<TakeFirst(k, ord, Head(k.free_list[ord])), Head(k.free_list[ord])>>
    [] oi >= BUDDY_MAX_ORDER -> <<k, NULL>>
    [] OTHER -> LET r == split_page(k, ord, Head(k.free_list[oi]))
                IN  <<TakeFirst(r[1], ord, r[2]), r[2]>>

merge_page_once(k, p) ==
  LET b == get_buddy_chunk(k, p)
      o == k.order[p]
      m == IF b # NULL /\ b < p THEN b ELSE p
  IN  IF o >= BUDDY_MAX_ORDER - 1 \/ k.allocated[p] = 1 THEN k
      ELSE IF b = NULL \/ k.allocated[b] = 1 \/ k.order[b] # o THEN k
      ELSE [k EXCEPT !.nr_free[o] = @ - 2, !.nr_free[o + 1] = @ + 1,
                     !.free_list[o] = list_del(b, list_del(p, @)),
                     !.order[m] = o + 1,
                     !.free_list[o + 1] = list_add(m, @)]

RECURSIVE merge_page_keephead(_, _)
merge_page_keephead(k, p) ==
  LET b == get_buddy_chunk(k, p)
      o == k.order[p]
  IN  IF o >= BUDDY_MAX_ORDER - 1 \/ k.allocated[p] = 1 THEN k
      ELSE IF b = NULL \/ k.allocated[b] = 1 \/ k.order[b] # o THEN k
      ELSE merge_page_keephead(
             [k EXCEPT !.nr_free[o] = @ - 2, !.nr_free[o + 1] = @ + 1,
                       !.free_list[o] = list_del(b, list_del(p, @)),
                       !.order[p] = o + 1,
                       !.free_list[o + 1] = list_add(p, @)], p)

\* merge_page: merge p with its buddy while the buddy is a free block of
\* the same order, the lower page becoming the head.
RECURSIVE merge_page(_, _)
merge_page(k, p) ==
  LET b == get_buddy_chunk(k, p)
      o == k.order[p]
      m == IF b # NULL /\ b < p THEN b ELSE p
  IN  IF o >= BUDDY_MAX_ORDER - 1 \/ k.allocated[p] = 1 THEN k
      ELSE IF b = NULL \/ k.allocated[b] = 1 \/ k.order[b] # o THEN k
      ELSE merge_page(
             [k EXCEPT !.nr_free[o] = @ - 2, !.nr_free[o + 1] = @ + 1,
                       !.free_list[o] = list_del(b, list_del(p, @)),
                       !.order[m] = o + 1,
                       !.free_list[o + 1] = list_add(m, @)], m)

\* buddy_free_pages: put p on the list of its order, then merge.
buddy_free_pages(k, p) ==
  merge_page([k EXCEPT !.allocated[p] = 0,
                       !.nr_free[k.order[p]] = @ + 1,
                       !.free_list[k.order[p]] = list_add(p, @)], p)

\* init_buddy: every page allocated with order 0, then each freed in turn.
init_buddy ==
  LET k0 == [order |-> [p \in Pages |-> 0], allocated |-> [p \in Pages |-> 1],
             free_list |-> [o \in ListIds |-> <<>>],
             nr_free |-> [o \in ListIds |-> 0], oob |-> FALSE]
  IN  FoldLeft(buddy_free_pages, k0, [i \in 1 .. NPages |-> i - 1])

page_to_virt_nostart(p) == IF p = NULL THEN WildAddr ELSE p

\* page_to_virt: the address of a page; from NULL the pointer arithmetic
\* (NULL - page_metadata) * BUDDY_PAGE_SIZE + start yields a wild address.
page_to_virt(p) == IF p = NULL THEN WildAddr ELSE Start + p

\* virt_to_page: the page of an address, (addr - start) / BUDDY_PAGE_SIZE.
virt_to_page(addr) == addr - Start

\* size_to_page_order: the least order whose block holds `size` bytes.
RECURSIVE HalveCount(_, _)
HalveCount(tmp, ord) == IF tmp > 1 THEN HalveCount(tmp \div 2, ord + 1) ELSE ord

size_to_page_order_ge(size) ==
  LET pg_num == (size + BUDDY_PAGE_SIZE - 1) \div BUDDY_PAGE_SIZE
      ord    == HalveCount(pg_num, 0)
  IN  IF pg_num >= 2 ^ ord THEN ord + 1 ELSE ord

size_to_page_order(size) ==
  LET pg_num == (size + BUDDY_PAGE_SIZE - 1) \div BUDDY_PAGE_SIZE
      ord    == HalveCount(pg_num, 0)
  IN  IF pg_num > 2 ^ ord THEN ord + 1 ELSE ord

-----------------------------------------------------------------------------

Init ==
  /\ order = init_buddy.order /\ allocated = init_buddy.allocated
  /\ free_list = init_buddy.free_list /\ nr_free = init_buddy.nr_free
  /\ oob = FALSE
  /\ owned = {}
  /\ last = [size |-> 0, page |-> NULL, ret |-> NULL]

\* A call that obtains a block: buddy_get_pages, then page_to_virt; size
\* is the kmalloc size, 0 for get_pages.
Obtain(ord, size) ==
  LET r == buddy_get_pages(KS, ord) IN
  /\ Commit(r[1])
  /\ owned' = IF r[2] = NULL THEN owned ELSE owned \cup {r[2]}
  /\ last' = [size |-> size, page |-> r[2], ret |-> page_to_virt(r[2])]

\* get_pages(order) (page tables, vmspace, page faults).
get_pages(ord) == ~oob /\ Obtain(ord, 0)

\* kmalloc(size) for sizes past the slab: order 0 up to one page, else
\* size_to_page_order.
kmalloc(size) ==
  /\ ~oob
  /\ size > SLAB_MAX_SIZE
  /\ Obtain(IF size <= BUDDY_PAGE_SIZE THEN 0 ELSE size_to_page_order(size), size)

\* free_pages(addr) of a block a caller holds, at address page_to_virt(p):
\* virt_to_page, then buddy_free_pages.
free_pages(p) ==
  /\ ~oob
  /\ Commit(buddy_free_pages(KS, virt_to_page(page_to_virt(p))))
  /\ owned' = owned \ {p}
  /\ UNCHANGED last

\* kfree(addr): init_buddy zeroes the page metadata and only the slab
\* allocator sets page->slab, so on a block of the pool p_page is non-NULL,
\* p_page->slab is NULL and kfree takes buddy_free_pages, whichever of
\* kmalloc and get_pages handed the block out.
kfree(p) ==
  /\ ~oob
  /\ Commit(buddy_free_pages(KS, virt_to_page(page_to_virt(p))))
  /\ owned' = owned \ {p}
  /\ UNCHANGED last

Next ==
  \/ \E ord \in Orders : get_pages(ord)
  \/ \E size \in Sizes : kmalloc(size)
  \/ \E p \in owned : free_pages(p)
  \/ \E p \in owned : kfree(p)

Spec == Init /\ [][Next]_vars

-----------------------------------------------------------------------------

Size(p) == 2 ^ order[p]
Block(p) == p .. p + Size(p) - 1
FreeHeads == UNION {ToSet(free_list[o]) : o \in ListIds}

TypeOK ==
  /\ order \in [Pages -> 0 .. BUDDY_MAX_ORDER - 1]
  /\ allocated \in [Pages -> {0, 1}]
  /\ free_list \in [ListIds -> Seq(Pages)]
  /\ nr_free \in [ListIds -> 0 .. NPages]
  /\ owned \subseteq Pages
  /\ last.ret \in (Start .. Start + NPages - 1) \cup {NULL, WildAddr}
  /\ oob \in BOOLEAN

\* The free lists and their counters agree after any sequence of splits
\* and merges: nr_free[o] is the length of list o, each listed page is a
\* free head of order o and is listed once.
FreeListsConsistent ==
  \A o \in ListIds :
    /\ nr_free[o] = Len(free_list[o])
    /\ \A i \in DOMAIN free_list[o] :
         LET p == free_list[o][i] IN
         order[p] = o /\ allocated[p] = 0
         /\ \A j \in DOMAIN free_list[o] : free_list[o][j] = p => i = j
    /\ \A o2 \in ListIds \ {o} : ToSet(free_list[o]) \cap ToSet(free_list[o2]) = {}

\* The free blocks and the blocks callers hold tile the pool: every page
\* lies in exactly one of them, and each block is aligned to its size in
\* the address space, as the XOR buddy computation requires.
BlocksTile ==
  LET heads == FreeHeads \cup owned IN
  /\ FreeHeads \cap owned = {}
  /\ \A x \in Pages : Cardinality({h \in heads : x \in Block(h)}) = 1
  /\ \A h \in heads : (Start + h) % Size(h) = 0

\* Freeing leaves no two free buddies of the same order unmerged below
\* the largest order.
FullyCoalesced ==
  \A p \in FreeHeads :
    order[p] < BUDDY_MAX_ORDER - 1 =>
      LET b == get_buddy_chunk(KS, p) IN
      b = NULL \/ b \notin FreeHeads \/ order[b] # order[p]

\* get_pages and kmalloc fail only when no free block of the requested
\* order or larger exists.
NoSpuriousFailure ==
  [][\A ord \in Orders \cup {size_to_page_order(s) : s \in Sizes} :
       (\E size \in Sizes \cup {0} : Obtain(ord, size)) /\ last'.page = NULL =>
         \A o \in ListIds : o >= ord => free_list[o] = <<>>]_vars

\* A failed allocation is reported to the caller as NULL (kzalloc and
\* handle_trans_fault test the result against NULL).
FailureReturnsNull == last.page = NULL => last.ret = NULL

\* No request reads a free list past the end of free_lists.
NoListOverrun == ~oob

\* The block kmalloc hands out, as long as the caller holds it, is the
\* smallest block that holds the requested size: size_to_page_order and
\* the split down to that order agree.
KmallocBlockFits ==
  last.size > 0 /\ last.page \in owned =>
    LET o == order[last.page] IN
    /\ 2 ^ o * BUDDY_PAGE_SIZE >= last.size
    /\ (o = 0 \/ 2 ^ (o - 1) * BUDDY_PAGE_SIZE < last.size)
=============================================================================
