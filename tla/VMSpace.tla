------------------------------- MODULE VMSpace -------------------------------
(***************************************************************************)
(* The address space of one process (mm/vmregion.c, mm/vm_syscall.c,     *)
(* mm/page_table.c, exception/pgfault.c): its list of vmregions, the     *)
(* physical memory objects (PMOs) it holds capabilities to, its heap     *)
(* region, and its page table, seen as the last-level entry of each      *)
(* virtual page.  Each syscall and each page fault is one atomic step    *)
(* (the big kernel lock).                                                *)
(*                                                                         *)
(* Addresses and sizes are in bytes with a small PAGE_SIZE, so that the  *)
(* rounding of the code (ROUND_UP, ROUND_DOWN, the byte-level overlap    *)
(* test) is kept.  A physical page is named by a pair: <<p, i>> is page  *)
(* i of the contiguous memory kmalloc gave PMO_DATA p, <<Anon, n>> the   *)
(* n-th page a page fault took from get_pages.  The intermediate page    *)
(* table levels are not state: get_next_ptp builds them on demand.       *)
(***************************************************************************)
EXTENDS Integers, Sequences, SequencesExt, FiniteSets

CONSTANTS
  PAGE_SIZE,
  NV,           \* virtual pages of the modelled address range
  HEAP_START,   \* vmspace->user_current_heap
  Pmos,         \* PMO objects obj_alloc may return
  MaxVmrs,      \* vmregions kmalloc can provide (bound)
  MaxFaults,    \* pages page faults may take from get_pages (bound)
  MaxReqs,      \* requests of one sys_create_pmos or sys_map_pmos (bound)
  NULL, Anon,
  Undef,        \* a byte of memory kmalloc handed out without clearing it
  STACK_BASE,   \* ROOT_THREAD_STACK_BASE
  STACK_SIZE,   \* ROOT_THREAD_STACK_SIZE
  Segments,     \* the program headers of the root binary, in file order
  StackPmo,     \* the PMOs obj_alloc returns for the stack and, by segment
  SegPmos,      \* index, for each PT_LOAD segment
  UserElf,      \* the program headers of the binary user code spawns
  TMP_VADDR,    \* where parse_elf_from_binary maps each segment's PMO
  CPIO_BIN,     \* where the newc archive user code reads binaries from lies
  CpioFiles,    \* the files of that archive, in order: [name, size]
  UserBinPath,  \* the path spawn passes to readelf_from_kernel_cpio
  CpioFileLists,  \* the file lists CpioExtractFindsFile tries
  CreateSizes, CreateTypes,  \* sys_create_pmo arguments user code passes
  MapAddrs, Perms,           \* sys_map_pmo addresses and permissions
  UnmapAddrs,                \* sys_unmap_pmo addresses
  BrkAddrs,                  \* sys_handle_brk arguments other than 0
  AccessAddrs,               \* addresses user code reads or writes
  UnmapAsMapped,    \* user code unmaps a region at its start, with the PMO
                    \* and PMO size it was mapped with
  BrkInitFirst,     \* user code calls brk(0) once, before growing the heap
  CpioFirst,        \* user code calls usys_fs_load_cpio before any other
                    \* syscall, as every lab program's main does
  WritesToWritable  \* user code writes only to regions mapped writable

PMO_ANONYM == 0
PMO_DATA == 1
PMO_SHM == 3
PMO_DEVICE == 5

VmrIds == 1 .. MaxVmrs
VA == 0 .. NV * PAGE_SIZE - 1
VPages == 0 .. NV - 1

\* ROUND_UP and ROUND_DOWN of common/macro.h, for n = PAGE_SIZE.
ROUND_UP_noround(x) == x

ROUND_UP(x) == ((x + PAGE_SIZE - 1) \div PAGE_SIZE) * PAGE_SIZE
ROUND_DOWN(x) == (x \div PAGE_SIZE) * PAGE_SIZE

\* GET_L3_INDEX and the upper-level indices together: the virtual page.
VPN(va) == va \div PAGE_SIZE

ASSUME /\ \A a \in MapAddrs, s \in CreateSizes :
            ROUND_DOWN(a) + ROUND_UP(s) <= NV * PAGE_SIZE
       /\ \A a \in UnmapAddrs, s \in CreateSizes :
            a + ROUND_UP(s) <= NV * PAGE_SIZE + PAGE_SIZE - 1
       /\ \A a \in BrkAddrs : a <= NV * PAGE_SIZE
       /\ Perms \subseteq {"R", "RW"}

VARIABLES
  pmo,       \* pmo[p]: NULL, or [type, size] after pmo_init
  vmr,       \* vmr[i]: NULL (free memory), or [start, size, perm, pmo]
  vmr_list,  \* vmspace->vmr_list, newest first
  heap_vmr,  \* vmspace->heap_vmr
  pgtbl,     \* pgtbl[v]: NULL (invalid) or [frame, write] of the L3 entry
  nfault,    \* pages taken by page faults so far
  panic,     \* a BUG_ON fired or the kernel dereferenced NULL
  uaf,       \* sys_handle_brk wrote a vmregion that had been kfreed
  data,      \* data[p][o]: the byte at offset o of PMO_DATA p, if written
  user_elf,  \* the elf_pmo of each PT_LOAD segment of the last parsed
             \* UserElf, or NULL
  cpio       \* the archive readable at CPIO_BIN: NULL before sys_fs_load_cpio

vars == <<pmo, vmr, vmr_list, heap_vmr, pgtbl, nfault, panic, uaf, data, user_elf, cpio>>

KS == [pmo |-> pmo, vmr |-> vmr, vmr_list |-> vmr_list, heap_vmr |-> heap_vmr,
       pgtbl |-> pgtbl, nfault |-> nfault, panic |-> panic, uaf |-> uaf,
       data |-> data, user_elf |-> user_elf, cpio |-> cpio]

Commit(k) ==
  /\ pmo' = k.pmo /\ vmr' = k.vmr /\ vmr_list' = k.vmr_list
  /\ heap_vmr' = k.heap_vmr /\ pgtbl' = k.pgtbl /\ nfault' = k.nfault
  /\ panic' = k.panic /\ uaf' = k.uaf /\ data' = k.data
  /\ user_elf' = k.user_elf /\ cpio' = k.cpio

-----------------------------------------------------------------------------
(* vmregion.c helpers *)

\* alloc_vmregion: kmalloc of a vmregion, NULL when none is left.
alloc_vmregion(k) ==
  LET free == {i \in VmrIds : k.vmr[i] = NULL}
  IN  IF free = {} THEN NULL ELSE Min(free)

InVmr(r, a) == a >= r.start /\ a < r.start + r.size

\* check_vmr_intersect: does the first or the last byte of the new region
\* fall inside a region of the list?
check_vmr_intersect_noend(k, r) ==
  \E i \in ToSet(k.vmr_list) : InVmr(k.vmr[i], r.start)

check_vmr_intersect(k, r) ==
  LET new_end == r.start + r.size - 1 IN
  \E i \in ToSet(k.vmr_list) :
    InVmr(k.vmr[i], r.start) \/ InVmr(k.vmr[i], new_end)

\* find_vmr_for_va: the first region of the list that holds addr.
find_vmr_for_va(k, addr) ==
  LET j == SelectInSeq(k.vmr_list, LAMBDA i : InVmr(k.vmr[i], addr))
  IN  IF j = 0 THEN NULL ELSE k.vmr_list[j]

\* add_vmr_to_vmspace after a passed check: list_add at the head.
add_vmr_to_vmspace(k, id, r) ==
  [k EXCEPT !.vmr[id] = r, !.vmr_list = Cons(id, @)]

\* del_vmr_from_vmspace: list_del and kfree.
del_vmr_from_vmspace(k, id) ==
  [k EXCEPT !.vmr_list = Remove(@, id), !.vmr[id] = NULL]

-----------------------------------------------------------------------------
(* page_table.c *)

\* set_pte_flags(entry, flags, USER_PTE): AP is read-write for EL0 exactly
\* when flags has VMR_WRITE; UXN, PXN, AF, SH and the memory type are the
\* same for every user page of the model.
set_pte_flags(perm) == perm = "RW"

\* map_range_in_pgtbl(pgtbl, va, pa, len, flags): for each of the
\* ROUND_UP(len)/PAGE_SIZE pages, the L3 entry of va + i*PAGE_SIZE gets
\* pa + i*PAGE_SIZE and the AP bits of set_pte_flags.
map_range_in_pgtbl_noadvance(k, va, base, len, perm) ==
  LET n == ROUND_UP(len) \div PAGE_SIZE IN
  [k EXCEPT !.pgtbl = [v \in VPages |->
     IF v \in VPN(va) .. VPN(va) + n - 1
     THEN [frame |-> base, write |-> set_pte_flags(perm)]
     ELSE @[v]]]

map_range_in_pgtbl(k, va, base, len, perm) ==
  LET n == ROUND_UP(len) \div PAGE_SIZE IN
  [k EXCEPT !.pgtbl = [v \in VPages |->
     IF v \in VPN(va) .. VPN(va) + n - 1
     THEN [frame |-> <<base[1], base[2] + v - VPN(va)>>, write |-> set_pte_flags(perm)]
     ELSE @[v]]]

\* unmap_range_in_pgtbl(pgtbl, va, len): is_valid = 0 in the L3 entries
\* of va, va + PAGE_SIZE, ... (va itself is not rounded).
unmap_range_in_pgtbl(k, va, len) ==
  LET n == ROUND_UP(len) \div PAGE_SIZE IN
  [k EXCEPT !.pgtbl = [v \in VPages |->
     IF \E i \in 0 .. n - 1 : v = VPN(va + i * PAGE_SIZE) THEN NULL ELSE @[v]]]

-----------------------------------------------------------------------------
(* vmregion.c: vmspace_map_range, vmspace_unmap_range, init_heap_vmr *)

\* fill_page_table: map the whole PMO at the region's start.
fill_page_table(k, id) ==
  LET r == k.vmr[id] IN
  map_range_in_pgtbl(k, r.start, <<r.pmo, 0>>, k.pmo[r.pmo].size, r.perm)

\* vmspace_map_range(vmspace, va, len, flags, pmo): round va down and len
\* up to a page, allocate and add the region (failing on overlap), then
\* BUG_ON an unknown PMO type and map PMO_DATA at once.
vmspace_map_range(k, va0, len0, perm, p) ==
  LET va == ROUND_DOWN(va0)
      len == IF len0 < PAGE_SIZE THEN PAGE_SIZE ELSE len0
      id == alloc_vmregion(k)
      r == [start |-> va, size |-> len, perm |-> perm, pmo |-> p]
      k1 == add_vmr_to_vmspace(k, id, r)
  IN  CASE id = NULL                    -> k
        [] check_vmr_intersect(k, r)    -> k
        [] k.pmo[p].type \notin {PMO_DATA, PMO_ANONYM, PMO_DEVICE, PMO_SHM}
                                        -> [k1 EXCEPT !.panic = TRUE]
        [] k.pmo[p].type = PMO_DATA     -> fill_page_table(k1, id)
        [] OTHER                        -> k1

\* Its return value is nonzero exactly when no vmregion is left or the
\* new region overlaps one of the list.
vmspace_map_range_fails(k, va0, len0) ==
  LET len == IF len0 < PAGE_SIZE THEN PAGE_SIZE ELSE len0 IN
  \/ alloc_vmregion(k) = NULL
  \/ check_vmr_intersect(k, [start |-> ROUND_DOWN(va0), size |-> len])

\* vmspace_unmap_range(vmspace, va, len): the region holding va is
\* deleted whole (BUG_ON when both va and len differ from it) and
\* ROUND_UP(len) bytes from va are unmapped.
vmspace_unmap_range(k, va, len) ==
  LET id == find_vmr_for_va(k, va) IN
  CASE id = NULL -> k
    [] va # k.vmr[id].start /\ len # k.vmr[id].size -> [k EXCEPT !.panic = TRUE]
    [] OTHER -> unmap_range_in_pgtbl(del_vmr_from_vmspace(k, id), va, len)

\* init_heap_vmr(vmspace, va, pmo): an empty read-write region at va.
init_heap_vmr(k, va, p) ==
  LET id == alloc_vmregion(k)
      r == [start |-> va, size |-> 0, perm |-> "RW", pmo |-> p]
  IN  IF id = NULL \/ check_vmr_intersect(k, r) THEN <<k, NULL>>
      ELSE <<add_vmr_to_vmspace(k, id, r), id>>

-----------------------------------------------------------------------------
(* vm_syscall.c *)

\* pmo_init(pmo, type, len, paddr): the size is len rounded up to pages
\* (a PMO_DATA gets its contiguous pages from kmalloc at once).
pmo_init(type, len) == [type |-> type, size |-> ROUND_UP(len)]

\* sys_create_pmo(size, type): BUG_ON(size == 0), obj_alloc, pmo_init
\* (size rounded up to pages; PMO_DATA gets its pages from kmalloc),
\* cap_alloc.
create_pmo(k, p, size, type) ==
  IF size = 0 THEN [k EXCEPT !.panic = TRUE]
  ELSE [k EXCEPT !.pmo[p] = pmo_init(type, size)]

sys_create_pmo(p, size, type) ==
  /\ ~panic
  /\ pmo[p] = NULL
  /\ Commit(create_pmo(KS, p, size, type))

\* sys_create_device_pmo(paddr, size): the same with PMO_DEVICE, whose
\* start is the given physical address (not modelled).
sys_create_device_pmo(p, size) ==
  /\ ~panic
  /\ pmo[p] = NULL
  /\ Commit(create_pmo(KS, p, size, PMO_DEVICE))

\* The request arrays user code passes to sys_create_pmos and
\* sys_map_pmos: 1 to MaxReqs entries (cnt > MAX_CNT and a failed kmalloc
\* of the copy return an error and change nothing).
Reqs(S) == UNION {[1 .. n -> S] : n \in 1 .. MaxReqs}

\* sys_create_pmos(user_buf, cnt): sys_create_pmo for each request in
\* turn, ps[i] being the PMO obj_alloc returns for request i; a BUG_ON
\* halts the loop with the kernel.
sys_create_pmos(ps, reqs) ==
  LET op(k, i) == IF k.panic THEN k ELSE create_pmo(k, ps[i], reqs[i][1], reqs[i][2])
  IN  /\ ~panic
      /\ IsInjective(ps)
      /\ \A i \in DOMAIN ps : pmo[ps[i]] = NULL
      /\ Commit(FoldLeftDomain(op, KS, reqs))

\* sys_map_pmo(SELF_CAP, pmo_cap, addr, perm): obj_get of the PMO (a bad
\* cap returns -ECAPBILITY and changes nothing), vmspace_map_range with
\* the PMO's size.
map_pmo(k, p, addr, perm) ==
  IF k.pmo[p] = NULL THEN k
  ELSE vmspace_map_range(k, addr, k.pmo[p].size, perm, p)

sys_map_pmo(p, addr, perm) ==
  /\ ~panic
  /\ pmo[p] # NULL
  /\ Commit(map_pmo(KS, p, addr, perm))

\* sys_map_pmos(SELF_CAP, user_buf, cnt): sys_map_pmo for each request
\* [pmo_cap, addr, perm] in turn, each seeing the regions of the ones
\* before.
sys_map_pmos(reqs) ==
  LET op(k, i) == IF k.panic THEN k ELSE map_pmo(k, reqs[i][1], reqs[i][2], reqs[i][3])
  IN  /\ ~panic
      /\ Commit(FoldLeftDomain(op, KS, reqs))

\* sys_unmap_pmo(SELF_CAP, pmo_cap, addr): vmspace_unmap_range with the
\* PMO's size.
sys_unmap_pmo(p, addr) ==
  LET id == find_vmr_for_va(KS, addr) IN
  /\ ~panic
  /\ pmo[p] # NULL
  /\ UnmapAsMapped /\ id # NULL =>
       vmr[id].start = addr /\ vmr[id].pmo = p /\ vmr[id].size = pmo[p].size
  /\ Commit(vmspace_unmap_range(KS, addr, pmo[p].size))

\* sys_handle_brk(0): a new PMO_ANONYM of size 0 and its cap, then
\* init_heap_vmr at user_current_heap; on success it becomes heap_vmr.
brk_init(k, p) ==
  LET k1 == [k EXCEPT !.pmo[p] = pmo_init(PMO_ANONYM, 0)]
      res == init_heap_vmr(k1, HEAP_START, p)
  IN  IF res[2] = NULL THEN res[1] ELSE [res[1] EXCEPT !.heap_vmr = res[2]]

\* sys_handle_brk(addr), addr # 0: through heap_vmr (NULL before brk(0);
\* possibly kfreed by sys_unmap_pmo), grow region and PMO to
\* ROUND_UP(addr - heap); a smaller addr is refused.
brk_grow(k, addr) ==
  LET h == k.heap_vmr
      new_size == ROUND_UP(addr - HEAP_START)
  IN  CASE h = NULL -> [k EXCEPT !.panic = TRUE]
        [] k.vmr[h] = NULL -> [k EXCEPT !.uaf = TRUE]
        [] addr >= HEAP_START + k.vmr[h].size ->
             [k EXCEPT !.pmo[k.vmr[h].pmo].size = new_size,
                       !.vmr[h].size = new_size]
        [] OTHER -> k

sys_handle_brk(addr) ==
  /\ ~panic
  /\ IF addr = 0
     THEN /\ BrkInitFirst => heap_vmr = NULL
          /\ \E p \in Pmos : pmo[p] = NULL /\ Commit(brk_init(KS, p))
     ELSE /\ BrkInitFirst => heap_vmr # NULL
          /\ Commit(brk_grow(KS, addr))

-----------------------------------------------------------------------------
(* process/thread.c: the root process's stack and binary *)

\* PFLAGS2VMRFLAGS: VMR_WRITE exactly when the segment has PF_W (PF_X
\* and PF_R give VMR_EXEC and VMR_READ, the same for every page here).
PFLAGS2VMRFLAGS(pf) == IF "W" \in pf THEN "RW" ELSE "R"

LoadIdx == {i \in DOMAIN Segments : Segments[i].type = "PT_LOAD"}

ASSUME SegPmos \in [LoadIdx -> Pmos \ {StackPmo}] /\ IsInjective(SegPmos)

\* Byte j of the file data of segment i (bin + p_offset + j).
FileByte(i, j) == <<i, j>>

\* seg_map_sz: the segment's bytes from the start of its first page to the
\* end of its last.
seg_map_sz_memsz(s) == ROUND_UP(s.memsz)

seg_map_sz(s) == ROUND_UP(s.memsz + s.vaddr) - ROUND_DOWN(s.vaddr)

\* load_binary(process, vmspace, bin, metadata): for each PT_LOAD
\* segment in turn, a PMO_DATA of seg_map_sz bytes (ps[i], from
\* obj_alloc), p_filesz bytes of the file copied to it at the offset of
\* p_vaddr in its page, and the PMO mapped at ROUND_DOWN(p_vaddr) with
\* the segment's flags; BUG_ON(ret != 0) when the mapping fails.  The
\* rest of the PMO keeps what kmalloc left there.
load_binary(k, ps) ==
  LET op(k0, i) ==
        LET s == Segments[i]
            off == s.vaddr - ROUND_DOWN(s.vaddr)
            k1 == [k0 EXCEPT !.pmo[ps[i]] = pmo_init(PMO_DATA, seg_map_sz(s)),
                             !.data[ps[i]] = [o \in off .. off + s.filesz - 1 |->
                                                FileByte(i, o - off)]]
            bug == vmspace_map_range_fails(k1, ROUND_DOWN(s.vaddr), seg_map_sz(s))
            k2 == vmspace_map_range(k1, ROUND_DOWN(s.vaddr), seg_map_sz(s),
                                    PFLAGS2VMRFLAGS(s.flags), ps[i])
        IN  IF i \notin LoadIdx \/ k0.panic THEN k0
            ELSE [k2 EXCEPT !.panic = @ \/ bug]
  IN  FoldLeftDomain(op, k, Segments)

\* thread_create_main(process, stack_base, stack_size, ..., bin_start,
\* ...), its address-space part: a PMO_DATA stack sp mapped read-write at
\* stack_base (BUG_ON(ret != 0)), then load_binary.
thread_create_main(k, sp, ps) ==
  LET k1 == [k EXCEPT !.pmo[sp] = pmo_init(PMO_DATA, STACK_SIZE)]
      k2 == vmspace_map_range(k1, STACK_BASE, STACK_SIZE, "RW", sp)
  IN  load_binary([k2 EXCEPT !.panic = vmspace_map_range_fails(k1, STACK_BASE, STACK_SIZE)],
                  ps)

-----------------------------------------------------------------------------
(* user/lib/cpio.c: the newc archive reader.  A name is a sequence of    *)
(* characters; an archive is seen as the header each member offset from  *)
(* its start holds, with the hexadecimal fields the header spells.       *)

\* The hexadecimal digits, with their ASCII codes.
HexChars == <<"0", "1", "2", "3", "4", "5", "6", "7", "8", "9",
              "A", "B", "C", "D", "E", "F">>
ASCII(c) == LET i == CHOOSE i \in 1 .. 16 : HexChars[i] = c
            IN  IF i <= 10 THEN 47 + i ELSE 54 + i

\* hex8_u64: eight digits, most significant first; a digit that is not
\* 'A'..'F' is taken to be '0'..'9'.
hex8_u64(s) ==
  FoldLeft(LAMBDA u, c : u * 16 + (IF ASCII(c) \in 65 .. 70 THEN ASCII(c) - 65 + 10
                                   ELSE ASCII(c) - 48), 0, s)

NEWC_HEADER_SIZE == 110   \* sizeof(struct cpio_newc_header)
TRAILER == <<"T", "R", "A", "I", "L", "E", "R", "!", "!", "!">>
ERR_ENOENT == -2          \* ERR_PTR(-ENOENT)
CPIO_BUG == -1            \* a BUG_ON ended the caller

\* ALIGN4_UP(x): (x & ~3) + (!!(x & 3) << 2).
ALIGN4_UP_down(x) == x - (x % 4)

ALIGN4_UP(x) == (x - (x % 4)) + (IF x % 4 # 0 THEN 4 ELSE 0)

\* cpio_extract_single(addr, target, filler): from the header at p,
\* cpio_parse_header (a header is only where the archive put one: the
\* magic check is a BUG_ON elsewhere), stop at TRAILER!!!, step over the
\* name to the 4-aligned data, hand the data of a member named target to
\* the filler, and otherwise step over the data to the next 4-aligned
\* header.  The leading '/' of target is skipped.
RECURSIVE cpio_extract_walk(_, _, _)
cpio_extract_walk(ar, target, p) ==
  IF p - CPIO_BIN \notin DOMAIN ar THEN CPIO_BUG
  ELSE LET h == ar[p - CPIO_BIN]
           d == ALIGN4_UP(p + NEWC_HEADER_SIZE + hex8_u64(h.c_namesize))
       IN  CASE h.name = TRAILER -> ERR_ENOENT
             [] h.name = target -> d
             [] OTHER -> cpio_extract_walk(ar, target, ALIGN4_UP(d + hex8_u64(h.c_filesize)))

cpio_extract_single(ar, path) == cpio_extract_walk(ar, Tail(path), CPIO_BIN)

\* The newc format of cpio(5), as an archive writer lays it out: each
\* member is the 110-byte header, the name and its NUL padded to a
\* multiple of 4 from the member's start, and the data padded to a
\* multiple of 4; a TRAILER!!! member ends the list.
Pad4(n) == ((n + 3) \div 4) * 4
Hex8(n) == [i \in 1 .. 8 |-> HexChars[((n \div 16 ^ (8 - i)) % 16) + 1]]
NewcHeader(f) == [c_namesize |-> Hex8(Len(f.name) + 1), c_filesize |-> Hex8(f.size),
                  name |-> f.name]
MemberLen(f) == Pad4(NEWC_HEADER_SIZE + Len(f.name) + 1) + Pad4(f.size)

RECURSIVE NewcLayout(_, _)
NewcLayout(fs, off) ==
  IF fs = <<>> THEN <<>>
  ELSE (off :> NewcHeader(Head(fs))) @@ NewcLayout(Tail(fs), off + MemberLen(Head(fs)))

NewcArchive(fs) == NewcLayout(fs \o <<[name |-> TRAILER, size |-> 0]>>, 0)

\* Where the data of the first file named name lies, or ERR_ENOENT.
NewcLookup(fs, name) ==
  LET ks == {k \in DOMAIN fs : fs[k].name = name}
      k == Min(ks)
  IN  IF ks = {} THEN ERR_ENOENT
      ELSE CPIO_BIN + FoldLeft(+, 0, [m \in 1 .. k - 1 |-> MemberLen(fs[m])])
                    + Pad4(NEWC_HEADER_SIZE + Len(fs[k].name) + 1)

CpioArchive == NewcArchive(CpioFiles)

\* A byte of the archive, named by its address.
ArchiveByte(a) == <<"cpio", a>>

-----------------------------------------------------------------------------
(* kernel/common/fs.c *)

\* sys_fs_load_cpio(CPIO_BIN): a PMO_DATA of the archive's size, mapped
\* read-only at CPIO_BIN, and the kernel's copy of the archive in it.  Its
\* region and pages lie above the modelled address range.  A failing
\* obj_alloc or cap_alloc changes nothing; a second call's map fails on
\* the region of the first and its copy goes to a PMO nothing maps.
sys_fs_load_cpio ==
  /\ ~panic
  /\ cpio = NULL
  /\ cpio' = CpioArchive
  /\ UNCHANGED <<pmo, vmr, vmr_list, heap_vmr, pgtbl, nfault, panic, uaf, data, user_elf>>

-----------------------------------------------------------------------------
(* user/lib/liblauncher.c: the user-level ELF loader *)

\* A byte user code stores at va: into the PMO page its L3 entry names; a
\* store to a read-only entry is a permission fault (BUG_ON(1)).  A store
\* to an invalid entry (whose fault ends the process) or to a fault page
\* (whose contents are not modelled) changes no modelled state.
UserStore(k, va, v) ==
  LET e == k.pgtbl[VPN(va)] IN
  CASE e = NULL \/ e.frame[1] = Anon -> k
    [] ~e.write -> [k EXCEPT !.panic = TRUE]
    [] OTHER -> [k EXCEPT !.data[e.frame[1]] =
                   (e.frame[2] * PAGE_SIZE + (va % PAGE_SIZE) :> v) @@ @]

UserStores(k, va, vs) == FoldLeftDomain(LAMBDA k0, j : UserStore(k0, va + j - 1, vs[j]), k, vs)

UserLoadIdx == {i \in DOMAIN UserElf : UserElf[i].type = "PT_LOAD"}

\* parse_elf_from_binary(binary, user_elf): for each PT_LOAD segment in
\* turn, usys_create_pmo(seg_map_sz, PMO_DATA) (ps[i]), usys_map_pmo at
\* tmp_vaddr read-write, memset of seg_map_sz bytes there, memcpy of
\* p_filesz bytes to tmp_vaddr + (p_vaddr & OFFSET_MASK), and
\* usys_unmap_pmo.  The file bytes are those at binary + p_offset.
\* BUG_ON(p_filesz > p_memsz) before the PMO, and BUG_ON(ret < 0) after a
\* failed map, spin for good (user/lib/bug.h): panic, and no step after.
parse_memset_memsz(s) == s.memsz

parse_memset_len(s) == seg_map_sz(s)

parse_elf_from_binary(k, ps, binary) ==
  LET op(acc, i) ==
        LET s == UserElf[i]
            k0 == acc[1]
            p == ps[i]
            k1 == create_pmo(k0, p, seg_map_sz(s), PMO_DATA)
            k2 == map_pmo(k1, p, TMP_VADDR, "RW")
            k3 == UserStores(k2, TMP_VADDR, [j \in 1 .. parse_memset_len(s) |-> 0])
            k4 == UserStores(k3, TMP_VADDR + (s.vaddr % PAGE_SIZE),
                             [j \in 1 .. s.filesz |-> ArchiveByte(binary + s.offset + j - 1)])
            k5 == vmspace_unmap_range(k4, TMP_VADDR, k4.pmo[p].size)
        IN  CASE i \notin UserLoadIdx \/ ~acc[2] \/ k0.panic -> acc
              [] s.filesz > s.memsz -> <<[k0 EXCEPT !.panic = TRUE], FALSE>>
              [] vmspace_map_range_fails(k1, TMP_VADDR, k1.pmo[p].size) ->
                   <<[k1 EXCEPT !.panic = TRUE], FALSE>>
              [] OTHER -> <<k5, TRUE>>
      res == FoldLeftDomain(op, <<k, TRUE>>, UserElf)
  IN  IF res[2] THEN [res[1] EXCEPT !.user_elf = ps] ELSE res[1]

\* User code of the root process finds a binary in the archive at
\* CPIO_BIN and parses it into PMOs (single_file_handler), as
\* readelf_from_kernel_cpio does before spawn launches it.  When the file
\* is not there spawn returns the error and nothing changes.
readelf_from_kernel_cpio(ps) ==
  LET start == cpio_extract_single(cpio, UserBinPath) IN
  /\ ~panic
  /\ cpio # NULL
  /\ IsInjective(ps)
  /\ \A i \in UserLoadIdx : pmo[ps[i]] = NULL
  /\ start # ERR_ENOENT
  /\ Commit(IF start = CPIO_BUG THEN [KS EXCEPT !.panic = TRUE]
            ELSE parse_elf_from_binary(KS, ps, start))

-----------------------------------------------------------------------------
(* pgfault.c *)

\* handle_trans_fault(vmspace, fault_addr): the region holding the
\* address, which must be backed by a PMO_ANONYM, gets one page from
\* get_pages mapped at the faulting page with the region's permission.
\* The page is not recorded in the PMO.  Any failure makes do_page_fault
\* call sys_exit, which leaves the address space as it is.
handle_trans_fault(k, va) ==
  LET id == find_vmr_for_va(k, va) IN
  IF id = NULL \/ k.pmo[k.vmr[id].pmo].type # PMO_ANONYM THEN k
  ELSE [map_range_in_pgtbl(k, ROUND_DOWN(va), <<Anon, k.nfault + 1>>,
                           PAGE_SIZE, k.vmr[id].perm)
          EXCEPT !.nfault = @ + 1]

\* do_page_fault on an access of user code to va: a translation fault
\* (invalid L3 entry) goes to handle_trans_fault; a write to a read-only
\* entry is a permission fault, which reaches BUG_ON(1).  The get_pages of
\* a fault is possible while fewer than MaxFaults pages were taken.
do_page_fault(va, write) ==
  LET e == pgtbl[VPN(va)] IN
  /\ ~panic
  /\ \/ /\ e = NULL
        /\ nfault < MaxFaults
        /\ Commit(handle_trans_fault(KS, va))
     \/ /\ e # NULL /\ write /\ ~e.write
        /\ ~WritesToWritable
        /\ panic' = TRUE
        /\ UNCHANGED <<pmo, vmr, vmr_list, heap_vmr, pgtbl, nfault, uaf, data, user_elf, cpio>>

-----------------------------------------------------------------------------

\* The root process once thread_create_main has set up its stack and
\* loaded its binary into an empty address space (boot-time allocation
\* is taken to succeed).
Empty == [pmo |-> [p \in Pmos |-> NULL], vmr |-> [i \in VmrIds |-> NULL],
          vmr_list |-> <<>>, heap_vmr |-> NULL, pgtbl |-> [v \in VPages |-> NULL],
          nfault |-> 0, panic |-> FALSE, uaf |-> FALSE,
          data |-> [p \in Pmos |-> [o \in {} |-> Undef]], user_elf |-> NULL,
          cpio |-> NULL]

Init ==
  LET k == thread_create_main(Empty, StackPmo, SegPmos) IN
  /\ pmo = k.pmo /\ vmr = k.vmr /\ vmr_list = k.vmr_list
  /\ heap_vmr = k.heap_vmr /\ pgtbl = k.pgtbl /\ nfault = k.nfault
  /\ panic = k.panic /\ uaf = k.uaf /\ data = k.data /\ user_elf = k.user_elf
  /\ cpio = k.cpio

\* The PMOs user code names in its syscalls: not those of its own stack
\* and binary, whose caps thread_create_main and load_binary do not hand
\* to it.
ArgPmos == Pmos \ ({StackPmo} \cup Range(SegPmos))

UserCall ==
  \/ \E p \in ArgPmos, size \in CreateSizes, type \in CreateTypes :
       sys_create_pmo(p, size, type)
  \/ \E p \in ArgPmos, size \in CreateSizes : sys_create_device_pmo(p, size)
  \/ \E reqs \in Reqs(CreateSizes \X CreateTypes) :
       \E ps \in [DOMAIN reqs -> ArgPmos] : sys_create_pmos(ps, reqs)
  \/ \E p \in ArgPmos, a \in MapAddrs, perm \in Perms : sys_map_pmo(p, a, perm)
  \/ \E reqs \in Reqs(ArgPmos \X MapAddrs \X Perms) : sys_map_pmos(reqs)
  \/ \E p \in ArgPmos, a \in UnmapAddrs : sys_unmap_pmo(p, a)
  \/ \E a \in BrkAddrs \cup {0} : sys_handle_brk(a)
  \/ \E a \in AccessAddrs, w \in BOOLEAN : do_page_fault(a, w)
  \/ \E ps \in [UserLoadIdx -> ArgPmos] : readelf_from_kernel_cpio(ps)

\* A failed BUG_ON prints and then loops for good, the user library's
\* (user/lib/bug.h) as the kernel's (common/macro.h): no further step.
BUG_ON_spin == panic /\ UNCHANGED vars

Next ==
  \/ sys_fs_load_cpio
  \/ (CpioFirst => cpio # NULL) /\ UserCall
  \/ BUG_ON_spin

Spec == Init /\ [][Next]_vars

-----------------------------------------------------------------------------

Listed == ToSet(vmr_list)
Frames == (Pmos \X (0 .. NV - 1)) \cup ({Anon} \X (1 .. MaxFaults))

TypeOK ==
  /\ pmo \in [Pmos -> {NULL} \cup [type : CreateTypes \cup {PMO_ANONYM, PMO_DATA, PMO_DEVICE},
                                    size : {n * PAGE_SIZE : n \in 0 .. NV}]]
  /\ vmr \in [VmrIds -> {NULL} \cup [start : VA, size : 0 .. NV * PAGE_SIZE,
                                      perm : Perms \cup {"RW"}, pmo : Pmos]]
  /\ vmr_list \in Seq(VmrIds) /\ IsInjective(vmr_list)
  /\ heap_vmr \in VmrIds \cup {NULL}
  /\ pgtbl \in [VPages -> {NULL} \cup [frame : Frames, write : BOOLEAN]]
  /\ nfault \in 0 .. MaxFaults
  /\ \A p \in Pmos : DOMAIN data[p] \subseteq 0 .. NV * PAGE_SIZE - 1
  /\ user_elf \in {NULL} \cup [UserLoadIdx -> Pmos]
  /\ cpio \in {NULL, CpioArchive}

\* check_vmr_intersect keeps the regions of a vmspace pairwise disjoint,
\* across sys_map_pmo, the heap's creation by sys_handle_brk and
\* sys_unmap_pmo.  sys_handle_brk's growth checks nothing; it stays
\* disjoint here only while no region lies above the heap, and
\* MCVMSpace_brkover.cfg puts one there.
VmrsDisjoint ==
  \A i, j \in Listed :
    i # j => \/ vmr[i].start + vmr[i].size <= vmr[j].start
             \/ vmr[j].start + vmr[j].size <= vmr[i].start

\* Every valid page-table entry lies in a region of the list and matches
\* it: a PMO_DATA page is the page of that region's PMO at the page's
\* offset in the region, a fault page belongs to a PMO_ANONYM region, and
\* the entry is writable exactly when the region is.  This relates the
\* page table written by map/unmap_range_in_pgtbl and the page-fault
\* handler to the region list written by vmspace_map/unmap_range.
MappingsMatchVmrs ==
  \A v \in VPages : pgtbl[v] # NULL =>
    LET id == find_vmr_for_va(KS, v * PAGE_SIZE)
        f == pgtbl[v].frame
    IN  /\ id # NULL
        /\ pgtbl[v].write = (vmr[id].perm = "RW")
        /\ IF f[1] = Anon
           THEN pmo[vmr[id].pmo].type = PMO_ANONYM
           ELSE f = <<vmr[id].pmo, v - VPN(vmr[id].start)>>

\* The byte user code reads at va: through the L3 entry of its page to
\* the PMO page it names.
ReadByte(va) ==
  LET e == pgtbl[VPN(va)]
      o == e.frame[2] * PAGE_SIZE + (va % PAGE_SIZE)
  IN  CASE e = NULL -> NULL
        [] e.frame[1] \in Pmos /\ o \in DOMAIN data[e.frame[1]] -> data[e.frame[1]][o]
        [] OTHER -> Undef

\* Every byte of every PT_LOAD segment of the root binary reads, at
\* p_vaddr + j, byte j of the segment's file data, on a page writable
\* exactly when the segment has PF_W, whatever syscalls and faults user
\* code makes afterwards.  This ties load_binary's rounding of seg_map_sz
\* and of the memcpy destination (for a p_vaddr that is not page aligned)
\* to fill_page_table's mapping of the PMO's pages.
ImageLoaded ==
  \A i \in LoadIdx : \A j \in 0 .. Segments[i].filesz - 1 :
    LET va == Segments[i].vaddr + j IN
    /\ ReadByte(va) = FileByte(i, j)
    /\ pgtbl[VPN(va)].write = ("W" \in Segments[i].flags)

\* Every PMO parse_elf_from_binary filled holds the segment as it is to
\* be mapped at ROUND_DOWN(p_vaddr): zeros, p_filesz bytes of file data
\* from the offset of p_vaddr in its page, and zeros to seg_map_sz.  The
\* stores go through the temporary mapping at tmp_vaddr, into whatever
\* page-table entries that mapping left after the user's earlier maps.
\* The file data is that of the archive member the path names, read
\* from p_offset within it.
ElfPmosLoaded ==
  user_elf # NULL =>
    \A i \in UserLoadIdx :
      LET s == UserElf[i]
          off == s.vaddr % PAGE_SIZE
          bin == NewcLookup(CpioFiles, Tail(UserBinPath))
      IN  \A o \in 0 .. seg_map_sz(s) - 1 :
            /\ o \in DOMAIN data[user_elf[i]]
            /\ data[user_elf[i]][o] =
                 IF o - off \in 0 .. s.filesz - 1
                 THEN ArchiveByte(bin + s.offset + o - off) ELSE 0

\* The newc archives of at most two members of CpioFileLists, read for
\* each name they use.
NewcArchivesRead ==
  \A fs \in CpioFileLists :
    \A name \in {f.name : f \in UNION {Range(l) : l \in CpioFileLists}} :
      cpio_extract_single(NewcArchive(fs), <<"/">> \o name) = NewcLookup(fs, name)

\* Once sys_fs_load_cpio mapped the archive, cpio_extract_single finds in
\* it the data of the first member of the name a path gives after its
\* '/', and ENOENT for a name no member has; and so it would in any newc
\* archive of cpio(5) of up to two members in its place: the walk over
\* the headers, names and 4-byte padding of cpio.c lands on each header
\* and on the data the writer put.
CpioExtractFindsFile ==
  cpio # NULL =>
    /\ \A name \in {f.name : f \in Range(CpioFiles)} \cup {<<"x">>} :
         cpio_extract_single(cpio, <<"/">> \o name) = NewcLookup(CpioFiles, name)
    /\ NewcArchivesRead

\* The bytes of a PT_LOAD segment past p_filesz (its .bss) read 0.
BssZeroed ==
  \A i \in LoadIdx : \A j \in Segments[i].filesz .. Segments[i].memsz - 1 :
    ReadByte(Segments[i].vaddr + j) = 0

\* No syscall or fault of user code halts the kernel in a BUG_ON or a
\* NULL dereference.
NoPanic == ~panic

\* sys_handle_brk never writes a vmregion that has been kfreed.
NoUseAfterFree == ~uaf
====
