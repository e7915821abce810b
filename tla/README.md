# TLA+ models of the ChCore lab kernel

This directory holds TLA+ models of the ChCore teaching microkernel in
`src/code/chcore-lab-2021/kernel`, and of the part of its user library
that starts a process (`user/lib/spawn.c`, `user/lib/libmain.c`),
together with:

* the TLC configurations that check them;
* `PROJECT.json`, which lists the components, the runs, the mutants, the map
  from definitions to source lines, the findings and the hazards.

Every module is written from the C source. The names of operators and
actions are those of the C functions they model.

## 1. The system

ChCore is a small AArch64 microkernel. The table lists its parts, the state
each keeps, and the module that models it.

| Part | Source | State | Module |
|------|--------|-------|--------|
| Round-robin scheduler, timer tick | `sched/policy_rr.c`, `sched/sched.c`, `exception/irq.c`, `exception/timer.c` | one FIFO ready queue per CPU; `current_threads[cpu]`; per thread its state, `affinity` (s32, -1 = none) and `budget` | `Scheduler` |
| Big kernel lock | `common/lock.c` | ticket lock `owner`, `next` (u32) | `TicketLock` |
| Objects and capabilities | `process/capability.c` | per object `refcount`; per process a slot table | `Capability` |
| Slot tables | `process/process.c`, `process/process.h` | `slots`, `slots_bmp`, `full_slots_bmp`, `slots_size` | `SlotTable` |
| Processes and threads | `process/process.c`, `process/thread.c` | per process its `thread_list`; per thread `process` and `thread_ctx` | `Capability`, with the scheduler side in `Scheduler` |
| IPC | `ipc/*.c` | server configs, connection bitmaps, connections, shadow threads | `IPC`, which instantiates `Scheduler` |
| Physical memory | `mm/buddy.c`, `mm/kmalloc.c` | buddy free lists, `nr_free`, per page `order` and `allocated` | `Buddy` |
| Virtual memory | `mm/vmregion.c`, `mm/vm_syscall.c`, `mm/page_table.c`, `exception/pgfault.c`, `load_binary` of `process/thread.c` | vmregion list, PMOs, heap region, last-level page-table entries | `VMSpace` |
| User ELF loader, cpio reader | `user/lib/liblauncher.c`, `user/lib/cpio.c` | the segment PMOs and their bytes, `user_elf`; the archive is a constant | `VMSpace` |
| PMO page index | `common/radix.c` | radix tree nodes and value slots | `Radix`, refining `RadixMap` |
| Kernel printk | `common/printk.c` | the local union `u`, the output characters | `Printk` |
| Initial env of a main thread | `process/thread_env.c`, `user/lib/spawn.c`, `user/lib/libmain.c` | the page at the top of the new thread's stack | `InitEnv` |

### How the parts interact

Every kernel entry takes the big kernel lock on entry and releases it on the
way out. A kernel entry is a syscall, or an IRQ taken in user mode or in the
idle thread. So kernel entries on different CPUs never overlap, and every
other module models one kernel entry as one atomic step. `TicketLock` checks
that the lock gives this guarantee.

Within one entry, the steps are written as functions on a record `k` of the
kernel state, composed in the order the code performs them. `Commit(k)`
makes the result the next state.

A syscall runs for the `current_thread` of its CPU. `current_process` is that
thread's `process` field.

Objects are released through the capability layer:

1. `cap_free` of an object's last capability runs its deinit.
2. For a thread, the deinit is `thread_deinit`, which unlinks the thread from
   its process.
3. When the last thread goes, `process_exit` frees every slot of the process.
4. Those frees release further objects, recursively.

Thread creation and exit also drive the scheduler (`sched_enqueue`, `sched`,
`switch_context`). IPC moves the calling thread's CPU to a shadow thread and
back, using the scheduler's own `switch_to_thread`.

Memory users all draw on the buddy pool: `kmalloc`, page tables, PMOs and
page faults.

A new main thread finds argc, argv, envp and the auxiliary vector in the
page at the top of its stack. The kernel writes that page for the root
process (`prepare_env`, from `thread_create_main`). The user library writes
it for every process it spawns (`construct_init_env`, then
`usys_write_pmo` into the child's stack PMO). The child's `_start_c` reads
it.

## 2. Modules

Each module has an `MC` module that gives its constants values. Each `.cfg`
file names the invariants and properties checked.

### `Scheduler.tla` (`MCScheduler.tla`)

State: `state`, `queue` (a sequence per CPU), `current`, `affinity`,
`budget`, the set `live` of threads whose `thread_ctx` exists, and `panic`
(a `BUG_ON` fired).

The helpers keep the C names:

* `rr_sched_enqueue`, `rr_sched_dequeue`, `rr_sched_choose_thread`;
* `switch_to_thread`, with its `BUG_ON` on a target still `TS_READY`;
* `rr_sched_refill_budget`, which `rr_sched` applies to the thread it
  chose (the direct switches of IPC do not refill);
* `rr_sched`, `rr_sched_handle_timer_irq`;
* `switch_context`, with its `BUG_ON`s on the thread it switches to.

There is one action per kernel entry:

* `handle_irq`: `handle_timer_irq` charges the current thread one tick.
  `handle_irq` then charges it again before `rr_sched` and `switch_context`.
* `sys_yield`: the budget is set to 0, then `rr_sched` and `switch_context`
  run.
* `sys_exit`: the thread becomes `TS_EXIT`, then `rr_sched` and
  `switch_context` run.
* `thread_create`: the new thread is enqueued. A failing `sched_enqueue`
  reaches `BUG_ON`.
* `sys_set_affinity`: the affinity check, then the store.

`CpuIdOutOfRange` is the u32 conversion of the s32 affinity in
`rr_sched_enqueue`.

### `TicketLock.tla`

`TicketLock` has `owner`, `next`, the ticket of each CPU inside `lock()`,
and each CPU's place: user, spinning, or in the kernel. Its actions are:

* `lock_take`: the fetch-and-add of `next`;
* `lock_spin`: the wait for `owner` to reach the ticket;
* `try_lock`: it reads `next` and `owner` separately, then stores `next` only
  if they were equal;
* `unlock`: `owner++`.

The counters wrap at `2^Width`.

An earlier version also mapped the lock onto an abstract one-holder lock.
That refinement said no more than `MutualExclusion`, and the same mutant
broke both, so it was dropped.

### `Capability.tla` (`MCCapability.tla`)

State:

* `obj`: none, live or freed, per object;
* `refcount`: negative values stand for a wrapped u64;
* `slots[p][s]`;
* `members`: each process's `thread_list`;
* `tproc`: `thread->process`;
* `tstate`: the thread context, one of live, EXIT, EXITING, destroyed;
* `panic`;
* `uaf`: a write to a freed object happened;
* `ncopy`: the number of copy syscalls so far, bounded.

The objects are processes, threads, one vmspace per process, and the root
thread's stack PMO.

The helpers keep the C names: `obj_alloc`, `obj_get`, `obj_put`,
`cap_alloc`, `cap_copy`, `cap_free`, `obj_free`, `thread_init`,
`thread_deinit` and `process_exit`. `cap_free`, `thread_deinit` and
`process_exit` are mutually RECURSIVE, as in the code.

The actions are:

* `sys_create_process`, `sys_create_thread`, `sys_exit`;
* `sys_cap_copy_to`, `sys_cap_copy_from`;
* `sys_transfer_caps`.

Each takes the code's kmalloc failure points as an input, where the cfg
allows failures.

Only `thread_deinit` reads which threads are `TS_RUNNING`. The model
therefore chooses that set with `\E R \in RunningSets(t)`.

`Init` is computed by `process_create_root`: `process_create`, then
`thread_create_main`, then the get and put of the root thread for
`sched_enqueue`. `thread_create_main` leaves out the segment PMOs that
`load_binary` (called at `thread.c:305`) allocates and caps: they only
take more slots of the root process before user code runs. `VMSpace`
models those PMOs. The failure paths of `cap_copy` (a failed `cap_alloc`
in the destination) are not inputs either.

`alloc_slot_id` is the lowest free id. `SlotTable` checks that the bitmap
code returns exactly that.

### `SlotTable.tla`

One slot table, with each array a function over the indices kzalloc gave
it, so that a read past an allocation is visible (`oob`).

The operations modelled are:

* `slot_table_init`, `expand_slot_table`;
* the two-level search of `alloc_slot_id`, with its full-bit update;
* `free_slot_id`, `install_slot`, `get_slot`;
* `is_valid_slot_id`, with its `&&`.

The actions are the slot-table part of `cap_alloc` (with the undo after a
failed kmalloc), of `cap_free`, and of `get_opaque`.

### `IPC.tla` (`MCIPC.tla`)

IPC is modelled on top of the scheduler, through `S == INSTANCE Scheduler`.
Its own state is:

* `ipc_config`, `max_client`, `conn_bmp`;
* `conn[s]`, the connection of shadow thread `s`;
* `active_conn`, `registered`;
* `badread` and `bogus_cap`, flags for two kinds of bad access.

The actions are:

* `sys_register_server`, with its failure paths;
* `sys_register_client`: `create_connection` and `create_server_thread`;
* `sys_ipc_call`: `ipc_send_cap`, then `thread_migrate_to_server`;
* `sys_ipc_return`;
* the scheduler's `handle_irq` and `sys_yield`.

The threads start as the root's spawns leave them: READY on the queue of
their affinity's CPU (`InitAff`). The lab4 server is spawned with
affinity 1 (`ipc_reg.c:47`), and the clients with none, so they run on
CPU 0 where the root runs. A call therefore switches to a shadow thread
on another CPU than the server's. The shadows are created `NO_AFF`.

### `Buddy.tla`

The state is per page `order` and `allocated`, the free lists (heads first),
`nr_free`, and the blocks callers hold.

The helpers are:

* `init_buddy`, `get_buddy_chunk`;
* `split_page`, `merge_page`;
* `buddy_get_pages`, `buddy_free_pages`;
* `page_to_virt`, `virt_to_page`;
* `size_to_page_order`.

The actions are `get_pages`, `kmalloc` (the page path), `free_pages` and
`kfree`. `oob` records a read of `free_lists[order]` past the array.

### `VMSpace.tla` (`MCVMSpace.tla`)

The root process's address space: PMOs, the vmregion list, `heap_vmr`, the
last-level page-table entry of each virtual page, and `data`, the bytes
written into each `PMO_DATA`. Addresses are in bytes with a small
`PAGE_SIZE`, so the code's rounding is kept.

`Init` is the state `thread_create_main` leaves in an empty vmspace
(`Empty`, from `vmspace_init`). It maps the stack PMO and then runs
`load_binary` over the program headers `Segments`. For each `PT_LOAD`
segment, `load_binary` creates a `PMO_DATA` of `seg_map_sz` bytes and
copies `p_filesz` bytes of file data (`FileByte`) to it, at the offset of
`p_vaddr` in its page. It then maps the PMO with `PFLAGS2VMRFLAGS` of the
segment's flags, and a failed mapping is the `BUG_ON`. `kmalloc` does not
clear the rest of the PMO, so those bytes read as `Undef`. The PMOs of the
stack and of the segments are the constants `StackPmo` and `SegPmos`, and
boot-time allocation is taken to succeed. User code passes only its own
PMOs to syscalls (`ArgPmos`).

`readelf_from_kernel_cpio` is the user library's ELF loader, run by the root
process before `spawn` (`user/lib/liblauncher.c`). It needs the archive at
`CPIO_BIN`, which `sys_fs_load_cpio` (`kernel/common/fs.c`) maps read-only
and fills; the variable `cpio` is that archive, or `NULL` before the call.
The region lies above the modelled address range. Every lab program calls
`usys_fs_load_cpio` first in `main`, so with `CpioFirst` no other syscall
comes before it. The loader first finds the binary
in the newc archive at `CPIO_BIN` with `cpio_extract_single`
(`user/lib/cpio.c`). The archive is the header each member offset holds
(`CpioArchive`, laid out from the file list `CpioFiles` by `NewcArchive`),
and the walk `cpio_extract_walk` parses the hexadecimal size fields
(`hex8_u64`) and rounds with `ALIGN4_UP`, as the code does. An offset that
holds no header is the magic check's `BUG_ON` (`CPIO_BUG`); a missing file
returns `-ENOENT`, and `spawn` then returns with nothing changed. A file
byte is named by its address in the archive (`ArchiveByte`). Then the
loader runs `parse_elf_from_binary` over the program headers `UserElf`, as
one step, copying from the member's data plus `p_offset`. For each
`PT_LOAD` segment, the loader:

* creates a `PMO_DATA` of `seg_map_sz` bytes;
* maps the PMO read-write at the fixed `TMP_VADDR`;
* clears it and copies the file data in (`UserStore`, `UserStores`);
* unmaps it.

The stores go through the page table, so earlier user mappings matter. A
failed map is the library's `BUG_ON`, which ends the process before its
next store. `user_elf` records the PMOs of the last complete parse.

The actions are:

* `sys_create_pmo`, `sys_create_device_pmo`, `sys_create_pmos`;
* `sys_map_pmo`, `sys_map_pmos`, `sys_unmap_pmo`;
* `sys_handle_brk`;
* `do_page_fault`, with `handle_trans_fault`;
* `sys_fs_load_cpio`;
* `readelf_from_kernel_cpio`, with `cpio_extract_single` and
  `parse_elf_from_binary`.

A multi-request syscall folds the single call over its requests within one
step.

### `Radix.tla`, `RadixMap.tla`

A node is named by its path from the root. The state is the nodes, the value
slots (`Garbage` until kzalloc zeroes their leaf), the result of the last
`radix_get`, and what `radix_free` handed to the deleter.

The actions are:

* `radix_add`, including a kzalloc failure at any node, after which
  `-ENOMEM` is returned and the nodes made so far stay linked;
* `radix_get`, `radix_del`, `radix_free`.

`RadixMap` is the abstract map. The refinement mapping is
`map <- [k |-> Lookup(k)]`.

### `Printk.tla` (`MCPrintk.tla`)

`simple_vsprintf` is modelled as recursive operators over the format's
characters:

* flags, width (including `*`), length modifiers and conversions;
* the union `u`, stored at member width and read at 64 bits;
* `printk_write_num` and `prints`, whose loops over the string stop at
  its NUL (`CStr`).

`printf` is a reference definition of what C prints for the same format and
arguments. The C type widths are reduced (2, 3, 4 and 6 bits).

### `InitEnv.tla`

The env page is a function from byte offsets to the value stored there.
An offset that is absent holds 0, because both writers clear the page first.
A u64 store to word k is an entry at offset 8k. Each writer is written as
the list of its stores in code order. `Apply` keeps the last store to each
offset, so a store that overwrites an earlier one shows.

The actions are:

* `thread_create_main(n)`: `prepare_env` for a program name of n bytes;
* `launch_process_with_pmos_caps(n, reqs, caps)`: `construct_init_env`
  with the given `pmo_map_reqs` addresses and transferred caps, written at
  `stack_offset` of the stack PMO.

The reader is `_start_c`, with `argv = p + 1` and `envp = p + 3`. The
auxiliary vector is read by the libc convention both files cite: envp
ends at its NULL, and the auxv is read in pairs up to `AT_NULL`.
`IntendedAuxv` lists the entries the writers' comments name.

Three properties are stated:

* `AuxvAsWritten`: the auxv the reader finds is the intended one;
* `ArgvNamesProgram`: argv[0] is the name, with its NUL inside the env;
* `NoWritePastEnv`: no store lands past the env.

`ENV_SIZE_ON_STACK` is defined in `thread_env.h`, which is not in the
repository. The cfgs set it to 0x1000, the size `prepare_env`'s offsets
assume.

## 3. Runs

The twelve runs are listed in `PROJECT.json`.

| Run | cfg | Expect | What it shows |
|-----|-----|--------|---------------|
| `sched_safety_liveness` | `MCScheduler.cfg` | pass | With valid affinities, every thread is in one queue or on one CPU, none is lost, and every READY thread runs eventually. |
| `cap_refcounts` | `MCCapability.cfg` | pass | Without allocation failures, and with user code that names only live processes: counts equal capabilities, no slot dangles, thread lists are sound, and each thread's `process` is its own. |
| `cap_free_uaf` | `MCCapability_uaf.cfg` | violation | `cap_free` kfrees the object, then `list_del`s the slot from the object's copies list. |
| `lock_safety_liveness` | `MCTicketLock.cfg` | pass | Mutual exclusion holds across the counter wrap. A CPU that took a ticket gets in. |
| `buddy_safety` | `MCBuddy.cfg` | pass | See the note after this table. |
| `ipc_call_return` | `MCIPC.cfg` | pass | Calls and returns under preemption on two CPUs keep every thread placed once and every call chain intact, keep the server stacks of connections apart, and every caller resumes. |
| `ipc_shared_connection` | `MCIPC_shared.cfg` | violation | Two threads of one client call the same connection, from two CPUs. The second call, while the shadow runs the first on the other CPU, overwrites `conn->source`; the shadow becomes current on both CPUs, and the first caller waits forever. |
| `vm_address_space` | `MCVMSpace.cfg` | pass | Regions stay disjoint, page-table entries lie in regions and match their PMO and permission. Every file byte of the root binary reads back at its virtual address, with the segment's write permission (`ImageLoaded`). The user-level loader leaves each segment's PMO laid out as it will be mapped, with the bytes of the archive member the path names (`ElfPmosLoaded`). Once the archive is mapped, `cpio_extract_single` agrees with the cpio(5) newc layout, found data and `ENOENT` both, on it and on every archive of up to two members (`CpioExtractFindsFile`). |
| `printk_format` | `MCPrintk.cfg` | pass | Every directive that printk handles as C does prints what `printf` prints, whatever `u` held before. A `%c` of the character 0 is left to `MCPrintk_nulchar.cfg`. |
| `radix_map` | `MCRadix.cfg` | pass | The tree implements a map, even when kzalloc fails part way through a `radix_add`. |
| `slot_table` | `SlotTable.cfg` | pass | `slots_bmp` equals the installed slots across alloc, undo, free and expansion. `alloc_slot_id` returns the lowest clear id. |
| `spawn_env_auxv` | `InitEnv.cfg` | violation | A libc reading the env that `construct_init_env` writes does not find the auxv it lists. From `prepare_env`'s env it does. |

The `buddy_safety` run checks a 6-page pool at a base that is not aligned to
the largest block. Over that pool:

* the free lists and `nr_free` agree;
* the blocks tile the pool, aligned;
* free buddies are merged;
* `kmalloc`'s block is the smallest that fits;
* an allocation fails only when no large enough block is free.

Every property of a passing run has a mutant in `PROJECT.json`. A mutant is
a plausible bug, written as an operator next to the definition it replaces,
that makes TLC report that property. Examples:

* a split that does not decrement `nr_free`;
* a merge that keeps the wrong head;
* `cap_alloc` without the undo;
* a radix leaf that is not zeroed.

### Reproduction configurations

More cfgs reproduce the other disagreements between the code and its
contract. The hazard list in `PROJECT.json` cites each one.

| cfg | Property violated | What happens in the code |
|-----|-------------------|--------------------------|
| `MCScheduler_lost.cfg` | `NoLostThread` | `sys_set_affinity` accepts -2. At the next preemption the re-enqueue fails silently, and the thread is never run again. |
| `MCScheduler_panic.cfg` | `NoPanic` | `thread_create` with affinity 2 or -2 reaches `BUG_ON(sched_enqueue)`. |
| `MCScheduler_quantum.cfg` | `QuantumHonoured` | Each timer tick charges the budget twice (`timer.c:89` and `irq.c:54`). |
| `MCCapability_doubleput.cfg` | `NoDanglingCap` | A failed `obj_alloc` in `thread_create` puts the process twice. |
| `MCCapability_freedmember.cfg` | `ThreadListSound` | A failed `cap_alloc` frees a thread still on its `thread_list`. |
| `MCCapability_badcap.cfg` | `NoPanic` | A bad capability to `sys_create_thread` reaches `obj_put(NULL)`. |
| `MCCapability_exitedpanic.cfg` | `NoPanic` | `thread_init` in an exited process reaches `obj_put(NULL)`. |
| `MCCapability_slotreuse.cfg` | `ThreadProcessConsistent` | An exited process's slot 0 is reused, and a new thread takes that object as its process. |
| `MCTicketLock_islocked.cfg` | `HeldImpliesIsLocked` | `is_locked` (`owner < next`) is wrong after the counters wrap. |
| `MCBuddy_overrun.cfg` | `NoListOverrun` | An order >= `BUDDY_MAX_ORDER` reads `free_lists` past the array. |
| `MCBuddy_wildnull.cfg` | `FailureReturnsNull` | A failed allocation returns `page_to_virt(NULL)`, a wild address, not NULL. |
| `MCIPC_connfull.cfg` | `ServerStacksDisjoint` | A full `conn_bmp` gives `conn_idx = max_client`, used without a check. |
| `MCIPC_rebmp.cfg` | `ServerStacksDisjoint` | Re-registering a server zeroes `conn_bmp`, so indices of live connections are reused. |
| `MCIPC_badcap.cfg` | `NoBogusCap` | A failed `cap_copy` error, held in a u64, is passed to the server as a cap. |
| `MCIPC_noserver.cfg`, `MCIPC_reregister.cfg` | `NoBadConfigRead` | A call to a thread that is not a server, or whose config was freed, reads it anyway. |
| `MCVMSpace_contain.cfg` | `VmrsDisjoint` | `check_vmr_intersect` misses a region strictly inside the new one. |
| `MCVMSpace_brkover.cfg` | `VmrsDisjoint` | `brk` grows the heap over a region mapped above it. |
| `MCVMSpace_unmap.cfg` | `MappingsMatchVmrs` | An unmap not at a region's start leaves entries outside every region. |
| `MCVMSpace_heapunmap.cfg` | `NoUseAfterFree` | Unmapping the heap leaves `heap_vmr` dangling, and `brk` then writes it. |
| `MCVMSpace_rowrite.cfg` | `NoPanic` | A user write to a read-only page is a permission fault, which reaches `BUG_ON(1)`. |
| `MCVMSpace_bss.cfg` | `BssZeroed` | The `.bss` of the root binary is the uncleared memory of `kmalloc`, so it is not zero in the initial state. |
| `MCPrintk_short.cfg` | `FormatsAsC` | `%hu` reads stale high bytes of the union. |
| `MCPrintk_leftzero.cfg` | `FormatsAsC` | `%-03d` pads with zeros on the right. |
| `MCPrintk_star.cfg` | `FormatsAsC` | A negative `*` width is ignored. |
| `MCPrintk_upper.cfg` | `FormatsAsC` | `%X` prints lowercase. |
| `MCPrintk_nulchar.cfg` | `NulCharAsC` | `%c` of 0 sends no byte: `scr[0]` is the NUL at which `prints` stops. C's `printf` sends the NUL. |
| `MCPrintk_cut.cfg` | `NoOverread` | A format that ends in `%l`, `%h` or `%-` is read past its NUL. |
| `InitEnv_name64.cfg` | `ArgvNamesProgram` | A program name of 64 bytes fills its slot, and no NUL is stored inside the env. With 65 bytes, `NoWritePastEnv` fails too. |

`SlotTable.cfg` with `FullBitsSound`, or `NoOutOfBoundsRead`, as its
invariant shows two more faults after one `cap_alloc`:

* the full-bit check reads past `full_slots_bmp`;
* `is_valid_slot_id` lets an out-of-range id read past `slots`.

## 4. Bounds

* Scheduler: 2 CPUs, 3 user threads, budget 2, affinities {-1, 0, 1}
  (12,554 states). This gives a thread on each CPU with one more queued
  behind it, and moves between CPUs.
* TicketLock: 3 CPUs, 2-bit counters. The counters wrap with up to three
  tickets outstanding.
* Capability: 3 processes, 3 threads, 6 slots per table, up to 2 copy
  syscalls, up to 2 running threads (376,284 states).
  * This is enough to create a child process, create threads in it and in
    the root, copy a capability each way, and let a process exit and its
    slots be reused.
  * A step that would grow a table past 6 slots is not taken.
* SlotTable: 2-bit words, tables up to 8 slots. The one-word full bitmap
  is overrun from the second word on, and the table expands three times.
* IPC: 2 CPUs, one server (affinity 1), one client thread (no affinity,
  so CPU 0), 2 connections, u64 at 16 bits. `MCIPC_shared.cfg` adds a
  second client thread, also spawned with no affinity, which
  `sys_yield` of the server lets run on CPU 1.
* Buddy: 6 pages at base page 2, 3 free lists, `get_pages` of order 0 and 1,
  and `kmalloc` of 4096, 4097 and 8193 bytes: one page, just over one page,
  and just over two pages.
* VMSpace: 2-byte pages and 12 virtual pages. User regions and the heap
  (from page 4) lie in pages 0-5, the binary in pages 6-9, and the stack in
  pages 10-11. There are 3 user PMOs (symmetric), 2 user regions beyond the
  3 of boot, 2 fault pages, and up to 2 requests per multi-request syscall.
  The addresses include unaligned and overlapping ones. The binary has a
  `PT_PHDR` header, which is skipped. Its text segment starts one byte past
  a page boundary and its two bytes span two pages, so `seg_map_sz` and the
  copy offset matter. Its data segment has one file byte and two bytes of
  `.bss`. The user-level loader parses the same headers (`UserElf`), and its
  `TMP_VADDR` is 0, where user code also maps PMOs. The temporary mapping
  therefore collides with the user's own mappings in some behaviours.
  The code's `tmp_vaddr` is `0xc00000`; 0 stands for it in the 12-page
  space, and the collision is the one a user region at `0xc00000` meets.
  The loader's `BUG_ON(p_filesz > p_memsz)` is modelled, though the
  headers never trip it.
  The archive holds a file whose header and name, and whose data, need
  padding, then the binary (`/us`), whose name needs padding too.
  `CpioExtractFindsFile` tries every list of at most two files over four
  names (header and name ending at each offset modulo 4) and sizes 0, 1,
  3 and 4, with a name present twice. That part of the property
  (`NewcArchivesRead`) depends on constants only.
* Radix: 2-bit nodes, 5-bit keys (3 levels), keys {0, 1, 4, 16, 17}. These
  keys share nodes at every level.
* Printk: C types of 2, 3, 4 and 6 bits. Arguments include the least int,
  a value above the int range, and zero.
* InitEnv: the real page size and stack addresses. Names are 16 bytes
  (as `/spawn_child.bin`) and 63 bytes (the longest that fits). There are
  up to one `pmo_map_req` and one cap, as the lab programs pass them. With
  none of either, as `spawn_basic` passes them, envp is cut short. The info
  page is at 0x10000000, not the labs' 0x100000000, because TLC integers
  stop below 2^31. The address plays no part in the layout.

Each bound is the least that makes the interesting case happen: a queue
behind a running thread, a counter wrap, a second bitmap word, a full
connection bitmap, a block split twice, a region inside another, keys
sharing a node.

## 5. Fairness

* `Scheduler` and `IPC` assume weak fairness of `handle_irq(c)` on each
  CPU. The generic timer interrupts every `cntv_tval` ticks whatever runs,
  and interrupts are enabled in user mode and in the idle thread. It is
  written as `WF` with `ENABLED` made explicit (`IrqEnabled`).
* `IPC` also assumes strong fairness of each shadow thread's
  `sys_ipc_return` while it is current. The server handler of `user/lab4`
  returns at once, but the shadow may be preempted before it does.
* `TicketLock` assumes weak fairness of `lock_spin` and `unlock`. A CPU in
  the kernel leaves it, and a spinning CPU keeps reading `owner`.
* No fairness is assumed for syscalls. Every other module checks safety
  only.

`CHECK_DEADLOCK FALSE` appears only where the system really stops:

* Capability: every thread has exited.
* SlotTable: a `BUG` halts the kernel.
* Radix: `radix_free` ends the tree's use.
* The Scheduler and VMSpace reproduction cfgs: a `BUG_ON` halts the
  kernel.

In `VMSpace` a failed `BUG_ON`, the user library's as the kernel's,
loops for good. `BUG_ON_spin` is that loop as a stuttering step, so the
main run still checks deadlock everywhere else.

## 6. Findings

Three findings are recorded in `PROJECT.json`:

* `cap_free` writes an object after freeing it;
* a shared IPC connection loses its first caller, and its shadow thread
  becomes current on two CPUs at once;
* spawn's `construct_init_env` writes a broken auxiliary vector.

The auxv bug has two causes:

* The store to `buf + i + 25` is written twice (`spawn.c:170`, `172`). From
  that point keys and values are one word apart: a libc reads
  `AT_HWCAP = 15`, and loses `AT_PLATFORM` and `AT_RANDOM`.
* With no `pmo_map_reqs`, the 0 that stands for "no info page" ends envp at
  once. The caps and the whole auxv are then read past it.

The kernel's `prepare_env` writes the same vector correctly.

The hazards list the other disagreements, each with its reproduction cfg.
Among them is the loss of a thread with a negative affinity
(`MCScheduler_lost.cfg`). Another is the uncleared memory of a `PMO_DATA`
(`MCVMSpace_bss.cfg`). `pmo_init` takes the pages from `kmalloc` without a
`memset`, and `load_binary` copies only `p_filesz` bytes. The root binary's
`.bss` therefore holds whatever those pages held before, and so does every
`PMO_DATA` user code creates.

One bug has no run. In `sys_get_affinity` (`thread.c`), a cap that is not a
thread leads to `obj_put(NULL)`, which faults. `sys_set_affinity` has this
same call commented out as a bug. `sys_get_affinity` changes no state on any
other path, so it is not an action.

## 7. Not modelled

These parts are not modelled, each for the reason given:

* The slab allocator: `alloc_in_slab` and `free_in_slab` are not in the
  repository.
* `sys_read_pmo`, `sys_write_pmo` and the stack and buffer mapping of IPC:
  data copies.
* `elf_parse_file`: the program headers are the constant `Segments`. The
  metadata `load_binary` returns is InitEnv's `Meta`. `load_binary`'s error
  path (an `obj_alloc` or `cap_alloc` failure at boot) is not modelled.
* `cap_move`, `sys_cap_move` and `cap_revoke`: never reachable from user
  code.
* `sys_get_all_caps`: a debug print.
* Boot, exception vectors and the UART: hardware and I/O.
* `cpio_extract` and its `g_files` list: nothing in the repository calls
  them, and `cpio_extract_file` is an empty stub. The archive writer is
  taken to spell sizes in upper-case hexadecimal: `hex8_u64` reads only
  `A`-`F` as letters. The kernel's own `cpio_extract_single` (used by
  `ramdisk_read_file`) is not in the repository.
* The user libraries and lab programs, other than spawn's env page,
  `_start_c` and `parse_elf_from_binary`: they are the environment, that
  is, the syscall arguments each model lets user code pass. The rest of
  `spawn.c` is a sequence of syscalls whose failures it does not undo.
  `elf_parse_file` parses bytes, and `readelf_from_fs` talks to
  a tmpfs server that is not in the repository.
* The intermediate page-table levels: `get_next_ptp` builds them on demand.

`components` in `PROJECT.json` gives the status of each part.
