----------------------------- MODULE Capability -----------------------------
(***************************************************************************)
(* Kernel objects, their reference counts and the per-process capability  *)
(* slot tables of ChCore (kernel/process/capability.c, process.c,        *)
(* process.h), with the process and thread lifecycle that allocates and  *)
(* releases them (kernel/process/thread.c).                               *)
(*                                                                         *)
(* Every syscall runs under the big kernel lock, so each one is a single  *)
(* step.  A step is the composition, in code order, of functions on a     *)
(* kernel-state record k; cap_free, thread_deinit and process_exit call   *)
(* one another and are RECURSIVE operators.                               *)
(*                                                                         *)
(* Which threads the scheduler has in TS_RUNNING decides thread_deinit;   *)
(* it is an input of each step (the set running), since the scheduler is  *)
(* modelled in Scheduler.                                                 *)
(***************************************************************************)
EXTENDS Integers, FiniteSets, SequencesExt

CONSTANTS
  Procs,      \* process objects
  Thrs,       \* thread objects
  RootProc,   \* the root process, built by process_create_root
  RootThr,    \* its main thread
  RootPmo,    \* the root thread's stack PMO
  NULL,
  MaxSlot,    \* slot ids 0 .. MaxSlot-1: the bound on every slot table
  NCPU,       \* at most NCPU threads are TS_RUNNING at once
  AllocFail,  \* kmalloc failures that may happen, a subset of FailPoints
  BadCapArgs, \* TRUE: user code may pass any slot id as a capability
  ExitedArgs, \* TRUE: user code may name a process that has exited
  MaxCopy     \* bound on the sys_cap_copy_to/from calls of a behaviour

FailPoints == {"obj_alloc", "thread_ctx", "cap_alloc", "vmspace", "transfer"}

\* The vmspace object of process p (obj_alloc in sys_create_process).
Vm(p) == <<"vmspace", p>>
Objects == Procs \cup Thrs \cup {Vm(p) : p \in Procs} \cup {RootPmo}
SlotIds == 0 .. MaxSlot - 1
PROCESS_OBJ_ID == 0
VMSPACE_OBJ_ID == 1

Type(o) ==
  CASE o \in Procs -> "PROCESS"
    [] o \in Thrs  -> "THREAD"
    [] o = RootPmo -> "PMO"
    [] OTHER       -> "VMSPACE"

ASSUME RootProc \in Procs /\ RootThr \in Thrs /\ MaxSlot >= 4
ASSUME AllocFail \subseteq FailPoints /\ BadCapArgs \in BOOLEAN
ASSUME ExitedArgs \in BOOLEAN

VARIABLES
  obj,       \* "none" (not allocated yet), "live", or "freed" (kfree'd)
  refcount,  \* object->refcount; a negative value is a wrapped u64
  slots,     \* slots[p][s]: the object slot s of p's table refers to
  members,   \* process->thread_list
  tproc,     \* thread->process
  tstate,    \* thread_ctx: "none", "live", "EXIT", "EXITING", "destroyed"
  panic,     \* the kernel stopped: a BUG_ON, or obj_put(NULL) faulted
  uaf,       \* a write to a kfree'd object happened
  ncopy      \* sys_cap_copy_* calls so far, bounded by MaxCopy

vars == <<obj, refcount, slots, members, tproc, tstate, panic, uaf, ncopy>>

KS(running) ==
  [obj |-> obj, refcount |-> refcount, slots |-> slots, members |-> members,
   tproc |-> tproc, tstate |-> tstate, panic |-> panic, uaf |-> uaf,
   ncopy |-> ncopy, running |-> running, full |-> FALSE]

\* full: a slot table would need to grow past MaxSlot; such a step is
\* outside the model's bound and not taken.
Commit(k) ==
  /\ ~k.full
  /\ obj' = k.obj /\ refcount' = k.refcount /\ slots' = k.slots
  /\ members' = k.members /\ tproc' = k.tproc /\ tstate' = k.tstate
  /\ panic' = k.panic /\ uaf' = k.uaf
  /\ ncopy' = k.ncopy

(***************************************************************************)
(* Slot table and reference helpers.                                      *)
(***************************************************************************)

\* alloc_slot_id: the lowest clear bit of slots_bmp (SlotTable checks that alloc_slot_id does this), -1
\* when the table is at the model's bound.
alloc_slot_id(k, p) ==
  LET free == {s \in SlotIds : k.slots[p][s] = NULL}
  IN IF free = {} THEN -1 ELSE Min(free)

\* get_opaque through is_valid_slot_id: the object of a valid slot of the
\* requested type, else NULL.
ObjAt(k, p, s, type) ==
  IF s \in SlotIds /\ k.slots[p][s] # NULL /\ Type(k.slots[p][s]) = type
  THEN k.slots[p][s] ELSE NULL

\* obj_get: get_opaque takes a reference on success.
obj_get(k, p, s, type) ==
  IF ObjAt(k, p, s, type) = NULL THEN k
  ELSE [k EXCEPT !.refcount[ObjAt(k, p, s, type)] = @ + 1]

\* obj_put -> __object_put: kfree when the count drops from 1.  obj_put of
\* NULL computes container_of(NULL) and faults in atomic_fetch_sub.
obj_put(k, o) ==
  IF o = NULL THEN [k EXCEPT !.panic = TRUE]
  ELSE [k EXCEPT !.refcount[o] = @ - 1,
                 !.obj[o] = IF k.refcount[o] = 1 THEN "freed" ELSE @]

\* cap_alloc: a new slot for an object whose count must still be 0.
cap_alloc(k, p, o) ==
  LET s == alloc_slot_id(k, p) IN
  IF s < 0 THEN [k EXCEPT !.full = TRUE]
  ELSE [k EXCEPT !.slots[p][s] = o, !.refcount[o] = 1,
                 !.panic = @ \/ k.refcount[o] # 0]

\* Mutant: the copy does not count as a reference.
cap_copy_noinc(k, sp, dp, ss) ==
  LET s == alloc_slot_id(k, dp)
      o == IF ss \in SlotIds THEN k.slots[sp][ss] ELSE NULL
  IN IF o = NULL THEN k
     ELSE IF s < 0 THEN [k EXCEPT !.full = TRUE]
     ELSE [k EXCEPT !.slots[dp][s] = o]

\* cap_copy: a further slot in dp for the object of slot ss of sp (get_slot
\* gives NULL for an id outside the table).
cap_copy(k, sp, dp, ss) ==
  LET s == alloc_slot_id(k, dp)
      o == IF ss \in SlotIds THEN k.slots[sp][ss] ELSE NULL
  IN IF o = NULL THEN k
     ELSE IF s < 0 THEN [k EXCEPT !.full = TRUE]
     ELSE [k EXCEPT !.slots[dp][s] = o, !.refcount[o] = @ + 1]

(***************************************************************************)
(* Releasing: cap_free, thread_deinit and process_exit.                   *)
(***************************************************************************)
RECURSIVE cap_free(_, _, _), thread_deinit(_, _), process_exit(_, _),
          process_exit_loop(_, _, _)

\* Mutant: free_slot_id is left out; the slot keeps the object.
cap_free_keepslot(k, p, s) ==
  IF k.slots[p][s] = NULL THEN k
  ELSE LET o  == k.slots[p][s]
           last == k.refcount[o] = 1
           k1 == [k EXCEPT !.refcount[o] = @ - 1]
           k2 == IF last /\ o \in Thrs THEN thread_deinit(k1, o) ELSE k1
           k3 == IF last /\ k2.refcount[o] = 0
                 THEN [k2 EXCEPT !.obj[o] = "freed"] ELSE k2
       IN [k3 EXCEPT !.uaf = @ \/ k3.obj[o] = "freed"]

\* cap_free(process, slot_id): clear the slot, drop the count; at the last
\* reference run the deinit and kfree the object if the count is still 0;
\* then list_del(&slot->copies), which writes the object's copies_head.
cap_free(k, p, s) ==
  IF k.slots[p][s] = NULL THEN k
  ELSE LET o  == k.slots[p][s]
           k1 == [k EXCEPT !.slots[p][s] = NULL, !.refcount[o] = @ - 1]
           last == k.refcount[o] = 1
           k2 == IF last /\ o \in Thrs THEN thread_deinit(k1, o) ELSE k1
           k3 == IF last /\ k2.refcount[o] = 0
                 THEN [k2 EXCEPT !.obj[o] = "freed"] ELSE k2
       IN [k3 EXCEPT !.uaf = @ \/ k3.obj[o] = "freed"]

\* Mutant: the thread is not unlinked from its thread_list.
thread_deinit_nounlink(k, t) ==
  IF k.tstate[t] = "live" /\ t \in k.running
  THEN [k EXCEPT !.refcount[t] = 1, !.tstate[t] = "EXITING"]
  ELSE [k EXCEPT !.tstate[t] = "destroyed"]

\* thread_deinit: a TS_RUNNING thread is left to the scheduler (count set
\* back to 1, TS_EXITING); otherwise (a TS_READY one dequeued first) it is
\* unlinked from the thread_list it is on, its context is destroyed, and
\* thread->process exits if its thread_list is now empty.
thread_deinit(k, t) ==
  IF k.tstate[t] = "live" /\ t \in k.running
  THEN [k EXCEPT !.refcount[t] = 1, !.tstate[t] = "EXITING"]
  ELSE LET q  == k.tproc[t]
           k1 == [k EXCEPT !.members = [x \in Procs |-> @[x] \ {t}],
                           !.tstate[t] = "destroyed"]
       IN IF k1.members[q] = {} THEN process_exit(k1, q) ELSE k1

\* for_each_set_bit(slot_id, slots_bmp): cap_free every slot in id order.
process_exit_loop(k, q, s) ==
  IF s >= MaxSlot THEN k
  ELSE process_exit_loop(cap_free(k, q, s), q, s + 1)

\* process_exit: hold a reference through slot 0, free every slot, put.
process_exit(k, q) ==
  IF ObjAt(k, q, PROCESS_OBJ_ID, "PROCESS") = NULL THEN k
  ELSE obj_put(process_exit_loop(obj_get(k, q, PROCESS_OBJ_ID, "PROCESS"),
                                 q, 0), q)

\* obj_alloc(type, size): the kmalloc'd object starts with refcount 0 and
\* no copies (its kmalloc failing is the "obj_alloc" fail point).
obj_alloc(k, o) == [k EXCEPT !.obj[o] = "live", !.refcount[o] = 0]

\* obj_free: kfree an object never capped; else cap_free each copy, with
\* BUG_ON when a copy cannot be freed.
obj_free(k, o) ==
  LET RECURSIVE FreeCopies(_, _)
      FreeCopies(k1, refs) ==
        IF refs = {} THEN k1
        ELSE LET r == CHOOSE r \in refs : TRUE
                 k2 == IF k1.slots[r[1]][r[2]] = o THEN cap_free(k1, r[1], r[2])
                       ELSE [k1 EXCEPT !.panic = TRUE]
             IN FreeCopies(k2, refs \ {r})
  IN IF o = NULL THEN k
     ELSE IF k.refcount[o] = 0 THEN [k EXCEPT !.obj[o] = "freed"]
     ELSE FreeCopies(k, {r \in Procs \X SlotIds : k.slots[r[1]][r[2]] = o})

(***************************************************************************)
(* Syscalls, made by a live thread t whose process is tproc[t].           *)
(***************************************************************************)

\* The sets of threads that may be TS_RUNNING while t is in the kernel.
RunningSets(t) ==
  {R \in SUBSET {u \in Thrs : tstate[u] = "live"} :
     t \in R /\ Cardinality(R) <= NCPU}

\* A process whose process_exit has run: its slot 0 is free.
Exited(q) == slots[q][PROCESS_OBJ_ID] = NULL

\* Capability arguments: any slot id, or only valid ones of the type, and
\* then, unless ExitedArgs, none naming an exited process.
CapArgs(p, type) ==
  IF BadCapArgs THEN SlotIds
  ELSE {s \in SlotIds : /\ slots[p][s] # NULL /\ Type(slots[p][s]) = type
                        /\ type = "PROCESS" /\ ~ExitedArgs
                           => ~Exited(slots[p][s])}

Caller(t) == ~panic /\ tstate[t] = "live"

\* sys_create_process: obj_alloc the process, cap it in the caller, copy
\* the cap to its slot 0, obj_alloc and cap its vmspace at slot 1.  A
\* failed vmspace allocation frees the caller's cap and leaves the new
\* process holding only itself.
sys_create_process(t, nq, fail) ==
  /\ Caller(t) /\ obj[nq] = "none"
  /\ \E R \in RunningSets(t) :
     LET p   == tproc[t]
         k1  == obj_alloc(KS(R), nq)
         cap == alloc_slot_id(k1, p)
         k2  == cap_alloc(k1, p, nq)
         k3  == cap_copy(k2, p, nq, cap)
         k4  == obj_alloc(k3, Vm(nq))
     IN Commit(CASE fail = "cap_alloc" -> obj_free(k1, nq)
                 [] fail = "vmspace"   -> cap_free(k3, p, cap)
                 [] OTHER              -> cap_alloc(k4, nq, Vm(nq)))

\* thread_init: thread->process and thread->vmspace are whatever slots 0
\* and 1 of the process hold, with the references put back at once
\* (obj_put(NULL) when a slot is empty); the thread goes on the
\* thread_list of the process it was created in.
thread_init_refs(k, q) ==
  LET pr == ObjAt(k, q, PROCESS_OBJ_ID, "PROCESS")
      vm == ObjAt(k, q, VMSPACE_OBJ_ID, "VMSPACE")
  IN obj_put(obj_put(obj_get(obj_get(k, q, PROCESS_OBJ_ID, "PROCESS"),
                             q, VMSPACE_OBJ_ID, "VMSPACE"), pr), vm)

\* Mutant: thread->process is read from the vmspace slot.
thread_init_swapped(k, nt, q) ==
  [thread_init_refs(k, q) EXCEPT
     !.tproc[nt] = ObjAt(k, q, VMSPACE_OBJ_ID, "VMSPACE"),
     !.tstate[nt] = "live",
     !.members[q] = @ \cup {nt}]

thread_init(k, nt, q) ==
  [thread_init_refs(k, q) EXCEPT
     !.tproc[nt] = ObjAt(k, q, PROCESS_OBJ_ID, "PROCESS"),
     !.tstate[nt] = "live",
     !.members[q] = @ \cup {nt}]

\* thread_create(process, ..., TYPE_USER), from a k holding the caller's
\* reference on q: -ECAPBILITY for no process; obj_alloc, thread_init and
\* cap_alloc, each error path putting the process (after obj_free of the
\* thread); then cap_copy of the new cap to the caller; sched_enqueue is
\* Scheduler's.
thread_create(k, p, q, nt, fail) ==
  LET k1  == obj_alloc(k, nt)
      k2  == thread_init(k1, nt, q)
      cap == alloc_slot_id(k2, q)
  IN CASE q = NULL             -> k
       [] fail = "obj_alloc"   -> obj_put(k, q)
       [] fail = "thread_ctx"  -> obj_put(obj_free(thread_init_refs(k1, q), nt), q)
       [] fail = "cap_alloc"   -> obj_put(obj_free(k2, nt), q)
       [] OTHER                -> cap_copy(cap_alloc(k2, q, nt), q, p, cap)

\* sys_create_thread: obj_get of the process cap, thread_create, and an
\* obj_put of the process whatever thread_create did (so every error path
\* puts it twice, and a bad cap puts NULL).
sys_create_thread(t, pcap, nt, fail) ==
  /\ Caller(t) /\ obj[nt] = "none"
  /\ \E R \in RunningSets(t) :
     LET p == tproc[t]
         q == ObjAt(KS(R), p, pcap, "PROCESS")
     IN Commit(obj_put(thread_create(obj_get(KS(R), p, pcap, "PROCESS"), p, q, nt, fail), q))

\* sys_cap_copy_to / sys_cap_copy_from: a reference on the other process
\* for the duration of cap_copy.
CopyCall(k) == [k EXCEPT !.ncopy = @ + 1]

sys_cap_copy_to(t, dcap, s) ==
  /\ Caller(t) /\ ncopy < MaxCopy
  /\ \E R \in RunningSets(t) :
     LET p == tproc[t]
         d == ObjAt(KS(R), p, dcap, "PROCESS")
     IN /\ d # NULL
        /\ Commit(obj_put(cap_copy(obj_get(CopyCall(KS(R)), p, dcap, "PROCESS"), p, d, s), d))

sys_cap_copy_from(t, scap, s) ==
  /\ Caller(t) /\ ncopy < MaxCopy
  /\ \E R \in RunningSets(t) :
     LET p == tproc[t]
         sp == ObjAt(KS(R), p, scap, "PROCESS")
     IN /\ sp # NULL
        /\ Commit(obj_put(cap_copy(obj_get(CopyCall(KS(R)), p, scap, "PROCESS"), sp, p, s), sp))

\* sys_transfer_caps(dest_group_cap, src_caps_buf, nr_caps, dst_caps_buf):
\* obj_get of the destination process, two unchecked kmallocs (a NULL one
\* faults in copy_from_user), cap_copy of each source cap in turn with its
\* result only reported, obj_put of the destination.
sys_transfer_caps(t, dcap, caps, fail) ==
  /\ Caller(t) /\ ncopy < MaxCopy
  /\ \E R \in RunningSets(t) :
     LET p == tproc[t]
         d == ObjAt(KS(R), p, dcap, "PROCESS")
         k1 == obj_get(CopyCall(KS(R)), p, dcap, "PROCESS")
         copy(k, s) == cap_copy(k, p, d, s)
     IN /\ d # NULL
        /\ Commit(IF fail THEN [k1 EXCEPT !.panic = TRUE]
                  ELSE obj_put(FoldLeft(copy, k1, caps), d))

\* Mutant: the thread is put once more after obj_free.
sys_exit_put(t) ==
  /\ Caller(t)
  /\ \E R \in RunningSets(t) :
       Commit(obj_put(obj_free([KS(R) EXCEPT !.tstate[t] = "EXIT"], t), t))

\* sys_exit: TS_EXIT, then obj_free of the thread; the CPU reschedules.
sys_exit(t) ==
  /\ Caller(t)
  /\ \E R \in RunningSets(t) :
       Commit(obj_free([KS(R) EXCEPT !.tstate[t] = "EXIT"], t))

(***************************************************************************)
(* Boot: process_create_root.  Slot 0 is the process itself, 1 its        *)
(* vmspace, 2 the stack PMO, 3 the root thread.  Boot-time allocations do *)
(* not fail here (their BUG_ONs and error paths are not taken).           *)
(***************************************************************************)
\* process_create: the process object with refcount 1 and its own slot,
\* then its vmspace by obj_alloc and cap_alloc, each slot id checked by
\* BUG_ON.
process_create(k, q) ==
  LET s0 == alloc_slot_id(k, q)
      k1 == [k EXCEPT !.obj[q] = "live", !.refcount[q] = 1,
                      !.slots[q][s0] = q,
                      !.panic = @ \/ s0 # PROCESS_OBJ_ID]
      k2 == obj_alloc(k1, Vm(q))
      s1 == alloc_slot_id(k2, q)
  IN [cap_alloc(k2, q, Vm(q)) EXCEPT !.panic = @ \/ s1 # VMSPACE_OBJ_ID]

\* thread_create_main: the vmspace is got and put back, the stack PMO is
\* allocated and capped, then the thread is allocated, thread_init'd and
\* capped.
thread_create_main(k, q, pmo, t) ==
  LET k1 == obj_put(obj_get(k, q, VMSPACE_OBJ_ID, "VMSPACE"), Vm(q))
      k2 == cap_alloc(obj_alloc(k1, pmo), q, pmo)
      k3 == thread_init(obj_alloc(k2, t), t, q)
  IN cap_alloc(k3, q, t)

\* process_create_root: process_create, thread_create_main, then the root
\* thread is got from the cap thread_create_main returned, for
\* sched_enqueue (Scheduler's), and put.  Before it no object exists.
process_create_root ==
  LET k0 ==
        [obj |-> [o \in Objects |-> "none"], refcount |-> [o \in Objects |-> 0],
         slots |-> [p \in Procs |-> [s \in SlotIds |-> NULL]],
         members |-> [p \in Procs |-> {}], tproc |-> [t \in Thrs |-> NULL],
         tstate |-> [t \in Thrs |-> "none"], panic |-> FALSE, uaf |-> FALSE,
         ncopy |-> 0, running |-> {}, full |-> FALSE]
      k1 == thread_create_main(process_create(k0, RootProc),
                               RootProc, RootPmo, RootThr)
      tc == CHOOSE s \in SlotIds : k1.slots[RootProc][s] = RootThr
  IN obj_put(obj_get(k1, RootProc, tc, "THREAD"), RootThr)

Init ==
  LET k == process_create_root IN
  /\ obj = k.obj /\ refcount = k.refcount /\ slots = k.slots
  /\ members = k.members /\ tproc = k.tproc /\ tstate = k.tstate
  /\ panic = k.panic /\ uaf = k.uaf /\ ncopy = k.ncopy

Next ==
  ~panic /\ \E t \in {u \in Thrs : tstate[u] = "live"} :
    \/ \E nq \in Procs, f \in (AllocFail \cap {"cap_alloc", "vmspace"}) \cup {"none"} :
         sys_create_process(t, nq, f)
    \/ \E c \in CapArgs(tproc[t], "PROCESS"), nt \in Thrs,
          f \in (AllocFail \ {"vmspace"}) \cup {"none"} :
         sys_create_thread(t, c, nt, f)
    \/ \E c \in CapArgs(tproc[t], "PROCESS"), s \in SlotIds :
         sys_cap_copy_to(t, c, s) \/ sys_cap_copy_from(t, c, s)
    \/ \E c \in CapArgs(tproc[t], "PROCESS"), caps \in [1 .. 2 -> SlotIds],
          f \in ({"transfer"} \cap AllocFail) \cup {"none"} :
         sys_transfer_caps(t, c, caps, f = "transfer")
    \/ sys_exit(t)

Spec == Init /\ [][Next]_vars

(***************************************************************************)
(* Properties.                                                            *)
(***************************************************************************)

TypeOK ==
  /\ obj \in [Objects -> {"none", "live", "freed"}]
  /\ refcount \in [Objects -> Nat]
  /\ slots \in [Procs -> [SlotIds -> Objects \cup {NULL}]]
  /\ members \in [Procs -> SUBSET Thrs]
  /\ tproc \in [Thrs -> Procs \cup {NULL}]
  /\ tstate \in [Thrs -> {"none", "live", "EXIT", "EXITING", "destroyed"}]
  /\ panic \in BOOLEAN /\ uaf \in BOOLEAN /\ ncopy \in 0 .. MaxCopy

\* The slots of every table that refer to object o.
CapsOf(o) == {r \in Procs \X SlotIds : slots[r[1]][r[2]] = o}

\* The count of a live object is the number of capabilities to it in all
\* slot tables (one more for a TS_EXITING thread the scheduler still
\* holds).  Every obj_get in the syscalls is matched by one obj_put, and
\* cap_alloc, cap_copy and cap_free move the count with the slots.
RefcountMatchesCaps ==
  \A o \in Objects :
    obj[o] = "live" =>
      refcount[o] = Cardinality(CapsOf(o))
                    + (IF o \in Thrs /\ tstate[o] = "EXITING" THEN 1 ELSE 0)

\* No slot of any process refers to a kfree'd object: an object is freed
\* only when its last capability goes, through cap_free, obj_put or
\* process_exit.
NoDanglingCap ==
  \A p \in Procs, s \in SlotIds :
    slots[p][s] # NULL => obj[slots[p][s]] = "live"

\* The thread_lists hold exactly the threads whose context is alive, each
\* on one list, and never a kfree'd thread: thread_init links a thread,
\* thread_deinit unlinks it before its context goes.
ThreadListSound ==
  /\ \A q \in Procs : \A t \in members[q] :
       obj[t] = "live" /\ tstate[t] \in {"live", "EXITING"}
  /\ \A q, x \in Procs : q # x => members[q] \cap members[x] = {}
  /\ \A t \in Thrs : tstate[t] = "live" => \E q \in Procs : t \in members[q]

\* A live thread's thread->process (its current_process in every syscall)
\* is the live process whose thread_list it is on, the one it was created
\* in.
ThreadProcessConsistent ==
  \A t \in Thrs :
    tstate[t] = "live" /\ ~panic =>
      tproc[t] \in Procs /\ t \in members[tproc[t]] /\ obj[tproc[t]] = "live"

\* No kernel crash: no BUG_ON fires and obj_put is never given NULL.
NoPanic == ~panic

\* The kernel never writes an object it has kfree'd.
NoUseAfterFree == ~uaf

====
