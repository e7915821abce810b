------------------------------ MODULE Scheduler ------------------------------
(***************************************************************************)
(* The per-CPU round-robin scheduler of ChCore (kernel/sched/policy_rr.c,  *)
(* kernel/sched/sched.c) together with the kernel entries that drive it:  *)
(* the timer interrupt (exception/irq.c, exception/timer.c) and the       *)
(* thread syscalls that enqueue, yield, exit or re-pin threads            *)
(* (process/thread.c).                                                    *)
(*                                                                         *)
(* Every kernel entry runs under the big kernel lock with interrupts      *)
(* masked, so each entry is one atomic step here.  The steps of one entry *)
(* are composed as functions on a kernel-state record k, in the order the *)
(* code performs them.                                                    *)
(***************************************************************************)
EXTENDS Integers, Sequences, SequencesExt, FiniteSets

CONSTANTS
  CPUs,           \* 0 .. PLAT_CPU_NUM-1
  Threads,        \* user thread objects (the root thread included)
  Idle,           \* Idle[c]: idle_threads[c], never in a ready queue
  Root,           \* the root thread, running on CPU 0 after boot
  NULL,
  NO_AFF,         \* -1
  DEFAULT_BUDGET, \* ticks granted when a thread is switched in
  AffArgs         \* affinity arguments user code passes to the syscalls

PLAT_CPU_NUM == Cardinality(CPUs)
IdleThreads == {Idle[c] : c \in CPUs}
AllThreads == Threads \cup IdleThreads

ASSUME CPUs = 0 .. PLAT_CPU_NUM - 1
ASSUME Root \in Threads /\ IdleThreads \cap Threads = {}
ASSUME DEFAULT_BUDGET \in Nat \ {0} /\ NO_AFF = -1
ASSUME AffArgs \subseteq Int /\ NO_AFF \in AffArgs

States == {"INIT", "READY", "INTER", "RUNNING", "EXIT"}

VARIABLES
  state,     \* thread_ctx->state
  queue,     \* rr_ready_queue[c], FIFO
  current,   \* current_threads[c]
  affinity,  \* thread_ctx->affinity (s32)
  budget,    \* thread_ctx->sc->budget
  live,      \* threads whose object and thread_ctx exist
  panic      \* a BUG_ON fired: the kernel has stopped

vars == <<state, queue, current, affinity, budget, live, panic>>

KS == [state |-> state, queue |-> queue, current |-> current,
       affinity |-> affinity, budget |-> budget, live |-> live, panic |-> panic]

Commit(k) ==
  /\ state' = k.state /\ queue' = k.queue /\ current' = k.current
  /\ affinity' = k.affinity /\ budget' = k.budget /\ live' = k.live
  /\ panic' = k.panic

Queued(k) == UNION {ToSet(k.queue[c]) : c \in CPUs}

\* The s32 affinity read as the u32 cpu_id of rr_sched_enqueue: a negative
\* value becomes at least 2^31, past every CPU id.
CpuIdOutOfRange(a) == a < 0 \/ a >= PLAT_CPU_NUM

(***************************************************************************)
(* rr_sched_enqueue(thread), called on CPU c.  Returns the new state; the *)
(* caller reads EnqueueFails for the -EINVAL result.                       *)
(***************************************************************************)
EnqueueFails(k, t) ==
  \/ k.state[t] = "READY"
  \/ k.affinity[t] # NO_AFF /\ CpuIdOutOfRange(k.affinity[t])

rr_sched_enqueue(k, t, c) ==
  IF EnqueueFails(k, t) \/ t \in IdleThreads THEN k
  ELSE LET cpu == IF k.affinity[t] = NO_AFF THEN c ELSE k.affinity[t]
       IN [k EXCEPT !.queue[cpu] = Append(@, t), !.state[t] = "READY"]

\* rr_sched_dequeue(thread): list_del from its ready queue.
rr_sched_dequeue(k, t) ==
  IF k.state[t] # "READY" \/ t \in IdleThreads THEN k
  ELSE [k EXCEPT !.queue = [d \in CPUs |-> Remove(k.queue[d], t)],
                 !.state[t] = "INTER"]

\* rr_sched_choose_thread(): the idle thread if the queue is empty, else
\* the dequeued head; NULL if the head cannot be dequeued.
\* Mutant: the tail instead of the head (LIFO).
ChosenThread_lifo(k, c) ==
  IF k.queue[c] = <<>> THEN Idle[c]
  ELSE IF k.state[Last(k.queue[c])] # "READY" THEN NULL
  ELSE Last(k.queue[c])

ChosenThread(k, c) ==
  IF k.queue[c] = <<>> THEN Idle[c]
  ELSE IF k.state[Head(k.queue[c])] # "READY" THEN NULL
  ELSE Head(k.queue[c])

\* Mutant: the chosen thread is left on the ready queue.
rr_sched_choose_thread_nodequeue(k, c) == k

rr_sched_choose_thread(k, c) ==
  IF ChosenThread(k, c) \in Threads
  THEN rr_sched_dequeue(k, ChosenThread(k, c)) ELSE k

\* rr_sched_refill_budget(target, DEFAULT_BUDGET).
\* Mutant: the refill grants one tick too many.
rr_sched_refill_budget_overfill(k, t) == [k EXCEPT !.budget[t] = DEFAULT_BUDGET + 1]

rr_sched_refill_budget(k, t) == [k EXCEPT !.budget[t] = DEFAULT_BUDGET]

\* switch_to_thread(target): BUG_ON a target still TS_READY (on a ready
\* queue); else TS_RUNNING and current on this CPU.
switch_to_thread(k, c, t) ==
  IF k.state[t] = "READY" THEN [k EXCEPT !.panic = TRUE]
  ELSE [k EXCEPT !.state[t] = "RUNNING", !.current[c] = t]

(***************************************************************************)
(* rr_sched(): nothing while the current thread has budget left; else    *)
(* re-enqueue it (becoming the tail), choose, refill and switch.          *)
(***************************************************************************)
\* Mutant: the preempted thread is not put back on a ready queue.
rr_sched_noenqueue(k, c) ==
  LET cur == k.current[c] IN
  IF cur # NULL /\ k.budget[cur] # 0 THEN k
  ELSE LET tgt == ChosenThread(k, c)
           k2 == rr_sched_choose_thread(k, c)
       IN IF tgt = NULL THEN k2
          ELSE switch_to_thread(rr_sched_refill_budget(k2, tgt), c, tgt)

rr_sched(k, c) ==
  LET cur == k.current[c] IN
  IF cur # NULL /\ k.budget[cur] # 0 THEN k
  ELSE LET k1 == IF cur # NULL THEN rr_sched_enqueue(k, cur, c) ELSE k
           tgt == ChosenThread(k1, c)
           k2 == rr_sched_choose_thread(k1, c)
       IN IF tgt = NULL THEN k2
          ELSE switch_to_thread(rr_sched_refill_budget(k2, tgt), c, tgt)

\* rr_sched_handle_timer_irq(): one tick off the running thread's budget.
rr_sched_handle_timer_irq(k, c) ==
  LET cur == k.current[c] IN
  IF cur # NULL /\ k.budget[cur] > 0
  THEN [k EXCEPT !.budget[cur] = @ - 1] ELSE k

(***************************************************************************)
(* Kernel entries.  A syscall is made by the user thread current on c.    *)
(***************************************************************************)
UserCaller(c) == ~panic /\ current[c] \in Threads

\* switch_context(), before eret_to_thread: BUG_ON when no thread is
\* current or its thread_ctx is gone (the vmspace switch of a user thread
\* changes nothing here).
switch_context(k, c) ==
  IF k.current[c] = NULL \/ k.current[c] \notin k.live \cup IdleThreads
  THEN [k EXCEPT !.panic = TRUE] ELSE k

\* handle_irq: plat_handle_irq -> handle_timer_irq charges one tick, then
\* handle_irq charges another, then sched() and eret.
IrqResult(c) ==
  LET k1 == rr_sched_handle_timer_irq(KS, c)
      k2 == rr_sched_handle_timer_irq(k1, c)
  IN switch_context(rr_sched(k2, c), c)

handle_irq(c) ==
  /\ ~panic /\ current[c] # NULL
  /\ Commit(IrqResult(c))

sys_yield(c) ==
  /\ UserCaller(c)
  /\ LET k1 == [KS EXCEPT !.budget[current[c]] = 0]
     IN Commit(switch_context(rr_sched(k1, c), c))

\* sys_exit: TS_EXIT, obj_free -> thread_deinit (TS_EXIT: the thread
\* leaves its process and its context is destroyed), then sched().
sys_exit(c) ==
  /\ UserCaller(c)
  /\ LET t == current[c]
         k1 == [KS EXCEPT !.state[t] = "EXIT", !.live = @ \ {t},
                          !.current[c] = NULL]
     IN Commit(switch_context(rr_sched(k1, c), c))

\* sys_create_thread -> thread_create(TYPE_USER): thread_init, caps, then
\* sched_enqueue with BUG_ON(ret).
thread_create(c, t, aff) ==
  /\ UserCaller(c) /\ t \in Threads \ live
  /\ LET k1 == [KS EXCEPT !.state[t] = "INIT", !.affinity[t] = aff,
                          !.budget[t] = DEFAULT_BUDGET, !.live = @ \cup {t}]
     IN Commit(IF EnqueueFails(k1, t) THEN [k1 EXCEPT !.panic = TRUE]
               ELSE rr_sched_enqueue(k1, t, c))

\* sys_set_affinity(thread_cap, aff): the caller itself (cap -1) or a
\* thread it holds a capability to; the thread is not moved.
sys_set_affinity(c, t, aff) ==
  /\ UserCaller(c) /\ t \in live
  /\ IF aff >= PLAT_CPU_NUM /\ aff # NO_AFF THEN UNCHANGED vars
     ELSE /\ affinity' = [affinity EXCEPT ![t] = aff]
          /\ UNCHANGED <<state, queue, current, budget, live, panic>>

Init ==
  /\ state = [t \in AllThreads |->
                IF t = Root \/ t \in {Idle[c] : c \in CPUs \ {0}}
                THEN "RUNNING" ELSE "INIT"]
  /\ queue = [c \in CPUs |-> <<>>]
  /\ current = [c \in CPUs |-> IF c = 0 THEN Root ELSE Idle[c]]
  /\ affinity = [t \in AllThreads |-> IF t = Root THEN 0 ELSE NO_AFF]
  /\ budget = [t \in AllThreads |-> DEFAULT_BUDGET]
  /\ live = {Root}
  /\ panic = FALSE

Next ==
  \E c \in CPUs :
    \/ handle_irq(c)
    \/ sys_yield(c)
    \/ sys_exit(c)
    \/ \E t \in Threads, a \in AffArgs : thread_create(c, t, a)
    \/ \E t \in Threads, a \in AffArgs : sys_set_affinity(c, t, a)

\* The timer interrupt fires on every CPU whatever user code does.  This
\* is WF_vars(handle_irq(c)) with ENABLED <<handle_irq(c)>>_vars written
\* out: the entry is possible and changes the state.
IrqEnabled(c) == ~panic /\ current[c] # NULL /\ IrqResult(c) # KS

Fairness ==
  \A c \in CPUs : []<>~IrqEnabled(c) \/ []<><<handle_irq(c)>>_vars

Spec == Init /\ [][Next]_vars /\ Fairness

(***************************************************************************)
(* Properties.                                                            *)
(***************************************************************************)

TypeOK ==
  /\ state \in [AllThreads -> States]
  /\ queue \in [CPUs -> Seq(Threads)]
  /\ current \in [CPUs -> AllThreads \cup {NULL}]
  /\ affinity \in [AllThreads -> AffArgs]
  /\ budget \in [AllThreads -> 0 .. DEFAULT_BUDGET]
  /\ live \subseteq Threads /\ panic \in BOOLEAN

\* Every thread sits in one place only: no thread is twice in the ready
\* queues, a queued thread is READY and a READY thread is queued, no CPU
\* runs a queued thread and no two CPUs run the same thread.  Breaks if
\* rr_sched, choose_thread or the exit path loses track of a list node.
PlacementExclusive ==
  /\ \A c, d \in CPUs : \A i \in DOMAIN queue[c], j \in DOMAIN queue[d] :
       queue[c][i] = queue[d][j] => c = d /\ i = j
  /\ \A t \in Threads : state[t] = "READY" <=> t \in Queued(KS)
  /\ \A c \in CPUs : current[c] \notin Queued(KS)
  /\ \A c, d \in CPUs : current[c] = current[d] /\ current[c] # NULL => c = d

\* No live user thread is lost: each one is either in a ready queue or is
\* the current thread of some CPU.  rr_sched re-enqueues the preempted
\* thread; a failed re-enqueue would drop the thread for good.  (After a
\* BUG_ON the kernel has stopped and nothing is scheduled any more.)
NoLostThread ==
  ~panic => \A t \in live : t \in Queued(KS) \/ \E c \in CPUs : current[c] = t

\* No BUG_ON fires: thread creation with a user-supplied affinity never
\* halts the kernel.
NoPanic == ~panic

\* Round robin: a thread waiting in a ready queue eventually runs (or is
\* gone), however user threads create, exit, yield and re-pin threads.
ReadyEventuallyRuns ==
  \A t \in Threads :
    (t \in live /\ state[t] = "READY") ~> (t \notin live \/ state[t] = "RUNNING")

\* A timer interrupt switches a user thread out only once the thread has
\* consumed its time slice: one tick of budget was left before the tick.
QuantumHonoured ==
  [][\A c \in CPUs :
       (handle_irq(c) /\ current[c] \in Threads /\ current'[c] # current[c])
         => budget[current[c]] <= 1]_vars

=============================================================================
