--------------------------------- MODULE IPC ---------------------------------
(***************************************************************************)
(* Synchronous IPC by thread migration (kernel/ipc/*.c) on top of the     *)
(* round-robin scheduler.  A server thread registers a server_ipc_config; *)
(* each sys_register_client creates a connection with its own shadow      *)
(* thread in the server's process; sys_ipc_call makes the calling thread  *)
(* WAITING and switches its CPU to the connection's shadow thread;        *)
(* sys_ipc_return switches back to the connection's source.               *)
(*                                                                         *)
(* The scheduler's state and steps are those of Scheduler.tla, used       *)
(* through INSTANCE: every IPC entry composes the scheduler's helpers     *)
(* (switch_to_thread) with its own steps, and the timer interrupt and     *)
(* sys_yield are the scheduler's entries, leaving the IPC state alone.    *)
(* A connection is named by its shadow thread (one per connection).       *)
(***************************************************************************)
EXTENDS Integers, FiniteSets, Sequences, SequencesExt

CONSTANTS
  CPUs, Threads, Idle, Root, NULL, NO_AFF, DEFAULT_BUDGET, AffArgs,
  Servers,     \* threads whose program calls sys_register_server
  Clients,     \* threads whose program registers as client and calls
  Shadows,     \* thread objects create_server_thread may allocate
  IPC_MAX_CONN_PER_SERVER,
  MaxClientArgs,  \* max_client values servers pass
  CapArgs,     \* what a call transfers: "none", a "valid" or an "invalid" cap
  ClientWaitsForReady,  \* clients register only after the server's register
                        \* returned (the ready_flag handshake of user/lab4)
  ServerRegistersOnce,  \* each server program registers once
  InitAff,     \* InitAff[t]: the affinity a server or client thread was
               \* created with (spawn's aff, smp_get_cpu_id() for the root)
  U64Width     \* bits of a u64 (64; any width gives the same comparisons
               \* with 0 of the small values converted here)

ASSUME Threads = Servers \cup Clients \cup Shadows
ASSUME CapArgs \subseteq {"none", "valid", "invalid"}
ASSUME \A t \in Servers \cup Clients : t \in DOMAIN InitAff /\ InitAff[t] \in CPUs \cup {NO_AFF}

VARIABLES state, queue, current, affinity, budget, live, panic
VARIABLES
  ipc_config,   \* thread->server_ipc_config: "none" (NULL), "valid", "freed"
  max_client,   \* server_ipc_config->max_client
  conn_bmp,     \* server_ipc_config->conn_bmp, as the set of set bits
  conn,         \* conn[s]: the connection whose target is shadow s, or NULL
  active_conn,  \* active_conn[s]: s's connection is in a call
  registered,   \* the server's sys_register_server returned success
  badread,      \* a server_ipc_config was read through NULL or after kfree
  bogus_cap     \* a failed cap_copy result was handed to a server as a cap

sched_vars == <<state, queue, current, affinity, budget, live, panic>>
ipc_vars == <<ipc_config, max_client, conn_bmp, conn, active_conn, registered,
              badread, bogus_cap>>
vars == <<sched_vars, ipc_vars>>

S == INSTANCE Scheduler

UserThreads == Servers \cup Clients
U64 == 2 ^ U64Width
ECAPBILITY == 11  \* errno value cap_copy returns for an invalid source cap

\* Mutant: the scan starts one bit too low.
find_next_zero_bit_low(bmp, size) ==
  LET zero == {i \in -1 .. size - 1 : i \notin bmp}
  IN  IF zero = {} THEN size ELSE Min(zero)

\* find_next_zero_bit(bmp, size, 0): the first clear bit below size, or
\* size when all are set.
find_next_zero_bit(bmp, size) ==
  LET zero == {i \in 0 .. size - 1 : i \notin bmp}
  IN  IF zero = {} THEN size ELSE Min(zero)

(***************************************************************************)
(* register_server(current_thread, callback, mc, vm_config_ptr).  The     *)
(* config is installed in the thread before max_client and the vm_config  *)
(* are checked; the failure paths kfree it but leave the pointer.         *)
(***************************************************************************)
sys_register_server(c, mc) ==
  LET t == current[c] IN
  /\ ~panic /\ badread = "none"
  /\ t \in Servers
  /\ ServerRegistersOnce => ~registered[t] /\ ipc_config[t] = "none"
  /\ IF mc > IPC_MAX_CONN_PER_SERVER
     THEN /\ ipc_config' = [ipc_config EXCEPT ![t] = "freed"]
          /\ UNCHANGED <<max_client, conn_bmp, registered>>
     ELSE /\ ipc_config' = [ipc_config EXCEPT ![t] = "valid"]
          /\ max_client' = [max_client EXCEPT ![t] = mc]
          /\ conn_bmp' = [conn_bmp EXCEPT ![t] = {}]
          /\ registered' = [registered EXCEPT ![t] = TRUE]
  /\ UNCHANGED <<sched_vars, conn, active_conn, badread, bogus_cap>>

\* What create_server_thread reads of src->server_ipc_config.
ConfigRead(srv) ==
  CASE ipc_config[srv] = "none"  -> "null"
    [] ipc_config[srv] = "freed" -> "freed"
    [] OTHER                     -> "none"

(***************************************************************************)
(* sys_register_client(server_cap): obj_get the server thread, then       *)
(* create_connection: obj_alloc the connection, create_server_thread      *)
(* (a TS_INIT shadow thread, affinity NO_AFF, copying the server's        *)
(* callback and vm_config), take conn_idx from the server's bitmap, map   *)
(* the stack and buffer, then the connection caps.                        *)
(***************************************************************************)
\* Mutant: conn_idx is taken but its bit is never set in conn_bmp.
create_connection_nobmp(srv, s) ==
  LET idx == find_next_zero_bit(conn_bmp[srv], max_client[srv]) IN
  /\ state' = [state EXCEPT ![s] = "INIT"]
  /\ affinity' = [affinity EXCEPT ![s] = NO_AFF]
  /\ live' = live \cup {s}
  /\ ipc_config' = [ipc_config EXCEPT ![s] = "valid"]
  /\ conn' = [conn EXCEPT ![s] = [server |-> srv, idx |-> idx, source |-> NULL]]
  /\ UNCHANGED <<queue, current, budget, panic, max_client, active_conn,
                 registered, badread, bogus_cap, conn_bmp>>

create_connection(srv, s) ==
  LET idx == find_next_zero_bit(conn_bmp[srv], max_client[srv]) IN
  /\ state' = [state EXCEPT ![s] = "INIT"]
  /\ affinity' = [affinity EXCEPT ![s] = NO_AFF]
  /\ live' = live \cup {s}
  /\ ipc_config' = [ipc_config EXCEPT ![s] = "valid"]
  /\ conn_bmp' = [conn_bmp EXCEPT ![srv] = @ \cup {idx}]
  /\ conn' = [conn EXCEPT ![s] = [server |-> srv, idx |-> idx, source |-> NULL]]
  /\ UNCHANGED <<queue, current, budget, panic, max_client, active_conn,
                 registered, badread, bogus_cap>>

sys_register_client(c, srv, s) ==
  /\ ~panic /\ badread = "none"
  /\ current[c] \in Clients
  /\ ClientWaitsForReady => registered[srv]
  /\ s \in Shadows \ live
  /\ IF ConfigRead(srv) # "none"
     THEN /\ badread' = ConfigRead(srv)
          /\ UNCHANGED <<sched_vars, ipc_config, max_client, conn_bmp, conn,
                         active_conn, registered, bogus_cap>>
     ELSE create_connection(srv, s)

(***************************************************************************)
(* ipc_send_cap: cap_copy of the transferred cap into the server's        *)
(* process.  dest_cap is a u64, so the check dest_cap < 0 never sees a    *)
(* failed cap_copy; the error code is written back as the server's cap.   *)
(***************************************************************************)
cap_copy_result(arg) == IF arg = "valid" THEN 1 ELSE -ECAPBILITY

\* dest_cap = cap_copy(...), stored in a u64.
DestCap(arg) == cap_copy_result(arg) % U64

\* The failure test `dest_cap < 0` of ipc_send_cap.
SendCapFails(arg) == arg # "none" /\ DestCap(arg) < 0

(***************************************************************************)
(* sys_ipc_call / sys_ipc_reg_call on connection s: ipc_send_cap (for     *)
(* sys_ipc_call; when it fails the call returns the error to the caller,  *)
(* a step that changes nothing), then thread_migrate_to_server: source,   *)
(* active_conn, TS_WAITING, switch_to_thread(target).  The shadow takes   *)
(* the caller's scheduling context; the caller stays WAITING until the    *)
(* return refills that context again, so a budget per thread is the same. *)
(***************************************************************************)
\* Mutant: the caller is marked READY rather than WAITING.
thread_migrate_to_server_ready(c, s) ==
  LET t == current[c]
      k1 == [S!KS EXCEPT !.state[t] = "READY"]
  IN  /\ S!Commit(S!switch_to_thread(k1, c, s))
      /\ conn' = [conn EXCEPT ![s].source = t]
      /\ active_conn' = [active_conn EXCEPT ![s] = TRUE]

thread_migrate_to_server(c, s) ==
  LET t == current[c]
      k1 == [S!KS EXCEPT !.state[t] = "WAITING"]
  IN  /\ S!Commit(S!switch_to_thread(k1, c, s))
      /\ conn' = [conn EXCEPT ![s].source = t]
      /\ active_conn' = [active_conn EXCEPT ![s] = TRUE]

sys_ipc_call(c, s, arg) ==
  /\ ~panic /\ badread = "none"
  /\ current[c] \in Clients
  /\ conn[s] # NULL
  /\ ~SendCapFails(arg)
  /\ thread_migrate_to_server(c, s)
  /\ bogus_cap' = (bogus_cap \/ (arg # "none" /\ cap_copy_result(arg) < 0))
  /\ UNCHANGED <<ipc_config, max_client, conn_bmp, registered, badread>>

(***************************************************************************)
(* sys_ipc_return by the shadow thread current on c: nothing (a WARN) if  *)
(* it has no active connection; else thread_migrate_to_client: clear      *)
(* active_conn and switch_to_thread(conn->source).  The shadow is left    *)
(* neither queued nor current.                                            *)
(***************************************************************************)
\* Mutant: active_conn is left set after the return.
sys_ipc_return_keepactive(c) ==
  LET s == current[c] IN
  /\ ~panic /\ badread = "none"
  /\ s \in Shadows
  /\ active_conn[s]
  /\ S!Commit(S!switch_to_thread(S!KS, c, conn[s].source))
  /\ UNCHANGED <<ipc_config, max_client, conn_bmp, conn, registered, badread,
                 bogus_cap, active_conn>>

\* Mutant: the shadow gives up its CPU to the scheduler instead of
\* switching to the caller.
sys_ipc_return_sched(c) ==
  LET s == current[c] IN
  /\ ~panic /\ badread = "none"
  /\ s \in Shadows
  /\ active_conn[s]
  /\ S!Commit(S!rr_sched([S!KS EXCEPT !.current[c] = NULL], c))
  /\ active_conn' = [active_conn EXCEPT ![s] = FALSE]
  /\ UNCHANGED <<ipc_config, max_client, conn_bmp, conn, registered, badread,
                 bogus_cap>>

sys_ipc_return(c) ==
  LET s == current[c] IN
  /\ ~panic /\ badread = "none"
  /\ s \in Shadows
  /\ active_conn[s]
  /\ S!Commit(S!switch_to_thread(S!KS, c, conn[s].source))
  /\ active_conn' = [active_conn EXCEPT ![s] = FALSE]
  /\ UNCHANGED <<ipc_config, max_client, conn_bmp, conn, registered, badread,
                 bogus_cap>>

\* The scheduler's own entries, which leave the IPC state unchanged.
handle_irq(c) == S!handle_irq(c) /\ badread = "none" /\ UNCHANGED ipc_vars
sys_yield(c) == S!sys_yield(c) /\ badread = "none" /\ UNCHANGED ipc_vars

\* After the servers and clients were spawned: each READY on the ready
\* queue of the CPU of its affinity (rr_sched_enqueue from thread_create;
\* NO_AFF threads on CPU 0, where the root runs spawn), in a fixed order,
\* every CPU idle.  Shadow threads are created NO_AFF
\* (create_server_thread).
HomeCpu(t) == IF InitAff[t] = NO_AFF THEN 0 ELSE InitAff[t]

Init ==
  /\ state = [t \in S!AllThreads |->
                IF t \in UserThreads THEN "READY"
                ELSE IF t \in Shadows THEN "INIT" ELSE "RUNNING"]
  /\ queue = [c \in CPUs |-> SetToSeq({t \in UserThreads : HomeCpu(t) = c})]
  /\ current = [c \in CPUs |-> Idle[c]]
  /\ affinity = [t \in S!AllThreads |-> IF t \in UserThreads THEN InitAff[t] ELSE NO_AFF]
  /\ budget = [t \in S!AllThreads |-> DEFAULT_BUDGET]
  /\ live = UserThreads
  /\ panic = FALSE
  /\ ipc_config = [t \in Threads |-> "none"]
  /\ max_client = [t \in Threads |-> 0]
  /\ conn_bmp = [t \in Threads |-> {}]
  /\ conn = [s \in Shadows |-> NULL]
  /\ active_conn = [s \in Shadows |-> FALSE]
  /\ registered = [t \in Threads |-> FALSE]
  /\ badread = "none"
  /\ bogus_cap = FALSE

Next ==
  \E c \in CPUs :
    \/ handle_irq(c)
    \/ sys_yield(c)
    \/ \E mc \in MaxClientArgs : sys_register_server(c, mc)
    \/ \E srv \in Servers, s \in Shadows : sys_register_client(c, srv, s)
    \/ \E s \in Shadows, arg \in CapArgs : sys_ipc_call(c, s, arg)
    \/ sys_ipc_return(c)

\* The timer interrupt fires on every CPU (as in Scheduler.tla), and the
\* server's handler, whenever its shadow thread gets a CPU, goes on to
\* sys_ipc_return (ipc_dispatcher of user/lab4 returns at once): strong
\* fairness, since the shadow can be preempted before it returns.
IpcReturnBy(s) == \E c \in CPUs : current[c] = s /\ sys_ipc_return(c)

Fairness ==
  /\ \A c \in CPUs : []<>~S!IrqEnabled(c) \/ []<><<handle_irq(c)>>_vars
  /\ \A s \in Shadows : SF_vars(IpcReturnBy(s))

Spec == Init /\ [][Next]_vars /\ Fairness

-----------------------------------------------------------------------------

Queued == S!Queued(S!KS)
Running(t) == \E c \in CPUs : current[c] = t

TypeOK ==
  /\ state \in [S!AllThreads -> S!States \cup {"WAITING"}]
  /\ queue \in [CPUs -> Seq(Threads)]
  /\ current \in [CPUs -> S!AllThreads \cup {NULL}]
  /\ ipc_config \in [Threads -> {"none", "valid", "freed"}]
  /\ conn_bmp \in [Threads -> SUBSET Nat]
  /\ conn \in [Shadows -> {NULL} \cup
                 [server : Servers, idx : Nat, source : Clients \cup {NULL}]]
  /\ active_conn \in [Shadows -> BOOLEAN]
  /\ badread \in {"none", "null", "freed"}

\* The scheduler's placement invariant still holds with IPC switching
\* threads behind its back: no thread runs on two CPUs, none is both
\* queued and running, READY is exactly queued.
PlacementExclusive == S!PlacementExclusive

\* Every call can be completed: a WAITING client is the source of exactly
\* one connection in a call; the shadow serving a call is runnable (queued
\* or running) and its source is WAITING; an idle shadow neither runs nor
\* waits in a queue; and every server or client thread is queued, running
\* or WAITING.  Checked across preemption of shadows by the timer.
CallChainIntact ==
  /\ \A t \in Clients :
       state[t] = "WAITING" =>
         Cardinality({s \in Shadows : active_conn[s] /\ conn[s].source = t}) = 1
  /\ \A s \in Shadows :
       IF active_conn[s]
       THEN state[conn[s].source] = "WAITING" /\ (s \in Queued \/ Running(s))
       ELSE s \notin Queued /\ ~Running(s)
  /\ \A t \in UserThreads : t \in Queued \/ Running(t) \/ state[t] = "WAITING"

\* Connections of one server get distinct conn_idx below its max_client,
\* so their server stacks and shared buffers (base + conn_idx * size) are
\* disjoint and inside the region the server configured.
ServerStacksDisjoint ==
  \A s1, s2 \in Shadows :
    /\ conn[s1] # NULL => conn[s1].idx < max_client[conn[s1].server]
    /\ s1 # s2 /\ conn[s1] # NULL /\ conn[s2] # NULL
       /\ conn[s1].server = conn[s2].server => conn[s1].idx # conn[s2].idx

\* sys_register_client never reads a server_ipc_config through NULL or
\* after register_server freed it.
NoBadConfigRead == badread = "none"

\* A capability that cap_copy failed to transfer is never delivered to a
\* server as if it were a capability: the call fails instead.
NoBogusCap == ~bogus_cap

\* A client that calls is eventually resumed with the server's return.
CallerResumes ==
  \A t \in Clients : state[t] = "WAITING" ~> state[t] = "RUNNING"
=============================================================================
