----------------------------- MODULE TicketLock -----------------------------
(***************************************************************************)
(* The ticket lock of kernel/common/lock.c, used as the big kernel lock.  *)
(* Each CPU runs the pattern of the kernel and of tst_mutex: from user    *)
(* mode it enters the kernel through lock() (lock_kernel in handle_irq,   *)
(* handle_entry_c and the boot paths) or through a loop of try_lock(),    *)
(* does its work, and leaves through unlock().                            *)
(*                                                                         *)
(* owner and next are u32; Width is the width of the model's counters so  *)
(* that the wrap of both at 2^Width is reached.  The lock's behaviour      *)
(* depends only on owner, next and the tickets modulo 2^Width, and is the  *)
(* same for any width larger than log2 of the number of CPUs.              *)
(***************************************************************************)
EXTENDS Naturals

CONSTANTS
  CPUs,    \* the CPUs contending for the lock
  NULL,
  Width    \* bits of owner and next (32 in the code)

ASSUME NULL \notin CPUs /\ Width \in Nat \ {0}

M == 2 ^ Width

VARIABLES
  owner,   \* lock->owner: the ticket now served
  next,    \* lock->next: the next ticket to hand out
  ticket,  \* ticket[c]: lockval of a CPU inside lock()
  pc       \* "user", "spin" (inside lock()) or "kernel" (holds the lock)

vars == <<owner, next, ticket, pc>>

\* lock_init: both counters 0, no CPU in the kernel.
Init ==
  /\ owner = 0 /\ next = 0
  /\ ticket = [c \in CPUs |-> 0]
  /\ pc = [c \in CPUs |-> "user"]

\* lock(), first loop: ldaxr/add/stxr retried until the exclusive store
\* succeeds, an atomic fetch-and-increment of next (u32, wraps).
lock_take(c) ==
  /\ pc[c] = "user"
  /\ ticket' = [ticket EXCEPT ![c] = next]
  /\ next' = (next + 1) % M
  /\ pc' = [pc EXCEPT ![c] = "spin"]
  /\ UNCHANGED owner

\* lock(), second loop: ldar owner until it equals the ticket.
lock_spin(c) ==
  /\ pc[c] = "spin"
  /\ owner = ticket[c]
  /\ pc' = [pc EXCEPT ![c] = "kernel"]
  /\ UNCHANGED <<owner, next, ticket>>

try_lock_nocheck(c) ==
  /\ pc[c] = "user"
  /\ next' = (next + 1) % M
  /\ pc' = [pc EXCEPT ![c] = "kernel"]
  /\ UNCHANGED <<owner, ticket>>

\* try_lock(): ldaxr next, ldar owner; only when they are equal is next+1
\* stored exclusively, and only then is 0 returned.  A failed try_lock
\* (owner # next, or the exclusive store lost to another CPU) changes no
\* state and the caller loops, so it is a stuttering step.
try_lock(c) ==
  /\ pc[c] = "user"
  /\ owner = next
  /\ next' = (next + 1) % M
  /\ pc' = [pc EXCEPT ![c] = "kernel"]
  /\ UNCHANGED <<owner, ticket>>

\* unlock(): owner++ (u32), by the holder only.
unlock_mod(c) ==
  /\ pc[c] = "kernel"
  /\ owner' = owner + 1
  /\ pc' = [pc EXCEPT ![c] = "user"]
  /\ UNCHANGED <<next, ticket>>

unlock_twice(c) ==
  /\ pc[c] = "kernel"
  /\ owner' = (owner + 2) % M
  /\ pc' = [pc EXCEPT ![c] = "user"]
  /\ UNCHANGED <<next, ticket>>

unlock(c) ==
  /\ pc[c] = "kernel"
  /\ owner' = (owner + 1) % M
  /\ pc' = [pc EXCEPT ![c] = "user"]
  /\ UNCHANGED <<next, ticket>>

\* is_locked(): owner < next, compared as unsigned values.
is_locked == owner < next

Next == \E c \in CPUs :
          \/ lock_take(c) \/ lock_spin(c) \/ try_lock(c) \/ unlock(c)

\* A spinning CPU keeps reading owner, and a kernel entry always ends in
\* unlock: both are weakly fair.  Entering the kernel is not forced.
Fairness == \A c \in CPUs : WF_vars(lock_spin(c)) /\ WF_vars(unlock(c))

Spec == Init /\ [][Next]_vars /\ Fairness

-----------------------------------------------------------------------------

Holders == {c \in CPUs : pc[c] = "kernel"}

TypeOK ==
  /\ owner \in 0 .. M - 1 /\ next \in 0 .. M - 1
  /\ ticket \in [CPUs -> 0 .. M - 1]
  /\ pc \in [CPUs -> {"user", "spin", "kernel"}]

\* Mutual exclusion of kernel entries: whatever the interleaving of lock,
\* try_lock and unlock on the CPUs, and across the wrap of owner and next,
\* at most one CPU holds the lock.
MutualExclusion == \A c, d \in Holders : c = d

\* Starvation freedom of lock(): a CPU that has taken a ticket enters the
\* kernel, whatever the other CPUs do with lock and try_lock.
SpinnerEntersKernel == \A c \in CPUs : pc[c] = "spin" ~> pc[c] = "kernel"

\* is_locked() reports the lock as held whenever some CPU holds it:
\* tst_big_lock asserts BUG_ON(!is_locked(&big_kernel_lock)) on the boot
\* CPU, which holds the lock since main().
HeldImpliesIsLocked == Holders # {} => is_locked
=============================================================================
