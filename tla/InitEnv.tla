------------------------------ MODULE InitEnv ------------------------------
(***************************************************************************)
(* The initial environment of a main thread: the page at the top of its   *)
(* stack holding argc, argv, envp, the auxiliary vector and the program   *)
(* name and platform strings, "according to Libc convention".  It is      *)
(* written by the kernel for the root process (prepare_env, process/      *)
(* thread_env.c, called by thread_create_main) and by the user library    *)
(* for every spawned process (construct_init_env, user/lib/spawn.c,       *)
(* called by launch_process_with_pmos_caps), and read by the new thread's *)
(* _start_c (user/lib/libmain.c).                                          *)
(*                                                                         *)
(* The page is a function from byte offsets to the value stored there;   *)
(* an offset absent from it holds 0 (both writers clear the page first).  *)
(* A u64 store at word k is one entry at offset 8 * k, a byte store one   *)
(* entry per byte.  Each writer is the sequence of its stores in code     *)
(* order, applied so that a store overwriting an earlier one is   *)
(* visible.  Bytes of strings are their character codes.                  *)
(***************************************************************************)
EXTENDS Integers, Sequences, SequencesExt, TLC

CONSTANTS
  PAGE_SIZE,               \* 0x1000
  ENV_SIZE_ON_STACK,       \* the env size thread_create_main reserves
  MAIN_THREAD_STACK_BASE,  \* user/lib/defs.h
  MAIN_THREAD_STACK_SIZE,
  ROOT_THREAD_STACK_BASE,  \* process/thread.h
  ROOT_THREAD_STACK_SIZE,
  NameLens,                \* lengths of the program names passed
  MapAddrs,                \* addresses of the pmo_map_reqs a parent passes
  CapVals,                 \* the child's cap ids usys_transfer_caps returns
  MaxReqs,                 \* bound on nr_pmo_map_reqs
  MaxCaps,                 \* bound on nr_caps
  Writers                  \* which of "kernel" and "user" write envs

WORD == 8                  \* sizeof(u64)

\* The process_metadata parse_elf_from_binary (and load_binary) fill in,
\* for an ELF of two program headers; the writers only pass it on.
Meta == [phdr_addr |-> 4194368, phentsize |-> 56, phnum |-> 2, flags |-> 0,
         entry |-> 4194560]

AT_NULL == 0
AT_PHDR == 3
AT_PHENT == 4
AT_PHNUM == 5
AT_PAGESZ == 6
AT_FLAGS == 8
AT_ENTRY == 9
AT_UID == 11
AT_EUID == 12
AT_GID == 13
AT_EGID == 14
AT_PLATFORM == 15
AT_HWCAP == 16
AT_CLKTCK == 17
AT_SECURE == 23
AT_RANDOM == 25

\* "aarch64", and a program name of n bytes (the bytes are not NUL).
PLAT == <<97, 97, 114, 99, 104, 54, 52>>
Name(n) == [i \in 1 .. n |-> 47]

\* Stores: the bytes of s from offset o (the copy loops stop at the NUL,
\* which they do not copy); words ws from word k; and pairs <<j, v>> of
\* *(buf + i + j) = v from word i.
StrStores(o, s) == [j \in DOMAIN s |-> <<o + j - 1, s[j]>>]
WordStores(k, ws) == [j \in DOMAIN ws |-> <<WORD * (k + j - 1), ws[j]>>]
IdxStores(i, ps) == [j \in DOMAIN ps |-> <<WORD * (i + ps[j][1]), ps[j][2]>>]

\* The page after memset and the stores in order: each offset holds the
\* value of the last store to it.
Apply(sts) ==
  [o \in {st[1] : st \in Range(sts)} |->
     sts[Max({j \in DOMAIN sts : sts[j][1] = o})][2]]

\* The auxv words both writers store first, from AT_SECURE to AT_CLKTCK.
AuxvHead(meta) ==
  <<AT_SECURE, 0, AT_PAGESZ, PAGE_SIZE, AT_PHDR, meta.phdr_addr,
    AT_PHENT, meta.phentsize, AT_PHNUM, meta.phnum, AT_FLAGS, meta.flags,
    AT_ENTRY, meta.entry, AT_UID, 1000, AT_EUID, 1000, AT_GID, 1000,
    AT_EGID, 1000, AT_CLKTCK, 100>>

\* prepare_env(env, top_vaddr, meta, name), offsets from env after
\* env -= ENV_SIZE_ON_STACK: the name at 0x1000 - 64, PLAT at 0x1000 - 128,
\* argc 1, argv {top_vaddr - 64, NULL}, an empty envp, and the auxv from
\* word 4 to AT_NULL at word 34.
prepare_env(top_vaddr, meta, name) ==
  Apply(StrStores(PAGE_SIZE - 64, name) \o StrStores(PAGE_SIZE - 2 * 64, PLAT)
        \o WordStores(0, <<1, top_vaddr - 64, 0, 0>>)
        \o WordStores(4, AuxvHead(meta) \o
             <<AT_HWCAP, 0, AT_PLATFORM, top_vaddr - 64 * 2,
               AT_RANDOM, top_vaddr - 64, AT_NULL, 0>>))

\* construct_init_env(env, top_vaddr, meta, name, pmo_map_reqs, .., caps,
\* ..): the same strings, argc and argv; envp is the addresses of the
\* pmo_map_reqs (a single 0 when there are none), then the caps, then
\* NULL; the auxv follows at i, its last entries stored at i + 24 .. 30
\* with i + 25 written twice.
construct_init_env(top_vaddr, meta, name, reqs, caps) ==
  LET envp == (IF reqs = <<>> THEN <<0>> ELSE reqs) \o caps \o <<0>>
      i == 3 + Len(envp)
  IN  Apply(StrStores(PAGE_SIZE - 64, name) \o StrStores(PAGE_SIZE - 2 * 64, PLAT)
            \o WordStores(0, <<1, top_vaddr - 64, 0>>) \o WordStores(3, envp)
            \o WordStores(i, AuxvHead(meta))
            \o IdxStores(i, <<<<24, AT_HWCAP>>, <<25, 0>>, <<25, AT_PLATFORM>>,
                              <<26, top_vaddr - 64 * 2>>, <<27, AT_RANDOM>>,
                              <<28, top_vaddr - 64>>, <<29, AT_NULL>>, <<30, 0>>>>))

\* Bounded inputs of the user writer.
SeqsUpTo(S, n) == UNION {[1 .. l -> S] : l \in 0 .. n}

VARIABLES
  env,   \* the page as the new thread sees it
  call   \* the writer, its inputs, and the user address of offset 0

vars == <<env, call>>

Init ==
  /\ env = [o \in {} |-> 0]
  /\ call = [writer |-> "none"]

\* thread_create_main: stack = stack_base + stack_size is top_vaddr;
\* prepare_env writes below the top of the stack PMO; the thread's stack
\* pointer is stack - ENV_SIZE_ON_STACK, where the env begins.
thread_create_main(n) ==
  LET top == ROOT_THREAD_STACK_BASE + ROOT_THREAD_STACK_SIZE IN
  /\ env' = prepare_env(top, Meta, Name(n))
  /\ call' = [writer |-> "kernel", name |-> Name(n), reqs |-> <<>>, caps |-> <<>>,
              top |-> top, base |-> top - ENV_SIZE_ON_STACK,
              size |-> ENV_SIZE_ON_STACK]

\* launch_process_with_pmos_caps, steps 4, 5 and 7: construct_init_env
\* with stack_top = MAIN_THREAD_STACK_BASE + MAIN_THREAD_STACK_SIZE, the
\* PAGE_SIZE bytes of init_env written at stack_offset = SIZE - PAGE_SIZE
\* of the stack PMO, and stack_va = stack_top - PAGE_SIZE.
launch_process_with_pmos_caps(n, reqs, caps) ==
  LET top == MAIN_THREAD_STACK_BASE + MAIN_THREAD_STACK_SIZE IN
  /\ env' = construct_init_env(top, Meta, Name(n), reqs, caps)
  /\ call' = [writer |-> "user", name |-> Name(n), reqs |-> reqs, caps |-> caps,
              top |-> top, base |-> top - PAGE_SIZE, size |-> PAGE_SIZE]

Next ==
  \/ "kernel" \in Writers /\ \E n \in NameLens : thread_create_main(n)
  \/ "user" \in Writers /\ \E n \in NameLens, reqs \in SeqsUpTo(MapAddrs, MaxReqs),
        caps \in SeqsUpTo(CapVals, MaxCaps) :
       launch_process_with_pmos_caps(n, reqs, caps)

Spec == Init /\ [][Next]_vars

-----------------------------------------------------------------------------
(* The reader *)

\* Word k and byte o of the page.
W(k) == IF WORD * k \in DOMAIN env THEN env[WORD * k] ELSE 0
B(o) == IF o \in DOMAIN env THEN env[o] ELSE 0

\* _start_c(p): argc = p[0], argv = p + 1, envp = p + 3.
argv0 == W(1)
envp(j) == W(3 + j)

\* The libc convention the writers follow: envp starts after argv's NULL,
\* the auxv after envp's NULL, and the auxv is read in <<key, value>>
\* pairs up to AT_NULL, a key below AUX_CNT setting aux[key].
AUX_CNT == 38
NWORDS == PAGE_SIZE \div WORD
RECURSIVE EndOf(_)
EndOf(k) == IF k >= NWORDS \/ W(k) = 0 THEN k ELSE EndOf(k + 1)
RECURSIVE AuxvFrom(_, _)
AuxvFrom(k, aux) ==
  IF k + 1 >= NWORDS \/ W(k) = AT_NULL THEN aux
  ELSE AuxvFrom(k + 2, IF W(k) < AUX_CNT THEN (W(k) :> W(k + 1)) @@ aux ELSE aux)
LibcAuxv == AuxvFrom(EndOf(EndOf(1) + 1) + 1, [a \in {} |-> 0])

\* The entries both writers set out to pass, as their comments name them.
IntendedAuxv(top) ==
  (AT_SECURE :> 0) @@ (AT_PAGESZ :> PAGE_SIZE) @@ (AT_PHDR :> Meta.phdr_addr)
  @@ (AT_PHENT :> Meta.phentsize) @@ (AT_PHNUM :> Meta.phnum)
  @@ (AT_FLAGS :> Meta.flags) @@ (AT_ENTRY :> Meta.entry) @@ (AT_UID :> 1000)
  @@ (AT_EUID :> 1000) @@ (AT_GID :> 1000) @@ (AT_EGID :> 1000)
  @@ (AT_CLKTCK :> 100) @@ (AT_HWCAP :> 0) @@ (AT_PLATFORM :> top - 128)
  @@ (AT_RANDOM :> top - 64)

-----------------------------------------------------------------------------
(* Properties *)

TypeOK ==
  /\ DOMAIN env \subseteq Int
  /\ call.writer \in {"none", "kernel", "user"}

\* A libc reading the env of a new main thread, written by prepare_env or
\* by construct_init_env, finds exactly the auxiliary vector the writer
\* lists: the auxv pairs line up and nothing before them ends envp early.
AuxvAsWritten ==
  call.writer # "none" => LibcAuxv = IntendedAuxv(call.top)

\* argv[0], read by _start_c, points at the program name, NUL-terminated
\* inside the env: the copy loops of both writers store the name's bytes
\* at top - 64 with no check of its length.
ArgvNamesProgram ==
  call.writer # "none" =>
    LET a == argv0 - call.base
        n == Len(call.name)
    IN  /\ 0 <= a /\ a + n < call.size
        /\ \A j \in 1 .. n : B(a + j - 1) = call.name[j]
        /\ B(a + n) = 0

\* No store of a writer lands past the env: init_env is a PAGE_SIZE array
\* and the kernel env ends at the top of the stack PMO.
NoWritePastEnv ==
  call.writer # "none" => \A o \in DOMAIN env : 0 <= o /\ o < call.size
====
