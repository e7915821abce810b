------------------------------- MODULE MCVMSpace -------------------------------
(* Pages of 2 bytes, 12 virtual pages: user regions and the heap (from   *)
(* page 4) in pages 0 .. 5, the root binary in pages 6 .. 9 and its      *)
(* stack in pages 10 and 11.                                              *)
EXTENDS VMSpace, TLC

CONSTANTS p1, p2, p3, stk, txt, dat

\* Three PMOs for user code, then those of the stack and the binary.
MC_Pmos == {p1, p2, p3, stk, txt, dat}
MC_SegPmos == (2 :> txt) @@ (3 :> dat)
\* A PT_PHDR header, a read-only text segment at an address one byte past
\* a page boundary whose two bytes span two pages, and a data segment of
\* one file byte and two bytes of .bss.
MC_Segments ==
  << [type |-> "PT_PHDR", offset |-> 0, vaddr |-> 12, memsz |-> 0, filesz |-> 0, flags |-> {"R"}],
     [type |-> "PT_LOAD", offset |-> 1, vaddr |-> 13, memsz |-> 2, filesz |-> 2, flags |-> {"R", "X"}],
     [type |-> "PT_LOAD", offset |-> 5, vaddr |-> 17, memsz |-> 3, filesz |-> 1, flags |-> {"R", "W"}] >>
\* The archive at CPIO_BIN (user/lib/launcher.h): a file whose name and
\* data both need padding, then the binary spawn loads.
MC_CpioFiles == << [name |-> <<"a", "b">>, size |-> 5], [name |-> <<"u", "s">>, size |-> 9] >>
MC_UserBinPath == <<"/", "u", "s">>
\* Every list of at most two files, of names whose header and name end
\* at each of the four offsets modulo 4 and of sizes with and without
\* padding (one name of a file twice as well).
MC_CpioFileLists ==
  LET F == [name : {<<"a">>, <<"a", "b">>, <<"u", "s", "r">>, <<"x", "y", "z", "w">>},
            size : {0, 1, 3, 4}]
  IN  {<<>>} \cup {<<f>> : f \in F} \cup {<<f, g>> : f, g \in F}
\* One page, and a byte more than one page (rounded up to two).
MC_CreateSizes == {2, 3}
\* A three-page PMO, which can contain a one-page region.
MC_CreateSizesBig == {2, 6}
\* One page only (for a region right above the heap).
MC_CreateSizesOne == {2}
MC_CreateTypes == {PMO_ANONYM, PMO_DATA}
\* An unaligned address, and addresses whose regions overlap.
MC_MapAddrs == {0, 3}
MC_MapAddrsContain == {0, 2}
MC_UnmapAddrs == {0, 2}
\* The heap's start as well.
MC_UnmapAddrsHeap == {0, 8}
\* The page right above the heap's first page.
MC_MapAddrsAboveHeap == {0, 10}
\* Below the heap top (refused), one page and two pages of heap.
MC_BrkAddrs == {7, 9, 12}
MC_AccessAddrs == {0, 3, 8, 11}
\* PMOs are names only: no code orders or compares them.
MC_Symmetry == Permutations({p1, p2, p3})
MC_Perms == {"R", "RW"}
=============================================================================
