----------------------------- MODULE MCX86Suite -----------------------------
(***************************************************************************)
(* Both x86_64 platforms.  The suite in the order of benchmarks/Makefile,  *)
(* six of its members in every other order, and the data fault benchmark   *)
(* with every load.                                                        *)
(***************************************************************************)
EXTENDS X86Suite

MakefileOrder ==
    <<"undef", "swi", "syscall", "dfault", "ifault", "plain", "tlb_flush", "tlb_evict",
      "plain", "hot_mmu", "cold_nommu", "cold_mmu", "nonpriv", "device_access", "plain">>

Shuffled == SetToSeqs({"dfault", "ifault", "swi", "tlb_flush", "nonpriv", "device_access"})

\* movabs 0xc0000000, %eax and mov (%rdx), %eax.
Movabs == [prefixes |-> <<>>, opcode |-> \ha1, mod |-> 0, rm |-> 0, base |-> 0]
MovRdx == [prefixes |-> <<>>, opcode |-> \h8b, mod |-> 0, rm |-> 2, base |-> 0]

MCMakefileOrder == [order : {MakefileOrder}, load : {Movabs, MovRdx}]
MCAllImages ==
    MCMakefileOrder \cup [order : Shuffled, load : {Movabs}] \cup [order : {<<"dfault">>}, load : Instructions]

\* The native platform, the one that calibrates, has the memory it needs; the
\* physical memory of the qemu platform takes more tables than its heap holds.
ASSUME NativeHeapSuffices == Calibrates <=> HeapSuffices

MCPrefixBytes == {\h66, \h67, \h41, \h48}
=============================================================================
