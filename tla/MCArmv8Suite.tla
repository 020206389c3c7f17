---------------------------- MODULE MCArmv8Suite ----------------------------
(***************************************************************************)
(* The suite in the order of benchmarks/Makefile, and six of its members   *)
(* in every other order.                                                   *)
(***************************************************************************)
EXTENDS Armv8Suite

MakefileOrder ==
    <<"undef", "swi", "syscall", "dfault", "ifault", "small_blocks", "large_blocks",
      "dispatch", "dispatch", "dispatch", "dispatch", "tlb_flush", "tlb_evict",
      "hot_nommu", "hot_mmu", "cold_nommu", "cold_mmu", "nonpriv",
      "device_access", "coprocessor">>

Shuffled == SetToSeqs({"undef", "swi", "dfault", "tlb_flush", "cold_nommu", "nonpriv"})

MCMakefileOrder == {MakefileOrder}
MCAllOrders == {MakefileOrder} \cup Shuffled
=============================================================================
