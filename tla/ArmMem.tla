-------------------------------- MODULE ArmMem --------------------------------
(***************************************************************************)
(* The memory code of the 32-bit ARM port: arch/arm/mem.c and cache.S on   *)
(* the layouts of the six boards under platform/arm, driven by the calls   *)
(* that the benchmarks make, in any order of benchmarks.                   *)
(*                                                                         *)
(* Addresses are 1 MB section numbers.  A section is mapped once: mapping  *)
(* it again to something else is an error that ends in arch_abort, so      *)
(* every region a board, the harness or a benchmark maps has to agree with *)
(* all the others.  arch_abort never returns: nothing follows "abort".     *)
(***************************************************************************)
EXTENDS Naturals, Functions, FiniteSetsExt

CONSTANT Boards   \* the boards to run on

VARIABLES
    board,                  \* the board; never changes
    pc, bench,              \* the call that comes next, and the benchmark
    section_table,          \* the sections mapped, and to what
    tlb,                    \* the translations cached
    mmu,                    \* control register bits 0 (MMU) and 2 (data cache)
    cache,                  \* what the data cache holds
    mem_cache_implemented   \* what the last mem_init found

vars == <<board, pc, bench, section_table, tlb, mmu, cache, mem_cache_implemented>>

------------------------------------------------------------------------------
(* The boards: the sections of the image from sys.ld (each fits in one      *)
(* section of text and, with the 1 MB stack, in a few of data), the devices *)
(* and memory from mem.c and constants.h, where the vectors are copied, and *)
(* the processor: its main ID register and the version it is built for.     *)

Board(text, data, devices, phys, vectors, bit23, arch, march) ==
    [text |-> text, data |-> data, devices |-> devices, phys |-> phys, vectors |-> vectors,
     bit23 |-> bit23, arch |-> arch, march |-> march]

ArndaleBoard == Board({\h600}, \h600..\h602, {\h12c, \h104}, \h500..\h5ff, \h6f0, 0, 15, 7)
RealviewPba8 == Board({\h000}, \h001..\h002, {\h100, \h1e0}, \h010..\h08f, \h005, 0, 15, 7)
Sa1100 == Board({\h000}, \hc10..\hc11, {\h800, \h900}, \hc00..\hc0f, \h000, 0, 1, 4)
Versatile == Board({\h000}, \h080..\h081, {\h101, \h100}, \h040..\h07f, \h005, 0, 6, 5)
VexpressA15 == Board({\h800}, \h801..\h803, {\h1c0, \h2c0, \h2c1}, \ha00..\hbff, \h8ff, 0, 15, 7)
VexpressA9 == Board({\h600}, \h601..\h603, {\h100, \h1e0, \h1e1}, \h840..\h9ff, \h6ff, 0, 15, 7)

\* Every board relocates its vectors to the offset of the high vectors.
VectorOffset == \hf0000

\* The section where the fault benchmarks read and call.
FaultSection == \hc00

\* The sections of the 32-bit address space; the last one holds the high
\* vectors.
SectionNumbers == 0..\hfff
LowSections == 0..\hffe

(* What the constants of a board port have to satisfy. *)

\* No region reaches the section of the high vectors.
InRange(bd) ==
    /\ bd.text \cup bd.data \cup bd.devices \cup bd.phys \subseteq LowSections
    /\ {bd.vectors, bd.vectors + 1} \subseteq LowSections
\* Devices are apart from memory.
DevicesApart(bd) ==
    (bd.text \cup bd.data \cup bd.phys \cup {bd.vectors, bd.vectors + 1}) \cap bd.devices = {}
\* mem_get_phys_info names an interval.
PhysInterval(bd) == \E lo, hi \in bd.phys : bd.phys = lo..hi
\* The fault address is nothing that mem_init maps.
FaultApart(bd) ==
    FaultSection \notin bd.text \cup bd.data \cup bd.devices \cup {bd.vectors, bd.vectors + 1}
\* The build is for version 7 exactly when the processor says it is one.
BuildMatches(bd) == bd.bit23 \in {0, 1} /\ bd.arch \in 0..15 /\ (bd.arch = 15 <=> bd.march = 7)

Layout(bd) ==
    InRange(bd) /\ DevicesApart(bd) /\ PhysInterval(bd) /\ FaultApart(bd) /\ BuildMatches(bd)

ASSUME BoardsAssumption == \A bd \in Boards : Layout(bd)

------------------------------------------------------------------------------
(* Processor identification *)

\* The architecture field as the switch of mem_get_arm_arch_version reads it.
SwitchVersion(arch) ==
    CASE arch \in {1, 2} -> 4
      [] arch \in 3..6 -> 5
      [] arch = 7 -> 6
      [] arch = 15 -> 7
      [] OTHER -> 0

\* mem_get_arm_arch_version: bit 19 is the top bit of the same field.
ArchVersion ==
    IF board.arch < 8 THEN IF board.bit23 = 0 THEN 3 ELSE 4
                      ELSE SwitchVersion(board.arch)

Armv7Build == board.march = 7

\* mem_check_is_cache_unified: up to version 4 the earlier answer stays; on 5
\* and 6 the cache type register is asked.
CheckCache ==
    CASE ArchVersion <= 4 -> {mem_cache_implemented}
      [] ArchVersion \in 5..6 -> BOOLEAN
      [] OTHER -> {TRUE}

------------------------------------------------------------------------------
(* The section table *)

Data(s) == [pa |-> s, kind |-> "data"]
Device(s) == [pa |-> s, kind |-> "device"]
NoSections == [s \in {} |-> Data(s)]

\* mem_create_page_mapping_*: an entry that is there may only be rewritten
\* with itself.
Agree(table, more) == \A s \in DOMAIN table \cap DOMAIN more : table[s] = more[s]
Extend(table, more) ==
    [s \in DOMAIN table \cup DOMAIN more |-> IF s \in DOMAIN table THEN table[s] ELSE more[s]]

\* The regions are inclusive of their end, so that two sections are mapped for
\* the vectors.  Mutant: the vectors are not identity mapped.
NoVectorsInPlace == {}
VectorsInPlace == {board.vectors, board.vectors + 1}

\* The vectors section: load_vectors has set bit 13 of the control register.
\* Mutants: low vectors; one section past the table.
LowVectors == 0
VectorsPastEnd == \h1000
VectorVaddr == \hfff
VectorMapping == [s \in {VectorVaddr} |-> Data(board.vectors)]
OffsetsMatch == VectorOffset = IF VectorVaddr = 0 THEN 0 ELSE \hf0000

IdentityMap == [s \in board.text \cup board.data \cup VectorsInPlace |-> Data(s)]
DeviceMap == [s \in board.devices |-> Device(s)]

\* What mem_init starts from: bzero of the table.  Mutant: it is kept.
KeptTable == section_table
ClearedTable == NoSections

\* The code loads and stores with the cache off: if the cache still holds
\* lines, a load misses what they hold and a store leaves them behind.
UncachedAccess == cache' = IF cache = "empty" THEN "empty" ELSE "stale"

\* mem_init, up to the check of the vector offsets and after it; pc' = to.
MemInit(to) ==
    /\ mem_cache_implemented' \in CheckCache
    /\ LET fixed == Extend(Extend(ClearedTable, IdentityMap), DeviceMap)
       IN \/ /\ Agree(ClearedTable, IdentityMap)
             /\ Agree(Extend(ClearedTable, IdentityMap), DeviceMap)
             /\ Agree(fixed, VectorMapping) /\ OffsetsMatch
             /\ section_table' = Extend(fixed, VectorMapping)
             /\ pc' = to
          \/ /\ \/ ~Agree(ClearedTable, IdentityMap)
                \/ ~Agree(Extend(ClearedTable, IdentityMap), DeviceMap)
                \/ ~Agree(fixed, VectorMapping) \/ ~OffsetsMatch
             /\ section_table' = ClearedTable
             /\ pc' = "abort"
    /\ UncachedAccess
    /\ UNCHANGED <<board, bench, tlb, mmu>>

------------------------------------------------------------------------------
(* The benchmarks' calls, in their order *)

Kinds == {"image", "fault", "phys", "nonpriv"}

\* The next benchmark's kernel_init.
Begin(kind) ==
    /\ pc = "idle"
    /\ bench' = kind /\ pc' = "mem_init"
    /\ UncachedAccess
    /\ UNCHANGED <<board, section_table, tlb, mmu, mem_cache_implemented>>

InitCall == pc = "mem_init" /\ MemInit(IF bench \in {"phys", "nonpriv"} THEN bench ELSE "enable")

\* The identity map of the physical memory, section by section.
MapPhys ==
    LET more == [s \in board.phys |-> Data(s)] IN
    /\ pc = "phys"
    /\ \/ Agree(section_table, more) /\ section_table' = Extend(section_table, more) /\ pc' = "enable"
       \/ ~Agree(section_table, more) /\ pc' = "abort" /\ UNCHANGED section_table
    /\ UncachedAccess
    /\ UNCHANGED <<board, bench, tlb, mmu, mem_cache_implemented>>

\* memory-nonpriv.c maps a variable that is not section aligned: the call
\* returns 1, which is ignored.
MapValue ==
    /\ pc = "nonpriv" /\ pc' = "enable"
    /\ UncachedAccess
    /\ UNCHANGED <<board, bench, section_table, tlb, mmu, mem_cache_implemented>>

\* mem_cache_flush as a whole: nothing without a cache, else every line is
\* written back and invalidated; version 6 has no code.
CacheFlush ==
    CASE ~mem_cache_implemented -> "nothing"
      [] mem_cache_implemented /\ (ArchVersion <= 5 \/ Armv7Build) -> "clean"
      [] OTHER -> "abort"

MmuEnable ==
    /\ pc = "enable"
    /\ \/ CacheFlush = "abort" /\ pc' = "abort" /\ UNCHANGED <<mmu, cache>>
       \/ CacheFlush = "clean" /\ pc' = "flush" /\ mmu' = TRUE /\ cache' = "empty"
       \/ CacheFlush = "nothing" /\ pc' = "flush" /\ mmu' = TRUE /\ UncachedAccess
    /\ UNCHANGED <<board, bench, section_table, tlb, mem_cache_implemented>>

\* mem_tlb_flush; mem_armv*_cache_mmu_off has the same operation.  Mutant: it
\* does nothing, as on ARMv8.
NotFlushed == tlb
FlushedTlb == NoSections

TlbFlush ==
    /\ tlb' = FlushedTlb
    /\ \/ pc = "flush" /\ pc' = "kernel" /\ UNCHANGED cache
       \/ pc = "flush_off" /\ pc' = "mem_reset" /\ UncachedAccess
    /\ UNCHANGED <<board, bench, section_table, mmu, mem_cache_implemented>>

\* The sections the code touches while the MMU is on: the image always, the
\* others in the kernel of the benchmark that is about them.  The fault
\* benchmarks first write a handler in the relocated vectors and reach it
\* through the high ones.
Touched ==
    board.text \cup board.data
      \cup (IF pc # "kernel" THEN {}
            ELSE CASE bench = "phys" -> {Min(board.phys), Max(board.phys)}
                   [] bench = "fault" -> {FaultSection, board.vectors, VectorVaddr}
                   [] OTHER -> board.devices)

\* An access that translates fills the TLB and the cache; a store leaves a
\* dirty line.
Access(s) ==
    /\ mmu /\ pc # "abort" /\ s \in Touched
    /\ s \in DOMAIN tlb \cup DOMAIN section_table
    /\ tlb' = IF s \in DOMAIN tlb THEN tlb ELSE Extend(tlb, Restrict(section_table, {s}))
    /\ \/ cache' = "dirty"
       \/ cache = "empty" /\ cache' = "clean"
       \/ cache # "empty" /\ UNCHANGED cache
    /\ UNCHANGED <<board, pc, bench, section_table, mmu, mem_cache_implemented>>

\* An access that does not translate: the handler skips it in the fault
\* benchmarks, which are the only ones to expect it.
Fault(s) ==
    /\ mmu /\ pc # "abort" /\ s \in Touched
    /\ s \notin DOMAIN tlb \cup DOMAIN section_table
    /\ pc' = IF pc = "kernel" /\ bench = "fault" /\ s = FaultSection THEN pc ELSE "abort"
    /\ UNCHANGED <<board, bench, section_table, tlb, mmu, cache, mem_cache_implemented>>

\* mem_tlb_evict in the kernel of tlb-evict.c.
TlbEvict(s) ==
    /\ pc = "kernel" /\ bench = "phys" /\ s \in DOMAIN tlb
    /\ tlb' = Restrict(tlb, DOMAIN tlb \ {s})
    /\ UNCHANGED <<board, pc, bench, section_table, mmu, cache, mem_cache_implemented>>

\* mem_armv*_cache_mmu_off pushes its frame, which leaves a dirty line in the
\* cache, and then clears the bits of the MMU and of the data cache.
SwitchOff == cache' = "dirty" /\ mmu' = FALSE /\ pc' = "off_clean"

\* mem_mmu_disable: the build has the routine for its own version only.
MmuDisable ==
    /\ pc = "kernel"
    /\ \/ (ArchVersion = 7 <=> Armv7Build) /\ SwitchOff
       \/ ~(ArchVersion = 7 <=> Armv7Build) /\ pc' = "abort" /\ UNCHANGED <<mmu, cache>>
    /\ UNCHANGED <<board, bench, section_table, tlb, mem_cache_implemented>>

\* The rest of the routine.  Every line is written back and invalidated, in
\* one operation up to version 5 and by set and way on version 7, from
\* registers only: the cache is off and still dirty.  Mutant: not cleaned.
NotCleaned == cache
CleanedCache == "empty"

CleanOff ==
    /\ pc = "off_clean" /\ pc' = "off_flush"
    /\ cache' = CleanedCache
    /\ UNCHANGED <<board, bench, section_table, tlb, mmu, mem_cache_implemented>>

FlushOff ==
    /\ pc = "off_flush" /\ pc' = "off_return"
    /\ tlb' = FlushedTlb
    /\ UNCHANGED <<board, bench, section_table, mmu, cache, mem_cache_implemented>>

\* The frame, the return address in it, is popped with the cache off.
ReturnOff ==
    /\ pc = "off_return" /\ pc' = "flush_off"
    /\ UncachedAccess
    /\ UNCHANGED <<board, bench, section_table, tlb, mmu, mem_cache_implemented>>

MemReset == pc = "mem_reset" /\ MemInit("idle")

------------------------------------------------------------------------------
Init ==
    /\ board \in Boards
    /\ pc = "idle" /\ bench = "image"
    /\ section_table = NoSections /\ tlb = NoSections
    /\ mmu = FALSE /\ cache = "empty" /\ mem_cache_implemented = FALSE

Sections == Touched \cup DOMAIN tlb

Next ==
    \/ \E kind \in Kinds : Begin(kind)
    \/ InitCall \/ MapPhys \/ MapValue \/ MmuEnable \/ TlbFlush
    \/ \E s \in Sections : Access(s) \/ Fault(s) \/ TlbEvict(s)
    \/ MmuDisable \/ CleanOff \/ FlushOff \/ ReturnOff \/ MemReset

Spec == Init /\ [][Next]_vars

------------------------------------------------------------------------------
(* Properties *)

TypeOK ==
    /\ board \in Boards
    /\ pc \in {"idle", "mem_init", "phys", "nonpriv", "enable", "flush", "kernel", "off_clean",
               "off_flush", "off_return", "flush_off", "mem_reset", "abort"}
    /\ cache \in {"empty", "clean", "dirty", "stale"}
    /\ bench \in Kinds
    /\ \A s \in DOMAIN section_table :
         s \in SectionNumbers /\ section_table[s] \in [pa : SectionNumbers, kind : {"data", "device"}]
    /\ DOMAIN tlb \subseteq SectionNumbers
    /\ {mmu, mem_cache_implemented} \subseteq BOOLEAN

\* On every board, whatever the order of the benchmarks, no mapping collides
\* with another, no access but the intended one faults, and the routines the
\* build has are the ones the processor's version selects.
NeverAborts == pc # "abort"

\* While the MMU is on the TLB holds nothing that the table does not say: a
\* translation of one benchmark never survives into the next.
TlbCoherent == mmu => \A s \in DOMAIN tlb : s \in DOMAIN section_table /\ tlb[s] = section_table[s]

\* The address that the fault benchmarks read or call does fault, also on
\* sa1100 where it is the memory that other benchmarks map.
FaultAddressUnmapped ==
    pc = "kernel" /\ bench = "fault" => FaultSection \notin DOMAIN tlb \cup DOMAIN section_table

\* The handler that exception.c stores in the relocated vectors is the one the
\* processor fetches through the high vectors.
HandlersReachable ==
    mmu => /\ {board.vectors, VectorVaddr} \subseteq DOMAIN section_table
           /\ section_table[board.vectors] = section_table[VectorVaddr]

\* The data cache and the memory never disagree.  mem_armv*_cache_mmu_off
\* switches the cache off with dirty lines in it, the frame it has pushed at
\* least: nothing is loaded or stored, not even that frame, before they are
\* written back, and none is left for mem_mmu_enable to switch on again after
\* mem_reset and the next kernel_init have written the memory under it.
CacheNeverStale == cache # "stale"

\* mem_init finds the data cache of a processor of version 5 or later ("cache
\* type register only exists since ARMv5"), so that mem_mmu_enable cleans it.
CacheFound == pc = "enable" /\ board.march >= 5 => mem_cache_implemented
==============================================================================
