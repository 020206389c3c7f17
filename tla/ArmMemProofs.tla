----------------------------- MODULE ArmMemProofs -----------------------------
(***************************************************************************)
(* Proofs about the memory code of the ARM port, for every set of boards   *)
(* whose constants satisfy Layout and every order of benchmarks.           *)
(***************************************************************************)
EXTENDS ArmMem, TLAPS

\* The table that mem_init builds, and the one that the benchmarks on physical
\* memory extend it to.
FixedMap == Extend(Extend(Extend(NoSections, IdentityMap), DeviceMap), VectorMapping)
PhysMap == [s \in board.phys |-> Data(s)]
BenchmarkMap == IF bench = "phys" THEN Extend(FixedMap, PhysMap) ELSE FixedMap

Mapping == {"enable", "flush", "kernel", "off_clean", "off_flush", "off_return", "flush_off",
            "mem_reset"}

\* What the table holds at each call.
TableAt ==
    /\ pc \in {"phys", "nonpriv"} => pc = bench /\ section_table = FixedMap
    /\ pc \in Mapping => section_table = BenchmarkMap

\* The MMU is on between mem_mmu_enable and the write of the control register
\* in mem_mmu_disable.  Off, only the rest of that routine finds lines in the
\* cache or translations in the TLB, and it removes the lines first.
MmuAt ==
    /\ mmu <=> pc \in {"flush", "kernel"}
    /\ ~mmu /\ pc \notin {"off_clean", "off_flush"} => DOMAIN tlb = {}
    /\ ~mmu /\ pc # "off_clean" => cache = "empty"
    /\ cache # "stale"

\* The inductive invariant.  TlbCoherent alone is not inductive: that enabling
\* the MMU on a new table finds no old translation needs MmuAt, and that no
\* access faults needs what TableAt says of the table.
IInv == TypeOK /\ NeverAborts /\ TableAt /\ MmuAt /\ TlbCoherent

------------------------------------------------------------------------------
(* Facts about a board's layout *)

\* Two mappings that agree extend to one that has the sections of both.
LEMMA ExtendFacts ==
    ASSUME NEW f, NEW g
    PROVE  /\ DOMAIN Extend(f, g) = DOMAIN f \cup DOMAIN g
           /\ \A s \in DOMAIN f : Extend(f, g)[s] = f[s]
           /\ \A s \in DOMAIN g : s \notin DOMAIN f => Extend(f, g)[s] = g[s]
BY DEF Extend

\* The maps that mem_init enters.
LEMMA Parts ==
    /\ DOMAIN NoSections = {}
    /\ DOMAIN IdentityMap = board.text \cup board.data \cup VectorsInPlace
    /\ \A s \in DOMAIN IdentityMap : IdentityMap[s] = Data(s)
    /\ DOMAIN DeviceMap = board.devices
    /\ \A s \in DOMAIN DeviceMap : DeviceMap[s] = Device(s)
    /\ DOMAIN VectorMapping = {VectorVaddr}
    /\ VectorMapping[VectorVaddr] = Data(board.vectors)
    /\ DOMAIN PhysMap = board.phys
    /\ \A s \in DOMAIN PhysMap : PhysMap[s] = Data(s)
BY DEF NoSections, IdentityMap, DeviceMap, VectorMapping, PhysMap

\* Memory, devices and the high vectors are apart.
LEMMA Apart ==
    ASSUME board \in Boards
    PROVE  /\ (board.text \cup board.data \cup VectorsInPlace) \cap board.devices = {}
           /\ board.phys \cap board.devices = {}
           /\ board.text \cup board.data \cup VectorsInPlace \cup board.devices \cup board.phys
                \subseteq LowSections
           /\ VectorVaddr \notin LowSections
<1>1. InRange(board) /\ DevicesApart(board)
  BY BoardsAssumption DEF Layout
<1>2. (board.text \cup board.data \cup board.phys \cup VectorsInPlace) \cap board.devices = {}
  BY <1>1 DEF DevicesApart, VectorsInPlace
<1>3. board.text \cup board.data \cup board.devices \cup board.phys \subseteq LowSections
  BY <1>1 DEF InRange
<1>5. VectorsInPlace \subseteq LowSections
  BY <1>1 DEF InRange, VectorsInPlace
<1>6. VectorVaddr \notin LowSections
  BY DEF VectorVaddr, LowSections
<1>7. /\ (board.text \cup board.data \cup VectorsInPlace) \cap board.devices = {}
      /\ board.phys \cap board.devices = {}
  BY <1>2
<1>8. board.text \cup board.data \cup VectorsInPlace \cup board.devices \cup board.phys
        \subseteq LowSections
  BY <1>3, <1>5
<1> QED
  BY <1>6, <1>7, <1>8

\* What mem_init maps, and to what: no two of its regions collide.
LEMMA FixedMapFacts ==
    ASSUME board \in Boards
    PROVE  /\ Agree(NoSections, IdentityMap)
           /\ Agree(Extend(NoSections, IdentityMap), DeviceMap)
           /\ Agree(Extend(Extend(NoSections, IdentityMap), DeviceMap), VectorMapping)
           /\ DOMAIN FixedMap = board.text \cup board.data \cup VectorsInPlace
                                  \cup board.devices \cup {VectorVaddr}
           /\ \A s \in board.text \cup board.data \cup VectorsInPlace : FixedMap[s] = Data(s)
           /\ \A s \in board.devices : FixedMap[s] = Device(s)
           /\ FixedMap[VectorVaddr] = Data(board.vectors)
<1> DEFINE image == board.text \cup board.data \cup VectorsInPlace
           one == Extend(NoSections, IdentityMap)
           two == Extend(one, DeviceMap)
<1>a. /\ DOMAIN NoSections = {}
      /\ DOMAIN IdentityMap = image
      /\ \A s \in image : IdentityMap[s] = Data(s)
      /\ DOMAIN DeviceMap = board.devices
      /\ \A s \in board.devices : DeviceMap[s] = Device(s)
      /\ DOMAIN VectorMapping = {VectorVaddr}
      /\ VectorMapping[VectorVaddr] = Data(board.vectors)
  BY Parts
<1>b. image \cap board.devices = {} /\ VectorVaddr \notin image \cup board.devices
  BY Apart
<1> HIDE DEF image
<1>1. DOMAIN one = image /\ \A s \in image : one[s] = Data(s)
  <2>1. DOMAIN one = DOMAIN NoSections \cup DOMAIN IdentityMap
    BY ExtendFacts
  <2>2. DOMAIN one = image
    BY <1>a, <2>1
  <2>3. \A s \in DOMAIN IdentityMap : s \notin DOMAIN NoSections => one[s] = IdentityMap[s]
    BY ExtendFacts
  <2> QED
    BY <1>a, <2>2, <2>3
<1>2. Agree(NoSections, IdentityMap)
  BY <1>a DEF Agree
<1> HIDE DEF one
<1>3. Agree(one, DeviceMap)
  BY <1>a, <1>b, <1>1 DEF Agree
<1>4. /\ DOMAIN two = image \cup board.devices
      /\ \A s \in image : two[s] = Data(s)
      /\ \A s \in board.devices : two[s] = Device(s)
  <2>1. /\ DOMAIN two = DOMAIN one \cup DOMAIN DeviceMap
        /\ \A s \in DOMAIN one : two[s] = one[s]
        /\ \A s \in DOMAIN DeviceMap : s \notin DOMAIN one => two[s] = DeviceMap[s]
    BY ExtendFacts
  <2> HIDE DEF two
  <2> QED
    BY <1>1, <1>a, <1>b, <2>1
<1> HIDE DEF two
<1>5. Agree(two, VectorMapping)
  BY <1>4, <1>a, <1>b DEF Agree
<1>6. /\ DOMAIN FixedMap = image \cup board.devices \cup {VectorVaddr}
      /\ \A s \in image : FixedMap[s] = Data(s)
      /\ \A s \in board.devices : FixedMap[s] = Device(s)
      /\ FixedMap[VectorVaddr] = Data(board.vectors)
  <2>1. /\ DOMAIN FixedMap = DOMAIN two \cup DOMAIN VectorMapping
        /\ \A s \in DOMAIN two : FixedMap[s] = two[s]
        /\ \A s \in DOMAIN VectorMapping : s \notin DOMAIN two => FixedMap[s] = VectorMapping[s]
    BY ExtendFacts DEF FixedMap, one, two
  <2> QED
    BY <1>4, <1>a, <1>b, <2>1
<1> QED
  BY <1>2, <1>3, <1>5, <1>6 DEF image, one, two

\* The physical memory agrees with what mem_init has mapped.
LEMMA PhysFacts ==
    ASSUME board \in Boards
    PROVE  /\ Agree(FixedMap, PhysMap)
           /\ DOMAIN Extend(FixedMap, PhysMap) = DOMAIN FixedMap \cup board.phys
           /\ \A s \in DOMAIN FixedMap : Extend(FixedMap, PhysMap)[s] = FixedMap[s]
           /\ \A s \in board.phys \ DOMAIN FixedMap : Extend(FixedMap, PhysMap)[s] = Data(s)
<1>1. ASSUME NEW s \in DOMAIN FixedMap \cap board.phys
      PROVE  FixedMap[s] = Data(s)
  BY FixedMapFacts, Apart
<1>2. Agree(FixedMap, PhysMap)
  BY <1>1, Parts DEF Agree
<1>3. /\ DOMAIN Extend(FixedMap, PhysMap) = DOMAIN FixedMap \cup DOMAIN PhysMap
      /\ \A s \in DOMAIN FixedMap : Extend(FixedMap, PhysMap)[s] = FixedMap[s]
      /\ \A s \in DOMAIN PhysMap : s \notin DOMAIN FixedMap => Extend(FixedMap, PhysMap)[s] = PhysMap[s]
  BY ExtendFacts
<1> QED
  BY <1>2, <1>3, Parts

\* The two ends of the physical memory that the kernels touch.
LEMMA PhysEnds ==
    ASSUME board \in Boards
    PROVE  {Min(board.phys), Max(board.phys)} \subseteq board.phys
<1>1. PICK lo \in board.phys, hi \in board.phys : board.phys = lo..hi
  BY BoardsAssumption DEF Layout, PhysInterval
<1>2. lo \in Nat /\ hi \in Nat
  <2>1. lo \in LowSections /\ hi \in LowSections
    BY Apart
  <2> QED
    BY <2>1 DEF LowSections
<1>3. \A y \in board.phys : lo =< y /\ hi >= y
  BY <1>1, <1>2
<1>4. Min(board.phys) \in board.phys
  BY <1>3 DEF Min
<1>5. Max(board.phys) \in board.phys
  BY <1>3 DEF Max
<1> QED
  BY <1>4, <1>5

\* Whatever a benchmark maps is a section below 4 GB, the vectors are mapped
\* twice to the same memory, and everything that the code touches but the
\* fault address is mapped.
LEMMA BenchmarkMapFacts ==
    ASSUME board \in Boards
    PROVE  /\ \A s \in DOMAIN BenchmarkMap :
                s \in SectionNumbers /\ BenchmarkMap[s] \in [pa : SectionNumbers, kind : {"data", "device"}]
           /\ {board.vectors, VectorVaddr} \subseteq DOMAIN BenchmarkMap
           /\ BenchmarkMap[board.vectors] = BenchmarkMap[VectorVaddr]
           /\ \A s \in Touched : s \in DOMAIN BenchmarkMap
                                   \/ (pc = "kernel" /\ bench = "fault" /\ s = FaultSection)
           /\ bench = "fault" => FaultSection \notin DOMAIN BenchmarkMap
<1> DEFINE map == BenchmarkMap
<1>1. /\ DOMAIN FixedMap \subseteq DOMAIN map
      /\ \A s \in DOMAIN FixedMap : map[s] = FixedMap[s]
      /\ DOMAIN map \subseteq DOMAIN FixedMap \cup board.phys
      /\ \A s \in DOMAIN map \ DOMAIN FixedMap : map[s] = Data(s)
      /\ bench = "phys" => board.phys \subseteq DOMAIN map
  BY PhysFacts DEF BenchmarkMap
<1>2. board.vectors \in VectorsInPlace
  BY DEF VectorsInPlace
<1>3. {board.vectors, VectorVaddr} \subseteq DOMAIN map /\ map[board.vectors] = map[VectorVaddr]
  BY <1>1, <1>2, FixedMapFacts
<1>4. \A s \in DOMAIN map : s \in SectionNumbers
  <2>1. DOMAIN map \subseteq LowSections \cup {VectorVaddr}
    BY <1>1, FixedMapFacts, Apart
  <2> QED
    BY <2>1 DEF VectorVaddr, LowSections, SectionNumbers
<1>5. \A s \in DOMAIN map : map[s] \in {Data(s), Device(s), Data(board.vectors)}
  BY <1>1, FixedMapFacts
<1>6. \A s \in DOMAIN map : map[s] \in [pa : SectionNumbers, kind : {"data", "device"}]
  <2>1. \A s \in SectionNumbers : /\ Data(s) \in [pa : SectionNumbers, kind : {"data", "device"}]
                             /\ Device(s) \in [pa : SectionNumbers, kind : {"data", "device"}]
    BY DEF Data, Device
  <2>2. board.vectors \in SectionNumbers
    BY <1>3, <1>4
  <2>3. Data(board.vectors) \in [pa : SectionNumbers, kind : {"data", "device"}]
    BY <2>1, <2>2
  <2> HIDE DEF map
  <2> TAKE s \in DOMAIN map
  <2>4. Data(s) \in [pa : SectionNumbers, kind : {"data", "device"}]
        /\ Device(s) \in [pa : SectionNumbers, kind : {"data", "device"}]
    BY <1>4, <2>1
  <2> QED
    BY <1>5, <2>3, <2>4
<1>7. ASSUME NEW s \in Touched
      PROVE  s \in DOMAIN map \/ (pc = "kernel" /\ bench = "fault" /\ s = FaultSection)
  <2>1. CASE s \in board.text \cup board.data
    BY <2>1, <1>1, FixedMapFacts
  <2>2. CASE s \notin board.text \cup board.data
    <3>1. pc = "kernel"
      BY <1>7, <2>2 DEF Touched
    <3>2. CASE bench = "phys"
      BY <1>7, <2>2, <3>1, <3>2, <1>1, PhysEnds DEF Touched
    <3>3. CASE bench = "fault"
      BY <1>7, <2>2, <3>1, <3>3, <1>3 DEF Touched
    <3>4. CASE bench \notin {"phys", "fault"}
      BY <1>7, <2>2, <3>1, <3>4, <1>1, FixedMapFacts DEF Touched
    <3> QED
      BY <3>2, <3>3, <3>4
  <2> QED
    BY <2>1, <2>2
<1>8. FaultSection \notin DOMAIN FixedMap
  <2>1. FaultSection \notin board.text \cup board.data \cup board.devices \cup VectorsInPlace
    BY BoardsAssumption DEF Layout, FaultApart, VectorsInPlace
  <2> QED
    BY <2>1, FixedMapFacts DEF FaultSection, VectorVaddr
<1>9. bench = "fault" => FaultSection \notin DOMAIN map
  BY <1>8 DEF BenchmarkMap
<1> QED
  BY <1>3, <1>4, <1>6, <1>7, <1>9
\* The identification never answers 5 or 6, so that mem_cache_flush has code
\* for every processor, and mem_mmu_disable the routine of the build.
LEMMA VersionFacts ==
    ASSUME board \in Boards
    PROVE  CacheFlush # "abort" /\ (ArchVersion = 7 <=> Armv7Build)
<1>1. BuildMatches(board)
  BY BoardsAssumption DEF Layout
<1>2. board.arch \in 0..15 /\ (board.arch = 15 <=> board.march = 7)
  BY <1>1 DEF BuildMatches
<1>3. (ArchVersion = 7) <=> (board.arch = 15)
  BY <1>2 DEF ArchVersion, SwitchVersion
<1>4. ArchVersion \in {0, 3, 4, 7}
  BY <1>2 DEF ArchVersion, SwitchVersion
<1> QED
  BY <1>2, <1>3, <1>4 DEF CacheFlush, Armv7Build

------------------------------------------------------------------------------
(* Each action preserves the inductive invariant *)

\* mem_init returns to its caller with the fixed map, whatever the table held.
LEMMA MemInitFacts ==
    ASSUME TypeOK, NEW to, MemInit(to)
    PROVE  /\ pc' = to /\ section_table' = FixedMap
           /\ mem_cache_implemented' \in BOOLEAN
           /\ UncachedAccess /\ UNCHANGED <<board, bench, tlb, mmu>>
<1>1. board \in Boards
  BY DEF TypeOK
<1>2. OffsetsMatch
  BY DEF OffsetsMatch, VectorOffset, VectorVaddr
<1>3. mem_cache_implemented' \in BOOLEAN
  BY DEF MemInit, CheckCache, TypeOK
<1> QED
  BY <1>1, <1>2, <1>3, FixedMapFacts DEF MemInit, FixedMap, ClearedTable

\* The fixed map is a table.
LEMMA FixedMapType ==
    ASSUME board \in Boards
    PROVE  \A s \in DOMAIN FixedMap :
             s \in SectionNumbers /\ FixedMap[s] \in [pa : SectionNumbers, kind : {"data", "device"}]
<1>1. CASE bench = "phys"
  BY <1>1, BenchmarkMapFacts, PhysFacts DEF BenchmarkMap
<1>2. CASE bench # "phys"
  BY <1>2, BenchmarkMapFacts DEF BenchmarkMap
<1> QED
  BY <1>1, <1>2

\* The initial state satisfies the inductive invariant.
LEMMA InitIInv == Init => IInv
<1> SUFFICES ASSUME Init PROVE IInv
  OBVIOUS
<1>1. DOMAIN section_table = {} /\ DOMAIN tlb = {}
  BY DEF Init, NoSections
<1>2. TypeOK
  BY <1>1 DEF Init, TypeOK, Kinds
<1> QED
  BY <1>1, <1>2 DEF Init, IInv, NeverAborts, TableAt, MmuAt, TlbCoherent, Mapping

\* The two calls of mem_init.
LEMMA MemInitIInv == IInv /\ (InitCall \/ MemReset) => IInv'
<1> SUFFICES ASSUME IInv, InitCall \/ MemReset PROVE IInv'
  OBVIOUS
<1>a. TypeOK /\ MmuAt /\ ~mmu /\ pc \in {"mem_init", "mem_reset"} /\ board \in Boards
  BY DEF IInv, MmuAt, TypeOK, InitCall, MemReset
<1>1. /\ pc' \in {"phys", "nonpriv", "enable", "idle"}
      /\ pc' = "enable" => bench \notin {"phys", "nonpriv"}
      /\ pc' \in {"phys", "nonpriv"} => pc' = bench
      /\ section_table' = FixedMap
      /\ mem_cache_implemented' \in BOOLEAN
      /\ UNCHANGED <<board, bench, tlb, mmu, cache>>
  BY <1>a, MemInitFacts DEF InitCall, MemReset, UncachedAccess, MmuAt
<1>2. FixedMap' = FixedMap
  BY <1>1 DEF FixedMap, IdentityMap, DeviceMap, VectorMapping, VectorsInPlace
<1>3. TypeOK'
  BY <1>a, <1>1, FixedMapType DEF TypeOK
<1>4. TableAt'
  BY <1>1, <1>2 DEF TableAt, Mapping, BenchmarkMap
<1>5. NeverAborts' /\ MmuAt' /\ TlbCoherent'
  BY <1>a, <1>1 DEF NeverAborts, MmuAt, TlbCoherent
<1> QED
  BY <1>3, <1>4, <1>5 DEF IInv

\* Mapping the physical memory.
LEMMA MapPhysIInv == IInv /\ MapPhys => IInv'
<1> SUFFICES ASSUME IInv, MapPhys PROVE IInv'
  OBVIOUS
<1>a. /\ TypeOK /\ MmuAt /\ ~mmu /\ pc = "phys" /\ board \in Boards
      /\ bench = "phys" /\ section_table = FixedMap
  BY DEF IInv, MmuAt, TypeOK, TableAt, MapPhys
<1>1. /\ pc' = "enable" /\ section_table' = Extend(FixedMap, PhysMap)
      /\ UNCHANGED <<board, bench, tlb, mmu, cache, mem_cache_implemented>>
  BY <1>a, PhysFacts DEF MapPhys, PhysMap, UncachedAccess, MmuAt
<1>2. FixedMap' = FixedMap /\ PhysMap' = PhysMap /\ Extend(FixedMap, PhysMap) = BenchmarkMap
  BY <1>a, <1>1 DEF FixedMap, IdentityMap, DeviceMap, VectorMapping, VectorsInPlace, PhysMap,
       BenchmarkMap
<1>3. TypeOK'
  BY <1>a, <1>1, <1>2, BenchmarkMapFacts DEF TypeOK
<1>4. TableAt'
  BY <1>a, <1>1, <1>2 DEF TableAt, Mapping, BenchmarkMap
<1>5. NeverAborts' /\ MmuAt' /\ TlbCoherent'
  BY <1>a, <1>1 DEF NeverAborts, MmuAt, TlbCoherent
<1> QED
  BY <1>3, <1>4, <1>5 DEF IInv

\* The other steps leave the table alone: where the map of the benchmark was
\* required, it still is.
LEMMA TableKept ==
    ASSUME TableAt, UNCHANGED <<board, bench, section_table>>,
           pc' \in Mapping => pc \in Mapping \cup {"nonpriv"},
           pc' \in {"phys", "nonpriv"} => pc' = pc
    PROVE  TableAt'
<1>1. FixedMap' = FixedMap /\ BenchmarkMap' = BenchmarkMap
  BY DEF FixedMap, IdentityMap, DeviceMap, VectorMapping, VectorsInPlace, BenchmarkMap, PhysMap
<1> QED
  BY <1>1 DEF TableAt, BenchmarkMap

\* Choosing a benchmark, the refused mapping of memory-nonpriv.c, enabling and
\* disabling the MMU, and the flushes.
LEMMA ControlIInv ==
    ASSUME IInv,
           \/ (\E kind \in Kinds : Begin(kind)) \/ MapValue \/ MmuEnable \/ TlbFlush
           \/ MmuDisable \/ CleanOff \/ FlushOff \/ ReturnOff
    PROVE  IInv'
<1>a. TypeOK /\ MmuAt /\ TableAt /\ TlbCoherent /\ board \in Boards
  BY DEF IInv, TypeOK
<1>1. CASE \E kind \in Kinds : Begin(kind)
  BY <1>a, <1>1 DEF Begin, IInv, TypeOK, TableAt, MmuAt, NeverAborts, TlbCoherent, Mapping,
       UncachedAccess
<1>2. CASE MapValue
  <2>1. TableAt'
    BY <1>a, <1>2, TableKept DEF MapValue, Mapping
  <2> QED
    BY <1>a, <1>2, <2>1 DEF MapValue, IInv, TypeOK, MmuAt, NeverAborts, TlbCoherent, UncachedAccess
<1>3. CASE MmuEnable
  <2>1. /\ pc' = "flush" /\ mmu' = TRUE /\ cache' = "empty" /\ DOMAIN tlb = {}
        /\ UNCHANGED <<board, bench, section_table, tlb, mem_cache_implemented>>
    BY <1>a, <1>3, VersionFacts DEF MmuEnable, MmuAt, TypeOK, UncachedAccess
  <2>2. TableAt'
    BY <1>a, <1>3, <2>1, TableKept DEF MmuEnable, Mapping
  <2> QED
    BY <1>a, <2>1, <2>2 DEF IInv, TypeOK, MmuAt, NeverAborts, TlbCoherent
<1>4. CASE TlbFlush
  <2>1. DOMAIN tlb' = {}
    BY <1>4 DEF TlbFlush, FlushedTlb, NoSections
  <2>2. TableAt'
    BY <1>a, <1>4, TableKept DEF TlbFlush, Mapping
  <2> QED
    BY <1>a, <1>4, <2>1, <2>2 DEF TlbFlush, IInv, TypeOK, MmuAt, NeverAborts, TlbCoherent,
         UncachedAccess
<1>5. CASE MmuDisable
  <2>1. /\ pc' = "off_clean" /\ mmu' = FALSE /\ cache' = "dirty"
        /\ UNCHANGED <<board, bench, section_table, tlb, mem_cache_implemented>>
    BY <1>a, <1>5, VersionFacts DEF MmuDisable, SwitchOff
  <2>2. TableAt'
    BY <1>a, <1>5, <2>1, TableKept DEF MmuDisable, Mapping
  <2> QED
    BY <1>a, <2>1, <2>2 DEF IInv, TypeOK, MmuAt, NeverAborts, TlbCoherent
<1>6. CASE CleanOff
  <2>1. TableAt'
    BY <1>a, <1>6, TableKept DEF CleanOff, Mapping
  <2> QED
    BY <1>a, <1>6, <2>1 DEF CleanOff, CleanedCache, IInv, TypeOK, MmuAt, NeverAborts, TlbCoherent
<1>7. CASE FlushOff
  <2>1. DOMAIN tlb' = {}
    BY <1>7 DEF FlushOff, FlushedTlb, NoSections
  <2>2. TableAt'
    BY <1>a, <1>7, TableKept DEF FlushOff, Mapping
  <2> QED
    BY <1>a, <1>7, <2>1, <2>2 DEF FlushOff, IInv, TypeOK, MmuAt, NeverAborts, TlbCoherent
<1>8. CASE ReturnOff
  <2>1. TableAt'
    BY <1>a, <1>8, TableKept DEF ReturnOff, Mapping
  <2> QED
    BY <1>a, <1>8, <2>1 DEF ReturnOff, UncachedAccess, IInv, TypeOK, MmuAt, NeverAborts, TlbCoherent
<1> QED
  BY <1>1, <1>2, <1>3, <1>4, <1>5, <1>6, <1>7, <1>8

\* Accesses with the MMU on: only the fault benchmark's own access faults.
LEMMA AccessIInv ==
    ASSUME IInv, NEW s \in Sections, Access(s) \/ Fault(s) \/ TlbEvict(s)
    PROVE  IInv'
<1>a. TypeOK /\ MmuAt /\ TableAt /\ TlbCoherent /\ board \in Boards
  BY DEF IInv, TypeOK
<1>b. mmu /\ pc \in Mapping /\ section_table = BenchmarkMap
  BY <1>a DEF Access, Fault, TlbEvict, MmuAt, TableAt, Mapping
<1>c. \A t \in DOMAIN tlb : t \in DOMAIN section_table /\ tlb[t] = section_table[t]
  BY <1>a, <1>b DEF TlbCoherent
<1>1. CASE Access(s)
  <2>1. s \in DOMAIN section_table
    BY <1>1, <1>c DEF Access
  <2>2. TableAt'
    BY <1>a, <1>1, TableKept DEF Access, Mapping
  <2>3. \A t \in DOMAIN tlb' : t \in DOMAIN section_table /\ tlb'[t] = section_table[t]
    <3>1. CASE s \in DOMAIN tlb
      BY <1>1, <1>c, <3>1 DEF Access
    <3>2. CASE s \notin DOMAIN tlb
      <4>1. tlb' = Extend(tlb, Restrict(section_table, {s}))
        BY <1>1, <3>2 DEF Access
      <4> QED
        BY <1>c, <2>1, <4>1 DEF Extend, Restrict
    <3> QED
      BY <3>1, <3>2
  <2>4. DOMAIN tlb' \subseteq SectionNumbers
    BY <1>a, <2>3 DEF TypeOK
  <2> QED
    BY <1>a, <1>1, <2>2, <2>3, <2>4 DEF Access, IInv, TypeOK, MmuAt, NeverAborts, TlbCoherent
<1>2. CASE Fault(s)
  <2>1. pc = "kernel" /\ bench = "fault" /\ s = FaultSection
    BY <1>2, <1>a, <1>b, BenchmarkMapFacts DEF Fault
  <2>2. pc' = pc
    BY <1>2, <2>1 DEF Fault
  <2>3. UNCHANGED vars
    BY <1>2, <2>2 DEF Fault, vars
  <2>4. TableAt'
    BY <1>a, <2>3, TableKept DEF vars, Mapping
  <2> QED
    BY <1>a, <2>3, <2>4 DEF vars, IInv, TypeOK, MmuAt, NeverAborts, TlbCoherent
<1>3. CASE TlbEvict(s)
  <2>1. TableAt'
    BY <1>a, <1>3, TableKept DEF TlbEvict, Mapping
  <2>2. /\ DOMAIN tlb' \subseteq DOMAIN tlb
        /\ \A t \in DOMAIN tlb' : tlb'[t] = tlb[t]
    BY <1>3 DEF TlbEvict, Restrict
  <2> QED
    BY <1>a, <1>b, <1>c, <1>3, <2>1, <2>2 DEF TlbEvict, IInv, TypeOK, MmuAt, NeverAborts, TlbCoherent
<1> QED
  BY <1>1, <1>2, <1>3

\* Every step preserves the inductive invariant.
LEMMA NextIInv == IInv /\ [Next]_vars => IInv'
<1> SUFFICES ASSUME IInv, [Next]_vars PROVE IInv'
  OBVIOUS
<1>1. CASE UNCHANGED vars
  <2>1. TableAt'
    BY <1>1, TableKept DEF vars, Mapping, IInv
  <2> QED
    BY <1>1, <2>1 DEF vars, IInv, TypeOK, MmuAt, NeverAborts, TlbCoherent
<1>2. CASE Next
  BY <1>2, MemInitIInv, MapPhysIInv, ControlIInv, AccessIInv DEF Next
<1> QED
  BY <1>1, <1>2

LEMMA SpecIInv == Spec => []IInv
BY InitIInv, NextIInv, PTL DEF Spec

------------------------------------------------------------------------------
(* The theorems *)

\* The variables of mem.c and the machine keep their types on every board.
THEOREM TypeCorrect == Spec => []TypeOK
<1>1. IInv => TypeOK
  BY DEF IInv
<1> QED
  BY <1>1, SpecIInv, PTL

\* On every board whose constants satisfy Layout no order of benchmarks ends
\* in arch_abort: no two mappings collide, no access but the intended one
\* faults, and the processor's version selects a routine that the build has.
THEOREM ArmNeverAborts == Spec => []NeverAborts
<1>1. IInv => NeverAborts
  BY DEF IInv
<1> QED
  BY <1>1, SpecIInv, PTL

\* While the MMU is on the TLB holds nothing that the section table does not.
THEOREM ArmTlbCoherent == Spec => []TlbCoherent
<1>1. IInv => TlbCoherent
  BY DEF IInv
<1> QED
  BY <1>1, SpecIInv, PTL

\* The fault benchmarks always fault where they mean to, whatever was mapped
\* before them.
THEOREM ArmFaultAddressUnmapped == Spec => []FaultAddressUnmapped
<1>1. IInv => FaultAddressUnmapped
  <2> SUFFICES ASSUME IInv, pc = "kernel", bench = "fault"
               PROVE  FaultSection \notin DOMAIN tlb \cup DOMAIN section_table
    BY DEF FaultAddressUnmapped
  <2>1. mmu /\ section_table = BenchmarkMap /\ board \in Boards
    BY DEF IInv, MmuAt, TableAt, Mapping, TypeOK
  <2>2. FaultSection \notin DOMAIN section_table
    BY <2>1, BenchmarkMapFacts
  <2> QED
    BY <2>1, <2>2 DEF IInv, TlbCoherent
<1> QED
  BY <1>1, SpecIInv, PTL

\* While the MMU is on, the handler stored in the relocated vectors is the one
\* that the processor fetches through the high vectors.
THEOREM ArmHandlersReachable == Spec => []HandlersReachable
<1>1. IInv => HandlersReachable
  <2> SUFFICES ASSUME IInv, mmu PROVE HandlersReachable
    BY DEF HandlersReachable
  <2>1. section_table = BenchmarkMap /\ board \in Boards
    BY DEF IInv, MmuAt, TableAt, Mapping, TypeOK
  <2> QED
    BY <2>1, BenchmarkMapFacts DEF HandlersReachable
<1> QED
  BY <1>1, SpecIInv, PTL

\* The data cache and the memory never disagree: whatever the order of the
\* benchmarks, no load or store of mem_armv*_cache_mmu_off or of the code that
\* runs with the cache off finds a line in it.
THEOREM ArmCacheNeverStale == Spec => []CacheNeverStale
<1>1. IInv => CacheNeverStale
  BY DEF IInv, MmuAt, CacheNeverStale
<1> QED
  BY <1>1, SpecIInv, PTL
=============================================================================
