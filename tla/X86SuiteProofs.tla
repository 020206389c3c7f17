---------------------------- MODULE X86SuiteProofs ----------------------------
(***************************************************************************)
(* Proofs about the suite on x86_64, for every image, every number of      *)
(* iterations and both platforms.                                          *)
(***************************************************************************)
EXTENDS X86Suite, FiniteSetTheorems, TLAPS

\* Call c comes before position i in the program k.
Before(k, i, c) == \E j \in 1..(i - 1) : Program(k)[j] = c
MmuOn(k, i) == Before(k, i, "mmu_enable") /\ ~Before(k, i, "mmu_disable")

------------------------------------------------------------------------------
(* What the programs have in common *)

\* Calls that a kernel does not make.
Switches ==
    {"mmu_enable", "mmu_disable", "map_phys", "dfault_install_skip", "ifault_install_return"}
PageFaultInstalls == {"dfault_install_skip", "ifault_install_return"}
BootCalls == {"early_mem_init", "irq_init", "timer_start", "timer_stop"}

LoopShape(k) ==
    /\ LoopStart(k) \in Nat /\ LoopEnd(k) \in Nat
    /\ 1 <= LoopStart(k) /\ LoopStart(k) <= LoopEnd(k) /\ LoopEnd(k) <= Len(Program(k))
    /\ \A i \in LoopStart(k)..LoopEnd(k) : Program(k)[i] \notin Switches \cup {"mem_reset"}
    /\ Program(k)[LoopStart(k)] \notin {"trigger_swi", "wait_flag"}
    /\ Program(k)[LoopEnd(k)] # "trigger_swi"

\* At the end the MMU is off and the page-fault pointer about to be reset.
EndShape(k) ==
    LET n == Len(Program(k)) IN
    /\ n \in Nat \ {0} /\ ~MmuOn(k, n)
    /\ Program(k)[n] \notin Switches \cup {"timer_start", "trigger_swi", "wait_flag"}
    /\ \A c \in PageFaultInstalls : Before(k, n, c) => Program(k)[n] = "mem_reset"
    /\ Program(k)[1] \notin {"timer_stop", "trigger_swi", "wait_flag"}

\* The runtime tables are made before they are used or extended.
MemoryShape(k) ==
    \A i \in 1..Len(Program(k)) :
        /\ Program(k)[i] \in {"mmu_enable", "map_phys", "map_value"} \/ MmuOn(k, i)
             => Before(k, i, "mem_init")
        /\ Program(k)[i] = "access_phys" /\ MmuOn(k, i) => Before(k, i, "map_phys")
        /\ Program(k)[i] = "mmu_enable" => ~Before(k, i, "mmu_disable")
        /\ Program(k)[i] = "mem_init" => \A c \in PageFaultInstalls : ~Before(k, i, c)
        /\ Program(k)[i] = "mem_reset" => i = Len(Program(k))

\* An exception comes after its handler is installed, in the benchmark that is
\* about it, and before that benchmark turns the MMU off.
TrapShape(k) ==
    \A i \in 1..Len(Program(k)) :
        /\ Program(k)[i] = "undefined_instruction" => k = "undef" /\ Before(k, i, "undef_install_skip")
        /\ Program(k)[i] = "syscall" => k = "syscall" /\ Before(k, i, "syscall_install_skip")
        /\ Program(k)[i] = "read_unmapped" => k = "dfault" /\ Before(k, i, "dfault_install_skip")
        /\ Program(k)[i] \in {"call_unmapped", "ifault_install_return"}
             => k = "ifault" /\ ~Before(k, i, "dfault_install_skip")
        /\ Program(k)[i] = "call_unmapped" => Before(k, i, "ifault_install_return")
        /\ Program(k)[i] = "mmu_disable" =>
             /\ k = "undef" => Before(k, i, "undefined_instruction")
             /\ k = "syscall" => Before(k, i, "syscall")
             /\ k = "dfault" => Before(k, i, "read_unmapped")
             /\ k = "ifault" => Before(k, i, "call_unmapped")

\* The calls that boot makes, and that no benchmark makes.
BootShape(k) ==
    /\ \A i \in 1..Len(Program(k)) :
         /\ Program(k)[i] \in BootCalls <=> k = "boot"
         /\ Program(k)[i] \in BootCalls \ {"early_mem_init"} => Before(k, i, "early_mem_init")
    /\ k = "boot" => LET n == Len(Program(k)) IN
         Before(k, n, "early_mem_init") /\ (Before(k, n, "irq_init") \/ Program(k)[n] = "irq_init")

\* The flag is cleared right before a trigger, and waited for right after it;
\* by then the handler is installed.  The calibration stops what it starts.
TriggerShape(k) ==
    /\ \A i \in 1..(Len(Program(k)) - 1) :
         /\ Program(k)[i] = "trigger_swi" <=> Program(k)[i + 1] = "wait_flag"
         /\ Program(k)[i + 1] = "trigger_swi" => Program(k)[i] = "clear_flag"
         /\ Program(k)[i] = "timer_start" => Program(k)[i + 1] = "timer_stop"
    /\ \A i \in 1..Len(Program(k)) :
         Program(k)[i] = "wait_flag" => Before(k, i, "irq_install_handler")

Shape(k) ==
    /\ k # "boot" => LoopShape(k)
    /\ EndShape(k) /\ MemoryShape(k) /\ TrapShape(k) /\ BootShape(k) /\ TriggerShape(k)

------------------------------------------------------------------------------
(* The programs, call by call.  Provers do not compute concatenations, so   *)
(* each program is spelled out once.                                        *)

\* Most programs make six calls, the fourth of which is the kernel.
Six(k, x, y, z) ==
    /\ Len(Program(k)) = 6 /\ LoopStart(k) = 4 /\ LoopEnd(k) = 4
    /\ Program(k)[1] = "mem_init" /\ Program(k)[2] = x /\ Program(k)[3] = y /\ Program(k)[4] = z
    /\ Program(k)[5] = "mmu_disable" /\ Program(k)[6] = "mem_reset"

\* undef.c, syscall.c, dfault.c and ifault.c install a handler, y, and trap, z.
LEMMA TrapProgram ==
    ASSUME NEW k \in DOMAIN Benchmarks, NEW y, NEW z,
           Benchmarks[k] = WithMmu(Append(MmuInit, y), <<z>>), k # "boot"
    PROVE  Six(k, "mmu_enable", y, z)
<1>1. /\ Benchmarks[k].init = Append(MmuInit, y) /\ Benchmarks[k].kernel = <<z>>
      /\ Benchmarks[k].cleanup = MmuCleanup
  BY DEF WithMmu
<1>2. /\ LoopStart(k) = Len(Append(MmuInit, y)) + 1
      /\ LoopEnd(k) = Len(Append(MmuInit, y) \o <<z>>)
      /\ Program(k) = Append(MmuInit, y) \o <<z>> \o MmuCleanup
  BY <1>1 DEF LoopStart, LoopEnd, Program
<1> QED
  BY <1>2 DEF MmuInit, MmuCleanup, Six

\* The benchmarks on all of the physical memory, and memory-nonpriv.c.
LEMMA MapProgram ==
    ASSUME NEW k \in DOMAIN Benchmarks, NEW x, NEW z,
           Benchmarks[k] = WithMmu(<<"mem_init", x, "mmu_enable">>, <<z>>), k # "boot"
    PROVE  Six(k, x, "mmu_enable", z)
<1>1. /\ Benchmarks[k].init = <<"mem_init", x, "mmu_enable">> /\ Benchmarks[k].kernel = <<z>>
      /\ Benchmarks[k].cleanup = MmuCleanup
  BY DEF WithMmu
<1>2. /\ LoopStart(k) = Len(<<"mem_init", x, "mmu_enable">>) + 1
      /\ LoopEnd(k) = Len(<<"mem_init", x, "mmu_enable">> \o <<z>>)
      /\ Program(k) = <<"mem_init", x, "mmu_enable">> \o <<z>> \o MmuCleanup
  BY <1>1 DEF LoopStart, LoopEnd, Program
<1> QED
  BY <1>2 DEF MmuCleanup, Six

\* A benchmark that only uses what is there.
LEMMA PlainProgram ==
    ASSUME NEW k \in DOMAIN Benchmarks, NEW y, Benchmarks[k] = NoMmu(<<y>>), k # "boot"
    PROVE  Len(Program(k)) = 1 /\ Program(k)[1] = y /\ LoopStart(k) = 1 /\ LoopEnd(k) = 1
<1>1. Benchmarks[k].init = <<>> /\ Benchmarks[k].kernel = <<y>> /\ Benchmarks[k].cleanup = <<>>
  BY DEF NoMmu
<1>2. /\ LoopStart(k) = Len(<<>>) + 1 /\ LoopEnd(k) = Len(<<>> \o <<y>>)
      /\ Program(k) = <<>> \o <<y>> \o <<>>
  BY <1>1 DEF LoopStart, LoopEnd, Program
<1> QED
  BY <1>2

\* memory-hot.c with the MMU.
LEMMA HotMmuProgram ==
    LET p == Program("hot_mmu") IN
    /\ Len(p) = 5 /\ LoopStart("hot_mmu") = 3 /\ LoopEnd("hot_mmu") = 3
    /\ p[1] = "mem_init" /\ p[2] = "mmu_enable" /\ p[3] = "access_image"
    /\ p[4] = "mmu_disable" /\ p[5] = "mem_reset"
<1>1. /\ Benchmarks["hot_mmu"].init = MmuInit /\ Benchmarks["hot_mmu"].kernel = <<"access_image">>
      /\ Benchmarks["hot_mmu"].cleanup = MmuCleanup
  BY DEF Benchmarks, HotMmu, WithMmu
<1>2. /\ LoopStart("hot_mmu") = Len(MmuInit) + 1
      /\ LoopEnd("hot_mmu") = Len(MmuInit \o <<"access_image">>)
      /\ Program("hot_mmu") = MmuInit \o <<"access_image">> \o MmuCleanup
  BY <1>1 DEF LoopStart, LoopEnd, Program
<1> QED
  BY <1>2 DEF MmuInit, MmuCleanup

\* swi.c
LEMMA SwiProgram ==
    LET p == Program("swi") IN
    /\ Len(p) = 10 /\ LoopStart("swi") = 5 /\ LoopEnd("swi") = 7
    /\ p[1] = "mem_init" /\ p[2] = "mmu_enable" /\ p[3] = "irq_install_handler" /\ p[4] = "irq_enable"
    /\ p[5] = "clear_flag" /\ p[6] = "trigger_swi" /\ p[7] = "wait_flag"
    /\ p[8] = "irq_disable" /\ p[9] = "mmu_disable" /\ p[10] = "mem_reset"
<1> DEFINE init == MmuInit \o <<"irq_install_handler", "irq_enable">>
           kernel == <<"clear_flag", "trigger_swi", "wait_flag">>
           cleanup == <<"irq_disable">> \o MmuCleanup
<1>1. Benchmarks["swi"].init = init /\ Benchmarks["swi"].kernel = kernel /\ Benchmarks["swi"].cleanup = cleanup
  BY DEF Benchmarks, Swi, WithMmu
<1>2. /\ LoopStart("swi") = Len(init) + 1 /\ LoopEnd("swi") = Len(init \o kernel)
      /\ Program("swi") = init \o kernel \o cleanup
  BY <1>1 DEF LoopStart, LoopEnd, Program
<1>3. /\ Program("swi")[1] = "mem_init" /\ Program("swi")[2] = "mmu_enable"
      /\ Program("swi")[3] = "irq_install_handler" /\ Program("swi")[4] = "irq_enable"
      /\ Program("swi")[5] = "clear_flag" /\ Program("swi")[6] = "trigger_swi"
      /\ Program("swi")[7] = "wait_flag" /\ Program("swi")[8] = "irq_disable"
      /\ Program("swi")[9] = "mmu_disable" /\ Program("swi")[10] = "mem_reset"
  BY <1>2 DEF MmuInit, MmuCleanup
<1>4. Len(Program("swi")) = 10
  BY <1>2 DEF MmuInit, MmuCleanup
<1>5. LoopStart("swi") = 5 /\ LoopEnd("swi") = 7
  BY <1>2 DEF MmuInit
<1> QED
  BY <1>3, <1>4, <1>5

\* arch_start, with and without the calibration of the timer.
LEMMA BootProgram ==
    LET p == Program("boot") IN
    /\ Len(p) = IF Calibrates THEN 4 ELSE 2
    /\ p[1] = "early_mem_init" /\ p[2] = "irq_init"
    /\ Calibrates => p[3] = "timer_start" /\ p[4] = "timer_stop"
<1>1. CASE Calibrates
  <2>1. Program("boot") = <<"early_mem_init", "irq_init">> \o <<"timer_start", "timer_stop">>
    BY <1>1 DEF Program, Boot
  <2> QED
    BY <1>1, <2>1
<1>2. CASE ~Calibrates
  <2>1. Program("boot") = <<"early_mem_init", "irq_init">> \o <<>>
    BY <1>2 DEF Program, Boot
  <2> QED
    BY <1>2, <2>1
<1> QED
  BY <1>1, <1>2

\* The six-call programs.
LEMMA SixShape ==
    ASSUME NEW k, NEW x, NEW y, NEW z, Six(k, x, y, z), k \notin {"boot", "swi"},
           \/ /\ x = "mmu_enable"
              /\ \/ k = "undef" /\ y = "undef_install_skip" /\ z = "undefined_instruction"
                 \/ k = "syscall" /\ y = "syscall_install_skip" /\ z = "syscall"
                 \/ k = "dfault" /\ y = "dfault_install_skip" /\ z = "read_unmapped"
                 \/ k = "ifault" /\ y = "ifault_install_return" /\ z = "call_unmapped"
           \/ /\ y = "mmu_enable" /\ k \notin {"undef", "syscall", "dfault", "ifault"}
              /\ \/ x = "map_phys" /\ z = "access_phys"
                 \/ x = "map_value" /\ z = "access_image"
    PROVE  Shape(k)
<1> DEFINE p == Program(k)
<1>1. /\ Len(p) = 6 /\ LoopStart(k) = 4 /\ LoopEnd(k) = 4
      /\ p[1] = "mem_init" /\ p[2] = x /\ p[3] = y /\ p[4] = z
      /\ p[5] = "mmu_disable" /\ p[6] = "mem_reset"
  BY DEF Six
<1> HIDE DEF p
<1>2. ASSUME NEW i \in 1..6, NEW c
      PROVE  Before(k, i, c) <=> \/ i > 1 /\ c = "mem_init"
                                 \/ i > 2 /\ c = x
                                 \/ i > 3 /\ c = y
                                 \/ i > 4 /\ c = z
                                 \/ i > 5 /\ c = "mmu_disable"
  BY <1>1 DEF Before, p
<1>3. LoopShape(k)
  BY <1>1 DEF LoopShape, Switches, p
<1>4. EndShape(k)
  BY <1>1, <1>2 DEF EndShape, MmuOn, Switches, PageFaultInstalls, p
<1>5. MemoryShape(k)
  BY <1>1, <1>2 DEF MemoryShape, MmuOn, PageFaultInstalls, p
<1>6. TrapShape(k)
  BY <1>1, <1>2 DEF TrapShape, p
<1>7. BootShape(k)
  BY <1>1 DEF BootShape, BootCalls, p
<1>8. TriggerShape(k)
  BY <1>1 DEF TriggerShape, p
<1> QED
  BY <1>3, <1>4, <1>5, <1>6, <1>7, <1>8 DEF Shape

\* Every program has this shape.
LEMMA Shapes == \A k \in (DOMAIN Benchmarks) \cup {"boot"} : Shape(k)
<1> SUFFICES ASSUME NEW k \in (DOMAIN Benchmarks) \cup {"boot"} PROVE Shape(k)
  OBVIOUS
<1> DEFINE p == Program(k)
<1>1. CASE k \in {"undef", "syscall", "dfault", "ifault"}
  <2>1. \/ k = "undef" /\ Six(k, "mmu_enable", "undef_install_skip", "undefined_instruction")
        \/ k = "syscall" /\ Six(k, "mmu_enable", "syscall_install_skip", "syscall")
        \/ k = "dfault" /\ Six(k, "mmu_enable", "dfault_install_skip", "read_unmapped")
        \/ k = "ifault" /\ Six(k, "mmu_enable", "ifault_install_return", "call_unmapped")
    BY <1>1, TrapProgram DEF Benchmarks, Undef, Syscall, Dfault, Ifault
  <2> QED
    BY <2>1, SixShape
<1>2. CASE k \in {"tlb_flush", "tlb_evict", "cold_mmu", "nonpriv"}
  <2>1. \/ Six(k, "map_phys", "mmu_enable", "access_phys")
        \/ Six(k, "map_value", "mmu_enable", "access_image")
    BY <1>2, MapProgram DEF Benchmarks, TlbFlush, PhysInit, NonPriv
  <2> QED
    BY <1>2, <2>1, SixShape
<1>3. CASE k \in {"plain", "cold_nommu", "device_access"}
  <2>1. /\ Len(p) = 1 /\ LoopStart(k) = 1 /\ LoopEnd(k) = 1
        /\ p[1] \in {"access_image", "access_phys", "access_device"}
    BY <1>3, PlainProgram DEF Benchmarks, ColdNoMmu, DeviceAccess
  <2> HIDE DEF p
  <2>2. LoopShape(k)
    BY <2>1 DEF LoopShape, Switches, p
  <2>3. EndShape(k) /\ MemoryShape(k)
    BY <2>1 DEF EndShape, MemoryShape, MmuOn, Before, Switches, p
  <2>4. TrapShape(k) /\ BootShape(k) /\ TriggerShape(k)
    BY <1>3, <2>1 DEF TrapShape, BootShape, BootCalls, TriggerShape, p
  <2> QED
    BY <2>2, <2>3, <2>4 DEF Shape
<1>4. CASE k = "hot_mmu"
  <2>1. /\ Len(p) = 5 /\ LoopStart(k) = 3 /\ LoopEnd(k) = 3
        /\ p[1] = "mem_init" /\ p[2] = "mmu_enable" /\ p[3] = "access_image"
        /\ p[4] = "mmu_disable" /\ p[5] = "mem_reset"
    BY <1>4, HotMmuProgram
  <2> HIDE DEF p
  <2>2. ASSUME NEW i \in 1..5, NEW c
        PROVE  Before(k, i, c) <=> \/ i > 1 /\ c = "mem_init"
                                   \/ i > 2 /\ c = "mmu_enable"
                                   \/ i > 3 /\ c = "access_image"
                                   \/ i > 4 /\ c = "mmu_disable"
    BY <2>1 DEF Before, p
  <2>3. LoopShape(k)
    BY <2>1 DEF LoopShape, Switches, p
  <2>4. EndShape(k)
    BY <2>1, <2>2 DEF EndShape, MmuOn, Switches, PageFaultInstalls, p
  <2>5. MemoryShape(k)
    BY <2>1, <2>2 DEF MemoryShape, MmuOn, PageFaultInstalls, p
  <2>6. TrapShape(k) /\ BootShape(k) /\ TriggerShape(k)
    BY <1>4, <2>1 DEF TrapShape, BootShape, BootCalls, TriggerShape, p
  <2> QED
    BY <2>3, <2>4, <2>5, <2>6 DEF Shape
<1>5. CASE k = "swi"
  <2>1. /\ Len(p) = 10 /\ LoopStart(k) = 5 /\ LoopEnd(k) = 7
        /\ p[1] = "mem_init" /\ p[2] = "mmu_enable" /\ p[3] = "irq_install_handler" /\ p[4] = "irq_enable"
        /\ p[5] = "clear_flag" /\ p[6] = "trigger_swi" /\ p[7] = "wait_flag"
        /\ p[8] = "irq_disable" /\ p[9] = "mmu_disable" /\ p[10] = "mem_reset"
    BY <1>5, SwiProgram
  <2> HIDE DEF p
  <2>2. ASSUME NEW i \in 1..10
        PROVE  /\ Before(k, i, "mem_init") <=> i > 1
               /\ Before(k, i, "mmu_enable") <=> i > 2
               /\ Before(k, i, "irq_install_handler") <=> i > 3
               /\ Before(k, i, "mmu_disable") <=> i > 9
               /\ ~Before(k, i, "map_phys")
               /\ \A c \in PageFaultInstalls : ~Before(k, i, c)
    BY <2>1 DEF Before, PageFaultInstalls, p
  <2>3. LoopShape(k)
    BY <2>1 DEF LoopShape, Switches, p
  <2>4. EndShape(k)
    BY <2>1, <2>2 DEF EndShape, MmuOn, Switches, p
  <2>5. MemoryShape(k)
    BY <2>1, <2>2 DEF MemoryShape, MmuOn, p
  <2>6. TrapShape(k) /\ BootShape(k)
    <3>1. \A i \in 1..10 :
            /\ p[i] \notin {"undefined_instruction", "syscall", "read_unmapped", "call_unmapped",
                            "ifault_install_return"}
            /\ p[i] \notin BootCalls
      BY <2>1 DEF BootCalls
    <3> QED
      BY <1>5, <2>1, <3>1 DEF TrapShape, BootShape, p
  <2>7. TriggerShape(k)
    <3>1. \A i \in 1..9 :
            /\ p[i] = "trigger_swi" <=> p[i + 1] = "wait_flag"
            /\ p[i + 1] = "trigger_swi" => p[i] = "clear_flag"
            /\ p[i] # "timer_start"
      BY <2>1
    <3>2. \A i \in 1..10 : p[i] = "wait_flag" => Before(k, i, "irq_install_handler")
      BY <2>1, <2>2
    <3> QED
      BY <2>1, <3>1, <3>2 DEF TriggerShape, p
  <2> QED
    BY <2>3, <2>4, <2>5, <2>6, <2>7 DEF Shape
<1>6. CASE k = "boot"
  <2>1. /\ Len(p) \in {2, 4} /\ p[1] = "early_mem_init" /\ p[2] = "irq_init"
        /\ Len(p) = 4 => p[3] = "timer_start" /\ p[4] = "timer_stop"
    BY <1>6, BootProgram
  <2> HIDE DEF p
  <2>2. ASSUME NEW i \in 1..Len(p)
        PROVE  /\ Before(k, i, "early_mem_init") <=> i > 1
               /\ Before(k, i, "irq_init") <=> i > 2
               /\ ~Before(k, i, "mmu_enable")
               /\ \A c \in PageFaultInstalls : ~Before(k, i, c)
    BY <2>1 DEF Before, PageFaultInstalls, p
  <2>3. EndShape(k)
    BY <2>1, <2>2 DEF EndShape, MmuOn, Switches, p
  <2>4. MemoryShape(k)
    BY <2>1, <2>2 DEF MemoryShape, MmuOn, p
  <2>5. TrapShape(k) /\ TriggerShape(k)
    BY <1>6, <2>1 DEF TrapShape, TriggerShape, p
  <2>6. BootShape(k)
    BY <1>6, <2>1, <2>2 DEF BootShape, BootCalls, p
  <2> QED
    BY <1>6, <2>3, <2>4, <2>5, <2>6 DEF Shape
<1> QED
  BY <1>1, <1>2, <1>3, <1>4, <1>5, <1>6 DEF Benchmarks

------------------------------------------------------------------------------
(* The inductive invariant: the machine is in the state that boot and the   *)
(* calls before the current one have put it in.                             *)

Done(c) == Before(Name, at, c)
Booted(c) == Name # "boot" \/ Done(c)
Phys == PhysStart..(PhysEnd - 1)
Sets == {"initial", "runtime"}

Position ==
    /\ image \in Images /\ b \in 0..Len(image.order) /\ at \in 1..Len(Program(Name))
    /\ iter \in 1..Iters

\* mem_mmu_enable .. mem_mmu_disable
Modes == cr3 \in Sets /\ (cr3 = "runtime" <=> MmuOn(Name, at))

\* Nothing is ever unmapped, and the loop over the physical memory has mapped
\* what it has passed.
Maps ==
    /\ mapped \in [Sets -> SUBSET Nat] /\ mem_inited \in BOOLEAN
    /\ 0..511 \subseteq mapped["initial"] /\ mapped["initial"] \subseteq (0..511) \cup {Lapic}
    /\ Booted("early_mem_init") => Lapic \in mapped["initial"]
    /\ mapped["runtime"] \subseteq RuntimeRanges \cup Phys
    /\ mem_inited => RuntimeRanges \subseteq mapped["runtime"]
    /\ Done("mem_init") \/ Done("map_phys") => mem_inited
    /\ next_phys \in PhysStart..PhysEnd
    /\ Call # "map_phys" => next_phys = PhysStart
    /\ PhysStart..(next_phys - 1) \subseteq mapped["runtime"]
    /\ Done("map_phys") => Phys \subseteq mapped["runtime"]

\* The heap hands out the tables of the two sets.
Heap ==
    /\ heap_cur \in 0..HeapPages /\ tables = [s \in Sets |-> tables[s]]
    /\ {<<"pdp", 0>>, <<"pd", 0>>} \subseteq tables["initial"]
    /\ tables["runtime"] \subseteq RuntimeTables
    /\ ~mem_inited => tables["runtime"] = {}

\* One pointer serves both kinds of page fault; mem_reset, a benchmark's last
\* call, puts it back.
PageFaultHandler ==
    IF Done("dfault_install_skip") THEN "skip"
    ELSE IF Done("ifault_install_return") THEN "return" ELSE "default"
Handlers ==
    /\ handlers \in [{"syscall", "page_fault", "irq", "undef"} ->
                       {"null", "default", "skip", "return", "benchmark"}]
    /\ Booted("irq_init") /\ (status # "done" \/ PageFaultHandler = "default")
         => handlers["page_fault"] = PageFaultHandler
    /\ Done("undef_install_skip") => handlers["undef"] = "skip"
    /\ Done("syscall_install_skip") => handlers["syscall"] = "skip"
    /\ Done("irq_install_handler") => handlers["irq"] = "benchmark"

\* An interrupt is outstanding only between trigger and wait, with flag clear.
Interrupts ==
    /\ iflag \in BOOLEAN /\ flag \in BOOLEAN /\ served \in Nat
    /\ lapic \in {"idle", "pending"} /\ timer \in {"masked", "running"}
    /\ lapic = "pending" => Call = "wait_flag" /\ ~flag
    /\ Call = "trigger_swi" => ~flag
    /\ timer = "running" => Call = "timer_stop"

\* The exceptions so far.
Taken ==
    /\ traps \subseteq {<<"undef", "undef">>, <<"syscall", "syscall">>,
                        <<"page_fault", "dfault">>, <<"page_fault", "ifault">>}
    /\ Done("undefined_instruction") => <<"undef", "undef">> \in traps
    /\ Done("syscall") => <<"syscall", "syscall">> \in traps
    /\ Done("read_unmapped") => <<"page_fault", "dfault">> \in traps
    /\ Done("call_unmapped") => <<"page_fault", "ifault">> \in traps

IInv ==
    /\ status \in {"run", "abort", "lost", "done"}
    /\ Position /\ Modes /\ Maps /\ Heap /\ Handlers /\ Interrupts /\ Taken

\* Where the heap suffices there is always room for what is still to come.
Room ==
    status # "done" =>
      heap_cur + (IF Booted("early_mem_init") THEN 0 ELSE 2) + (IF Booted("irq_init") THEN 0 ELSE 1)
        + (IF mem_inited THEN 0 ELSE 1) + Cardinality(RuntimeTables \ tables["runtime"])
      <= HeapPages - StackPages

------------------------------------------------------------------------------
(* Going on to the next call *)

\* Passing a call adds it to the ones before.
LEMMA BeforeFacts ==
    ASSUME NEW k, NEW c
    PROVE  /\ ~Before(k, 1, c)
           /\ \A i \in Nat \ {0} : Before(k, i + 1, c) <=> Before(k, i, c) \/ Program(k)[i] = c
           /\ \A i, j \in Nat : i <= j /\ Before(k, i, c) => Before(k, j, c)
BY DEF Before

\* The program that runs has the shape of one.
LEMMA HereFacts ==
    ASSUME Position
    PROVE  /\ Shape(Name) /\ b \in Nat /\ at \in Nat \ {0} /\ Len(image.order) \in Nat
           /\ b > 0 <=> Name # "boot"
           /\ \A j \in 1..Len(image.order) : Shape(image.order[j]) /\ image.order[j] # "boot"
<1>1. image.order \in Seq(DOMAIN Benchmarks)
  BY ImagesAssumption DEF Position
<1>2. "boot" \notin DOMAIN Benchmarks
  BY DEF Benchmarks
<1>3. \A j \in 1..Len(image.order) : image.order[j] \in DOMAIN Benchmarks
  BY <1>1
<1>4. b \in Nat /\ Len(image.order) \in Nat /\ (b > 0 <=> Name # "boot")
  BY <1>1, <1>2, <1>3 DEF Position, Name
<1>5. Shape(Name)
  BY <1>3, <1>4, Shapes DEF Position, Name
<1>6. at \in Nat \ {0}
  BY <1>5 DEF Position, Shape, EndShape
<1> QED
  BY <1>2, <1>3, <1>4, <1>5, <1>6, Shapes

\* A loop passes none of the switches.
LEMMA LoopFacts ==
    ASSUME NEW k, Shape(k), k # "boot", NEW c
    PROVE  /\ Before(k, LoopStart(k), c) => Before(k, LoopEnd(k), c)
           /\ c \in Switches => /\ Before(k, LoopEnd(k), c) => Before(k, LoopStart(k), c)
                                /\ Program(k)[LoopEnd(k)] # c
<1> USE DEF Shape, LoopShape
<1>1. Before(k, LoopStart(k), c) => Before(k, LoopEnd(k), c)
  BY BeforeFacts
<1>2. ASSUME c \in Switches, Before(k, LoopEnd(k), c)
      PROVE  Before(k, LoopStart(k), c)
  <2>1. PICK j \in 1..(LoopEnd(k) - 1) : Program(k)[j] = c
    BY <1>2 DEF Before
  <2>2. j \notin LoopStart(k)..LoopEnd(k)
    BY <1>2, <2>1
  <2>3. j \in 1..(LoopStart(k) - 1)
    BY <2>1, <2>2
  <2> QED
    BY <2>1, <2>3 DEF Before
<1> QED
  BY <1>1, <1>2

\* How Return changes what has been done: a call is added, the tables in use
\* are those the call leaves, and only harness_main's next entry forgets.
LEMMA ReturnFacts ==
    ASSUME Position, Return, image' = image
    PROVE  /\ Position'
           /\ status' = status \/ status' = "done"
           /\ MmuOn(Name', at') <=> (Call = "mmu_enable" \/ (MmuOn(Name, at) /\ Call # "mmu_disable"))
           /\ \A c : Done(c)' => Done(c) \/ Call = c
           /\ \A c \in PageFaultInstalls : Done(c) \/ Call = c => Done(c)' \/ Call = "mem_reset"
           /\ Call = "mem_reset" => status' = "done" \/ \A c : ~Done(c)'
           /\ \A c \in {"early_mem_init", "irq_init"} :
                /\ Booted(c)' => Booted(c) \/ Call = c
                /\ Booted(c) \/ Call = c => Booted(c)' \/ status' = "done"
           /\ Call = "trigger_swi" => Call' = "wait_flag"
           /\ Call' = "trigger_swi" => Call = "clear_flag"
           /\ Call' = "wait_flag" => Call = "trigger_swi"
           /\ Call = "timer_start" => Call' = "timer_stop"
<1> DEFINE k == Name
<1>a. /\ Shape(k) /\ b \in Nat /\ at \in Nat \ {0} /\ Len(image.order) \in Nat
      /\ b > 0 <=> k # "boot"
      /\ \A j \in 1..Len(image.order) : Shape(image.order[j]) /\ image.order[j] # "boot"
  BY HereFacts
<1>b. Call = Program(k)[at]
  BY DEF Call
<1>c. /\ Len(Program(k)) \in Nat /\ image \in Images
      /\ at \in 1..Len(Program(k)) /\ b \in 0..Len(image.order) /\ iter \in 1..Iters
  BY <1>a DEF Shape, EndShape, Position
<1>d. /\ Call = "mmu_enable" => ~Done("mmu_disable")
      /\ Call = "mem_reset" => at = Len(Program(k))
      /\ k # "boot" => Call \notin BootCalls
      /\ k = "boot" => Call \in BootCalls
  BY <1>a, <1>b, <1>c DEF Shape, MemoryShape, BootShape, Done
<1>1. CASE Loops
  <2>0. /\ k # "boot" /\ at = LoopEnd(k) /\ iter < Iters /\ at' = LoopStart(k) /\ iter' = iter + 1
        /\ b' = b /\ status' = status
    BY <1>1, <1>a DEF Loops, Return
  <2>1. /\ LoopStart(k) \in Nat /\ LoopEnd(k) \in Nat /\ 1 <= LoopStart(k)
        /\ LoopStart(k) <= LoopEnd(k) /\ LoopEnd(k) <= Len(Program(k))
        /\ Call \notin Switches \cup {"mem_reset", "trigger_swi"}
        /\ Program(k)[LoopStart(k)] \notin {"trigger_swi", "wait_flag"}
    BY <1>a, <1>b, <2>0 DEF Shape, LoopShape
  <2>2. Name' = k
    BY <2>0 DEF Name
  <2>3. Position' /\ Call' = Program(k)[LoopStart(k)]
    BY <1>c, <2>0, <2>1, <2>2, X86Assumption DEF Position, Call
  <2>4. \A c : Done(c)' => Done(c)
    BY <1>a, <2>0, <2>2, LoopFacts DEF Done
  <2>5. \A c \in Switches : Done(c)' <=> Done(c)
    BY <1>a, <2>0, <2>2, LoopFacts DEF Done
  <2>6. Call \notin BootCalls
    BY <1>d, <2>0
  <2> QED
    BY <2>0, <2>1, <2>2, <2>3, <2>4, <2>5, <2>6 DEF MmuOn, Done, Booted, Switches, PageFaultInstalls, BootCalls
<1>2. CASE ~Loops /\ at < Len(Program(k))
  <2>1. at' = at + 1 /\ b' = b /\ iter' = iter /\ status' = status
    BY <1>2 DEF Return
  <2>2. Name' = k
    BY <2>1 DEF Name
  <2>3. Position' /\ Call' = Program(k)[at + 1]
    BY <1>c, <1>2, <2>1, <2>2 DEF Position, Call
  <2>4. \A c : Done(c)' <=> Done(c) \/ Call = c
    BY <1>a, <1>b, <2>1, <2>2, BeforeFacts DEF Done
  <2>5. /\ Call = "trigger_swi" <=> Call' = "wait_flag"
        /\ Call' = "trigger_swi" => Call = "clear_flag"
        /\ Call = "timer_start" => Call' = "timer_stop"
    <3>1. at \in 1..(Len(Program(k)) - 1)
      BY <1>2, <1>c
    <3> QED
      BY <1>a, <1>b, <2>3, <3>1 DEF Shape, TriggerShape
  <2>6. Call # "mem_reset"
    BY <1>2, <1>c, <1>d
  <2> QED
    BY <1>d, <2>1, <2>2, <2>3, <2>4, <2>5, <2>6 DEF MmuOn, Done, Booted
<1>3. CASE ~Loops /\ at = Len(Program(k))
  <2>1. /\ ~MmuOn(k, at)
        /\ Call \notin Switches \cup {"timer_start", "trigger_swi", "wait_flag"}
        /\ \A c \in PageFaultInstalls : Done(c) => Call = "mem_reset"
        /\ k = "boot" => \A c \in {"early_mem_init", "irq_init"} : Done(c) \/ Call = c
    BY <1>a, <1>b, <1>3 DEF Shape, EndShape, BootShape, Done
  <2>2. CASE b < Len(image.order)
    <3>1. at' = 1 /\ b' = b + 1 /\ iter' = 1 /\ status' = status
      BY <1>3, <2>2 DEF Return
    <3>2. Name' = image.order[b + 1] /\ b + 1 \in 1..Len(image.order)
      BY <1>c, <2>2, <3>1, <1>a DEF Name
    <3>3. Shape(Name') /\ Name' # "boot"
      BY <1>a, <3>2
    <3>4. Call' \notin {"timer_stop", "trigger_swi", "wait_flag"} /\ 1 \in 1..Len(Program(Name'))
      BY <3>1, <3>3 DEF Shape, EndShape, Call
    <3>5. Position'
      BY <1>c, <3>1, <3>2, <3>4, X86Assumption DEF Position
    <3>6. \A c : ~Done(c)'
      BY <3>1, BeforeFacts DEF Done
    <3>7. \A c \in {"early_mem_init", "irq_init"} : Booted(c)' /\ (Booted(c) \/ Call = c)
      BY <2>1, <3>3 DEF Booted
    <3>8. ~MmuOn(Name', at')
      BY <3>6 DEF MmuOn, Done
    <3> QED
      BY <2>1, <3>1, <3>4, <3>5, <3>6, <3>7, <3>8 DEF Switches, PageFaultInstalls
  <2>3. CASE ~(b < Len(image.order))
    <3>1. at' = at /\ b' = b /\ iter' = iter /\ status' = "done"
      BY <1>3, <2>3 DEF Return
    <3>2. Name' = k
      BY <3>1 DEF Name
    <3>3. Position' /\ Call' = Call /\ \A c : Done(c)' <=> Done(c)
      BY <1>c, <3>1, <3>2 DEF Position, Call, Done
    <3> QED
      BY <1>d, <2>1, <3>1, <3>2, <3>3 DEF MmuOn, Done, Switches, PageFaultInstalls, Booted, BootCalls
  <2> QED
    BY <2>2, <2>3
<1> QED
  BY <1>1, <1>2, <1>3, <1>c

------------------------------------------------------------------------------
(* Tables *)

\* The addresses and the numbers of the tables on the way to them.
Span == 0..Lapic
Levels == {"pdp", "pd", "pt"}

\* What the benchmarks can map takes finitely many tables.
LEMMA TablesFinite ==
    /\ IsFiniteSet(RuntimeTables)
    /\ \A a \in RuntimeRanges \cup Phys : Path(a) \subseteq RuntimeTables /\ IsFiniteSet(Path(a))
<1>1. \A a \in RuntimeRanges \cup Phys : a \in Span
  BY X86Assumption DEF RuntimeRanges, Phys, Image, Lapic, Span
<1>2. 0 \in Span /\ \A a \in Span : a \div 512 \in Span
  BY DEF Span, Lapic
<1>3. ASSUME NEW a \in Span PROVE Path(a) \subseteq Levels \X Span
  <2>1. <<"pdp", 0>> \in Levels \X Span /\ <<"pd", a \div 512>> \in Levels \X Span /\ <<"pt", a>> \in Levels \X Span
    BY <1>2 DEF Levels
  <2> QED
    BY <2>1 DEF Path
<1>4. RuntimeTables \subseteq Levels \X Span
  <2> SUFFICES ASSUME NEW a \in RuntimeRanges \cup Phys PROVE Path(a) \subseteq Levels \X Span
    BY Zenon DEF RuntimeTables, Phys
  <2>1. a \in Span
    BY <1>1
  <2> QED
    BY <1>3, <2>1
<1>5. IsFiniteSet(Levels \X Span)
  <2>1. IsFiniteSet({"pdp"} \cup {"pd"} \cup {"pt"})
    BY FS_Singleton, FS_Union
  <2>2. {"pdp"} \cup {"pd"} \cup {"pt"} = Levels
    BY DEF Levels
  <2>3. \A n \in Nat : IsFiniteSet(0..n)
    BY FS_Interval
  <2>4. Lapic \in Nat
    BY DEF Lapic
  <2>5. IsFiniteSet(Span)
    BY <2>3, <2>4 DEF Span
  <2> QED
    BY <2>1, <2>2, <2>5, FS_Product
<1>6. IsFiniteSet(RuntimeTables)
  BY <1>4, <1>5, FS_Subset
<1>7. \A a \in RuntimeRanges \cup Phys : Path(a) \subseteq RuntimeTables
  BY DEF RuntimeTables, Phys
<1>8. \A a \in RuntimeRanges \cup Phys : IsFiniteSet(Path(a))
  BY <1>6, <1>7, FS_Subset
<1> QED
  BY <1>6, <1>7, <1>8

\* Mapping one address takes some pages of the heap, none of the stack's.
LEMMA MapOne ==
    ASSUME Maps, Heap, NEW set \in Sets, NEW a \in RuntimeRanges \cup Phys,
           CreateMappings(set, {a}), mem_inited' = mem_inited, set = "runtime" => mem_inited
    PROVE  /\ mapped' = [mapped EXCEPT ![set] = @ \cup {a}] /\ a \in Nat
           /\ NewTables(set, {a}) = Path(a) \ tables[set] /\ IsFiniteSet(NewTables(set, {a}))
           /\ heap_cur' = heap_cur + Cardinality(NewTables(set, {a}))
           /\ tables' = [tables EXCEPT ![set] = @ \cup NewTables(set, {a})]
           /\ Heap'
<1>1. NewTables(set, {a}) = Path(a) \ tables[set]
  BY DEF NewTables
<1>2. IsFiniteSet(NewTables(set, {a})) /\ NewTables(set, {a}) \subseteq RuntimeTables
  <2>1. NewTables(set, {a}) \subseteq Path(a)
    BY <1>1
  <2> QED
    BY <2>1, TablesFinite, FS_Subset
<1>3. Cardinality(NewTables(set, {a})) \in Nat
  BY <1>2, FS_CardinalityType
<1>4. /\ heap_cur' = heap_cur + Cardinality(NewTables(set, {a}))
      /\ heap_cur + Cardinality(NewTables(set, {a})) <= HeapPages - StackPages
      /\ tables' = [tables EXCEPT ![set] = @ \cup NewTables(set, {a})]
      /\ mapped' = [mapped EXCEPT ![set] = @ \cup {a}]
  BY DEF CreateMappings, Allocate, Fits
<1>5. heap_cur' \in 0..HeapPages
  BY <1>3, <1>4, X86Assumption DEF Heap
<1> HIDE DEF CreateMappings
<1>6. tables' = [s \in Sets |-> tables'[s]]
  BY <1>2, <1>4 DEF Heap
<1>7. /\ {<<"pdp", 0>>, <<"pd", 0>>} \subseteq tables'["initial"]
      /\ tables'["runtime"] \subseteq RuntimeTables
      /\ ~mem_inited => tables'["runtime"] = {}
  BY <1>2, <1>4 DEF Heap, Sets
<1>8. a \in Nat
  BY X86Assumption DEF RuntimeRanges, Phys, Image, Lapic
<1> QED
  BY <1>1, <1>2, <1>4, <1>5, <1>6, <1>7, <1>8 DEF Heap

------------------------------------------------------------------------------
(* The invariant holds at the start and every step keeps it *)

LEMMA InitIInv == Init => IInv
<1> SUFFICES ASSUME Init PROVE IInv
  OBVIOUS
<1>1. /\ image \in Images /\ b = 0 /\ at = 1 /\ iter = 1 /\ status = "run" /\ cr3 = "initial"
      /\ Name = "boot"
  BY DEF Init, Name
<1>2. Len(image.order) \in Nat
  BY <1>1, ImagesAssumption
<1>3. Shape("boot")
  BY Shapes
<1>4. Position
  BY <1>1, <1>2, <1>3, X86Assumption DEF Position, Shape, EndShape
<1>5. \A c : ~Done(c)
  BY <1>1, BeforeFacts DEF Done
<1>6. Modes
  BY <1>1, <1>5 DEF Modes, MmuOn, Done, Sets
<1>7. /\ mapped = [initial |-> 0..511, runtime |-> {}]
      /\ tables = [initial |-> {<<"pdp", 0>>, <<"pd", 0>>}, runtime |-> {}]
      /\ mem_inited \in BOOLEAN /\ ~mem_inited /\ heap_cur = 0 /\ next_phys = PhysStart
  BY DEF Init
<1>8. Maps
  <2>1. mapped["initial"] = 0..511 /\ mapped["runtime"] = {} /\ mapped \in [Sets -> SUBSET Nat]
    BY <1>7 DEF Sets
  <2>2. next_phys \in PhysStart..PhysEnd /\ PhysStart..(next_phys - 1) = {}
    BY <1>7, X86Assumption
  <2> QED
    BY <1>1, <1>5, <1>7, <2>1, <2>2 DEF Maps, Booted
<1>9. Heap
  <2>1. /\ tables["initial"] = {<<"pdp", 0>>, <<"pd", 0>>} /\ tables["runtime"] = {}
    BY <1>7
  <2>2. tables = [s \in Sets |-> tables[s]]
    BY <1>7 DEF Sets
  <2> QED
    BY <1>7, <2>1, <2>2, X86Assumption DEF Heap
<1>10. Handlers
  BY <1>1, <1>5 DEF Init, Handlers, Booted
<1>11. Call \notin {"trigger_swi", "wait_flag"}
  BY <1>1, <1>3 DEF Shape, EndShape, Call
<1>12. Interrupts /\ Taken
  BY <1>5, <1>11 DEF Init, Interrupts, Taken
<1> QED
  BY <1>1, <1>4, <1>6, <1>8, <1>9, <1>10, <1>12 DEF IInv

\* What arch_abort, wild execution and halting leave behind.
LEMMA StopKeeps ==
    ASSUME IInv, UNCHANGED <<image, b, at, iter, paging, irqs, traps>>,
           status' = status \/ (status = "run" /\ status' \in {"abort", "lost"})
    PROVE  IInv'
<1>1. /\ Name' = Name /\ Call' = Call /\ \A c : (Done(c)' <=> Done(c)) /\ (Booted(c)' <=> Booted(c))
      /\ MmuOn(Name, at)' <=> MmuOn(Name, at)
  BY DEF Name, Call, Done, Booted, MmuOn
<1>2. PageFaultHandler' = PageFaultHandler
  BY <1>1 DEF PageFaultHandler
<1>3. Position' /\ Modes'
  BY <1>1 DEF IInv, Position, Modes, paging
<1>5. Maps'
  BY <1>1 DEF IInv, Maps, paging
<1>6. Heap'
  BY DEF IInv, Heap, paging
<1>4. Handlers' /\ Interrupts' /\ Taken'
  BY <1>1, <1>2 DEF IInv, Handlers, Interrupts, Taken, irqs
<1> QED
  BY <1>3, <1>4, <1>5, <1>6 DEF IInv

InstallCalls ==
    PageFaultInstalls \cup
      {"undef_install_skip", "syscall_install_skip", "irq_install_handler", "irq_init", "mem_reset"}
IrqCalls == {"clear_flag", "trigger_swi", "wait_flag", "timer_start", "timer_stop"}
TrapCalls == {"undefined_instruction", "syscall", "read_unmapped", "call_unmapped"}

\* A call that leaves a part of the machine alone keeps what is said of it.
LEMMA ReturnKeeps ==
    ASSUME IInv, Return, image' = image, status = "run"
    PROVE  /\ status' \in {"run", "abort", "lost", "done"} /\ Position'
           /\ UNCHANGED cr3 /\ Call \notin {"mmu_enable", "mmu_disable"} => Modes'
           /\ UNCHANGED <<mapped, mem_inited, next_phys>> /\ Call \notin {"early_mem_init", "mem_init", "map_phys"}
                => Maps'
           /\ UNCHANGED <<heap_cur, tables, mem_inited>> => Heap'
           /\ UNCHANGED handlers /\ Call \notin InstallCalls => Handlers'
           /\ UNCHANGED <<flag, lapic, timer, served>> /\ iflag' \in BOOLEAN /\ Call \notin IrqCalls
                => Interrupts'
           /\ UNCHANGED traps /\ Call \notin TrapCalls => Taken'
<1>0. /\ \A c : Done(c)' => Done(c) \/ Call = c
      /\ \A c \in PageFaultInstalls : Done(c) \/ Call = c => Done(c)' \/ Call = "mem_reset"
      /\ \A c \in {"early_mem_init", "irq_init"} : Booted(c)' => Booted(c) \/ Call = c
      /\ Call' = "trigger_swi" => Call = "clear_flag"
  BY ReturnFacts DEF IInv
<1>1. status' \in {"run", "abort", "lost", "done"} /\ Position'
  BY ReturnFacts DEF IInv
<1>2. UNCHANGED cr3 /\ Call \notin {"mmu_enable", "mmu_disable"} => Modes'
  BY ReturnFacts DEF IInv, Modes
<1>3. UNCHANGED <<mapped, mem_inited, next_phys>> /\ Call \notin {"early_mem_init", "mem_init", "map_phys"}
        => Maps'
  BY <1>0 DEF IInv, Maps
<1>4. UNCHANGED <<heap_cur, tables, mem_inited>> => Heap'
  BY DEF IInv, Heap
<1>5. UNCHANGED handlers /\ Call \notin InstallCalls => Handlers'
  <2> SUFFICES ASSUME UNCHANGED handlers, Call \notin InstallCalls PROVE Handlers'
    OBVIOUS
  <2>1. PageFaultHandler' = PageFaultHandler
    BY <1>0 DEF PageFaultHandler, InstallCalls, PageFaultInstalls
  <2> QED
    BY <1>0, <2>1 DEF IInv, Handlers, InstallCalls
<1>6. UNCHANGED <<flag, lapic, timer, served>> /\ iflag' \in BOOLEAN /\ Call \notin IrqCalls
        => Interrupts'
  BY <1>0 DEF IInv, Interrupts, IrqCalls
<1>7. UNCHANGED traps /\ Call \notin TrapCalls => Taken'
  BY <1>0 DEF IInv, Taken, TrapCalls
<1> QED
  BY <1>1, <1>2, <1>3, <1>4, <1>5, <1>6, <1>7

\* What the program says of the machine at the call it has come to.
LEMMA CallFacts ==
    ASSUME IInv, status = "run"
    PROVE  /\ Call \in {"mmu_enable", "map_phys", "map_value"} => mem_inited
           /\ Image \in mapped[cr3] /\ FaultAddress \notin mapped[cr3]
           /\ Call # "early_mem_init" => Lapic \in mapped[cr3]
           /\ Call = "access_phys" => Phys \subseteq mapped[cr3]
           /\ Call \in BootCalls <=> Name = "boot"
           /\ Call = "mem_init" => \A c \in PageFaultInstalls : ~Done(c)
           /\ Call = "ifault_install_return" => ~Done("dfault_install_skip")
           /\ Call = "undefined_instruction" => Name = "undef" /\ handlers["undef"] = "skip"
           /\ Call = "syscall" => Name = "syscall" /\ handlers["syscall"] = "skip"
           /\ Call = "read_unmapped" => Name = "dfault" /\ handlers["page_fault"] = "skip"
           /\ Call = "call_unmapped" => Name = "ifault" /\ handlers["page_fault"] = "return"
           /\ Call = "wait_flag" => handlers["irq"] = "benchmark"
<1>1. Shape(Name) /\ at \in 1..Len(Program(Name)) /\ Call = Program(Name)[at]
  BY HereFacts DEF IInv, Position, Call
<1>2. /\ Call \in {"mmu_enable", "map_phys", "map_value"} \/ MmuOn(Name, at) => Done("mem_init")
      /\ Call = "access_phys" /\ MmuOn(Name, at) => Done("map_phys")
      /\ Call = "mem_init" => \A c \in PageFaultInstalls : ~Done(c)
  BY <1>1 DEF Shape, MemoryShape, Done
<1>3. /\ Call = "undefined_instruction" => Name = "undef" /\ Done("undef_install_skip")
      /\ Call = "syscall" => Name = "syscall" /\ Done("syscall_install_skip")
      /\ Call = "read_unmapped" => Name = "dfault" /\ Done("dfault_install_skip")
      /\ Call \in {"call_unmapped", "ifault_install_return"}
           => Name = "ifault" /\ ~Done("dfault_install_skip")
      /\ Call = "call_unmapped" => Done("ifault_install_return")
  BY <1>1 DEF Shape, TrapShape, Done
<1>4. /\ Call \in BootCalls <=> Name = "boot"
      /\ Call \in BootCalls \ {"early_mem_init"} => Done("early_mem_init")
      /\ Call = "wait_flag" => Done("irq_install_handler")
  BY <1>1 DEF Shape, BootShape, TriggerShape, Done
<1>5. Maps /\ Modes /\ Handlers
  BY DEF IInv
<1>6. /\ Call \in {"mmu_enable", "map_phys", "map_value"} => mem_inited
      /\ cr3 = "runtime" => mem_inited
      /\ cr3 = "runtime" /\ Call = "access_phys" => Phys \subseteq mapped["runtime"]
  BY <1>2, <1>5 DEF Maps, Modes
<1>7. Call # "early_mem_init" => Lapic \in mapped["initial"]
  BY <1>4, <1>5 DEF Maps, Booted
<1>8. /\ Image \in mapped["initial"] /\ FaultAddress \notin mapped["initial"]
      /\ Phys \subseteq mapped["initial"]
  <2>1. Image \in 0..511 /\ FaultAddress \notin (0..511) \cup {Lapic} /\ Phys \subseteq 0..511
    BY X86Assumption DEF Image, FaultAddress, Lapic, Phys
  <2> QED
    BY <1>5, <2>1 DEF Maps
<1>9. FaultAddress \notin mapped["runtime"] /\ (mem_inited => Image \in mapped["runtime"] /\ Lapic \in mapped["runtime"])
  BY <1>5, X86Assumption DEF Maps, RuntimeRanges, Image, FaultAddress, Lapic, Phys
<1>10. cr3 \in {"initial", "runtime"}
  BY <1>5 DEF Modes, Sets
<1>11. /\ Image \in mapped[cr3] /\ FaultAddress \notin mapped[cr3]
       /\ Call # "early_mem_init" => Lapic \in mapped[cr3]
       /\ Call = "access_phys" => Phys \subseteq mapped[cr3]
  BY <1>6, <1>7, <1>8, <1>9, <1>10
<1>12. /\ Call = "read_unmapped" => handlers["page_fault"] = "skip"
       /\ Call = "call_unmapped" => handlers["page_fault"] = "return"
  BY <1>3, <1>5 DEF Handlers, Booted, PageFaultHandler
<1>13. /\ Call = "undefined_instruction" => handlers["undef"] = "skip"
       /\ Call = "syscall" => handlers["syscall"] = "skip"
       /\ Call = "wait_flag" => handlers["irq"] = "benchmark"
  BY <1>3, <1>4, <1>5 DEF Handlers
<1> QED
  BY <1>2, <1>3, <1>4, <1>6, <1>11, <1>12, <1>13

\* An action that stops the machine.
Stops == \E how \in {"abort", "lost"} : Stop(how)

LEMMA StopsKeep ==
    ASSUME IInv, Stops, image' = image, status = "run"
    PROVE  IInv'
BY StopKeeps DEF Stops, Stop

\* Page tables and heap.
LEMMA MapKeeps ==
    ASSUME IInv, EarlyMemInit \/ MapPhys \/ MapValue
    PROVE  IInv'
<1> USE DEF Calls
<1>a. Position /\ Modes /\ Maps /\ Heap /\ Handlers /\ Interrupts /\ Taken
  BY DEF IInv
<1>b. status = "run" /\ image' = image
  BY DEF EarlyMemInit, MapPhys, MapValue
<1>c. mapped \in [Sets -> SUBSET Nat] /\ "initial" \in Sets /\ "runtime" \in Sets
  BY <1>a DEF Maps, Sets
<1>1. CASE Stops
  BY <1>1, <1>b, StopsKeep
<1>2. CASE EarlyMemInit /\ ~Stops
  <2>1. /\ Call = "early_mem_init" /\ CreateMappings("initial", {Lapic}) /\ Return
        /\ UNCHANGED <<cr3, mem_inited, next_phys, irqs, traps>>
    BY <1>2 DEF EarlyMemInit, CannotMap, Stops
  <2>2. mapped' = [mapped EXCEPT !["initial"] = @ \cup {Lapic}] /\ Lapic \in Nat /\ Heap'
    BY <1>a, <1>c, <2>1, MapOne DEF RuntimeRanges
  <2>3. mapped'["initial"] = mapped["initial"] \cup {Lapic} /\ mapped'["runtime"] = mapped["runtime"]
    BY <1>c, <2>2
  <2>4. /\ \A c : Done(c)' => Done(c) \/ Call = c
        /\ Booted("early_mem_init")' => Booted("early_mem_init") \/ Call = "early_mem_init"
    BY <1>b, <2>1, ReturnFacts DEF IInv
  <2>5. mapped' \in [Sets -> SUBSET Nat]
    BY <1>c, <2>2
  <2>6. Maps'
    BY <1>a, <2>1, <2>3, <2>4, <2>5 DEF Maps
  <2> QED
    BY <1>a, <1>b, <2>1, <2>2, <2>6, ReturnKeeps
    DEF IInv, InstallCalls, PageFaultInstalls, IrqCalls, TrapCalls, Interrupts, irqs
<1>3. CASE MapValue
  <2>1. /\ Call = "map_value" /\ CreateMappings("runtime", {Image}) /\ Return
        /\ UNCHANGED <<cr3, mem_inited, next_phys, irqs, traps>>
    BY <1>3 DEF MapValue
  <2>2. mem_inited
    BY <1>b, <2>1, CallFacts
  <2>3. mapped' = [mapped EXCEPT !["runtime"] = @ \cup {Image}] /\ Image \in Nat /\ Heap'
    BY <1>a, <1>c, <2>1, <2>2, MapOne DEF RuntimeRanges
  <2>4. mapped'["initial"] = mapped["initial"] /\ mapped'["runtime"] = mapped["runtime"] \cup {Image}
    BY <1>c, <2>3
  <2>5. /\ \A c : Done(c)' => Done(c) \/ Call = c
        /\ Booted("early_mem_init")' => Booted("early_mem_init") \/ Call = "early_mem_init"
    BY <1>b, <2>1, ReturnFacts DEF IInv
  <2>6. mapped' \in [Sets -> SUBSET Nat]
    BY <1>c, <2>3
  <2>7. Maps'
    BY <1>a, <2>1, <2>2, <2>4, <2>5, <2>6 DEF Maps, RuntimeRanges
  <2> QED
    BY <1>a, <1>b, <2>1, <2>3, <2>7, ReturnKeeps
    DEF IInv, InstallCalls, PageFaultInstalls, IrqCalls, TrapCalls, Interrupts, irqs
<1>4. CASE MapPhys /\ ~Stops /\ next_phys < PhysEnd
  <2>0. next_phys # PhysEnd
    BY <1>a, <1>4, X86Assumption DEF Maps
  <2>1. /\ Call = "map_phys" /\ CreateMappings("runtime", {next_phys}) /\ next_phys' = next_phys + 1
        /\ UNCHANGED <<b, at, iter, status, cr3, mem_inited, irqs, traps>>
    BY <1>4, <2>0 DEF MapPhys, CannotMap, Stops
  <2>2. mem_inited
    BY <1>b, <2>1, CallFacts
  <2>3. next_phys \in Phys /\ next_phys' \in PhysStart..PhysEnd
        /\ PhysStart..(next_phys' - 1) = (PhysStart..(next_phys - 1)) \cup {next_phys}
    BY <1>a, <1>4, <2>1, X86Assumption DEF Maps, Phys
  <2>4. mapped' = [mapped EXCEPT !["runtime"] = @ \cup {next_phys}] /\ next_phys \in Nat /\ Heap'
    BY <1>a, <1>c, <2>1, <2>2, <2>3, MapOne
  <2>5. mapped'["initial"] = mapped["initial"] /\ mapped'["runtime"] = mapped["runtime"] \cup {next_phys}
    BY <1>c, <2>4
  <2>6. mapped' \in [Sets -> SUBSET Nat]
    BY <1>c, <2>4
  <2>7. /\ Name' = Name /\ Call' = Call /\ \A c : (Done(c)' <=> Done(c)) /\ (Booted(c)' <=> Booted(c))
        /\ MmuOn(Name, at)' <=> MmuOn(Name, at)
    BY <1>b, <2>1 DEF Name, Call, Done, Booted, MmuOn
  <2>8. Maps'
    BY <1>a, <2>1, <2>2, <2>3, <2>5, <2>6, <2>7 DEF Maps
  <2>9. Position' /\ Modes'
    BY <1>a, <1>b, <2>1, <2>7 DEF Position, Modes
  <2>10. PageFaultHandler' = PageFaultHandler
    BY <2>7 DEF PageFaultHandler
  <2>11. Handlers' /\ Interrupts' /\ Taken'
    BY <1>a, <2>1, <2>7, <2>10 DEF Handlers, Interrupts, Taken, irqs
  <2> QED
    BY <1>b, <2>1, <2>4, <2>8, <2>9, <2>11 DEF IInv
<1>5. CASE MapPhys /\ ~Stops /\ ~(next_phys < PhysEnd)
  <2>1. /\ Call = "map_phys" /\ next_phys = PhysEnd /\ next_phys' = PhysStart /\ Return
        /\ UNCHANGED <<cr3, tables, mapped, mem_inited, heap_cur, irqs, traps>>
    BY <1>5 DEF MapPhys
  <2>2. mem_inited
    BY <1>b, <2>1, CallFacts
  <2>3. Phys \subseteq mapped["runtime"] /\ next_phys' \in PhysStart..PhysEnd /\ PhysStart..(next_phys' - 1) = {}
    BY <1>a, <2>1, X86Assumption DEF Maps, Phys
  <2>4. /\ \A c : Done(c)' => Done(c) \/ Call = c
        /\ Booted("early_mem_init")' => Booted("early_mem_init") \/ Call = "early_mem_init"
    BY <1>b, <2>1, ReturnFacts DEF IInv
  <2>5. Maps'
    BY <1>a, <2>1, <2>2, <2>3, <2>4 DEF Maps
  <2> QED
    BY <1>a, <1>b, <2>1, <2>5, ReturnKeeps
    DEF IInv, InstallCalls, PageFaultInstalls, IrqCalls, TrapCalls, Interrupts, irqs
<1> QED
  BY <1>1, <1>2, <1>3, <1>4, <1>5

\* What prepare_runtime_pagetables takes: tables that the benchmarks need anyway.
LEMMA FreshTables ==
    LET fresh == UNION {Path(a) : a \in RuntimeRanges}
    IN  fresh \subseteq RuntimeTables /\ IsFiniteSet(fresh) /\ Cardinality(fresh) \in Nat
<1> DEFINE fresh == UNION {Path(a) : a \in RuntimeRanges}
<1>1. fresh \subseteq RuntimeTables
  BY Zenon DEF RuntimeTables
<1>2. IsFiniteSet(fresh)
  BY <1>1, TablesFinite, FS_Subset
<1> QED
  BY <1>1, <1>2, FS_CardinalityType

LEMMA MemInitKeeps ==
    ASSUME IInv, MemInit
    PROVE  IInv'
<1> USE DEF Calls
<1> DEFINE fresh == UNION {Path(a) : a \in RuntimeRanges}
<1>a. Position /\ Modes /\ Maps /\ Heap /\ Handlers /\ Interrupts /\ Taken
  BY DEF IInv
<1>b. status = "run" /\ image' = image /\ Call = "mem_init"
  BY DEF MemInit
<1>c. mapped \in [Sets -> SUBSET Nat] /\ "initial" \in Sets /\ "runtime" \in Sets
  BY <1>a DEF Maps, Sets
<1>d. /\ Name # "boot" /\ \A c \in PageFaultInstalls : ~Done(c)
  BY <1>b, CallFacts DEF BootCalls
<1>1. CASE Stops
  BY <1>1, <1>b, StopsKeep
<1>2. CASE AlreadyInited /\ ~Stops
  <2>1. Return /\ UNCHANGED <<paging, irqs, traps>> /\ mem_inited
    BY <1>2 DEF MemInit, Stops, AlreadyInited
  <2>2. /\ \A c : Done(c)' => Done(c) \/ Call = c
        /\ Booted("early_mem_init")' => Booted("early_mem_init") \/ Call = "early_mem_init"
    BY <1>b, <2>1, ReturnFacts DEF IInv
  <2>3. Maps'
    BY <1>a, <1>b, <2>1, <2>2 DEF Maps, paging
  <2> QED
    BY <1>a, <1>b, <2>1, <2>3, ReturnKeeps
    DEF IInv, InstallCalls, PageFaultInstalls, IrqCalls, TrapCalls, Interrupts, irqs, paging
<1>3. CASE ~AlreadyInited /\ ~Stops
  <2>1. /\ Fits(1 + Cardinality(fresh)) /\ Allocate(1 + Cardinality(fresh))
        /\ tables' = [tables EXCEPT !["runtime"] = fresh]
        /\ mapped' = [mapped EXCEPT !["runtime"] = RuntimeRanges]
        /\ mem_inited' = TRUE
        /\ handlers' = [handlers EXCEPT !["page_fault"] = "default"]
        /\ Return
        /\ UNCHANGED <<cr3, next_phys, iflag, lapic, timer, flag, served, traps>>
    BY <1>3 DEF MemInit, Stops
  <2>2. ~mem_inited /\ mem_inited' /\ mem_inited' \in BOOLEAN /\ next_phys = PhysStart
    BY <1>3, <1>a, <1>b, <2>1 DEF AlreadyInited, Maps
  <2>3. /\ \A c : Done(c)' => Done(c) \/ Call = c
        /\ Booted("early_mem_init")' => Booted("early_mem_init") \/ Call = "early_mem_init"
    BY <1>b, <2>1, ReturnFacts DEF IInv
  <2>4. mapped'["initial"] = mapped["initial"] /\ mapped'["runtime"] = RuntimeRanges
    BY <1>c, <2>1
  <2>5. mapped' \in [Sets -> SUBSET Nat]
    BY <1>c, <2>1 DEF RuntimeRanges, Image, Lapic
  <2>6. PhysStart..(next_phys - 1) = {} /\ next_phys' = next_phys
    BY <2>1, <2>2, X86Assumption
  <2>7. Maps'
    BY <1>a, <1>b, <2>2, <2>3, <2>4, <2>5, <2>6 DEF Maps
  <2>8. Heap'
    <3>1. heap_cur' = heap_cur + 1 + Cardinality(fresh) /\ heap_cur' <= HeapPages - StackPages
      BY <1>a, <2>1, FreshTables DEF Fits, Allocate, Heap
    <3>2. heap_cur' \in 0..HeapPages
      BY <1>a, <3>1, FreshTables, X86Assumption DEF Heap
    <3>3. tables' = [t \in Sets |-> tables'[t]] /\ tables'["runtime"] = fresh /\ tables'["initial"] = tables["initial"]
      BY <1>a, <1>c, <2>1 DEF Heap, Sets
    <3>4. fresh \subseteq RuntimeTables
      BY FreshTables
    <3> HIDE DEF fresh
    <3> QED
      BY <1>a, <2>2, <3>2, <3>3, <3>4 DEF Heap
  <2>9. Handlers'
    <3>1. PageFaultHandler' = "default"
      BY <1>b, <1>d, <2>3 DEF PageFaultHandler, PageFaultInstalls
    <3> QED
      BY <1>a, <1>b, <2>1, <2>3, <3>1 DEF Handlers
  <2> QED
    BY <1>a, <1>b, <2>1, <2>7, <2>8, <2>9, ReturnKeeps DEF IInv, IrqCalls, TrapCalls, Interrupts
<1> QED
  BY <1>1, <1>2, <1>3

\* A part of the machine that a call does not touch.
LEMMA SwitchKeeps ==
    ASSUME IInv, MmuEnable \/ MmuDisable
    PROVE  IInv'
<1> USE DEF Calls
<1>b. status = "run" /\ image' = image
  BY DEF MmuEnable, MmuDisable, SwitchTables
<1>1. CASE Stops
  BY <1>1, <1>b, StopsKeep
<1>2. CASE ~Stops
  <2>1. /\ \/ Call = "mmu_enable" /\ cr3' = "runtime"
           \/ Call = "mmu_disable" /\ cr3' = "initial"
        /\ Return
        /\ UNCHANGED <<tables, mapped, mem_inited, heap_cur, next_phys, irqs, traps>>
    BY <1>2 DEF MmuEnable, MmuDisable, SwitchTables, Stops
  <2>2. Modes'
    BY <1>b, <2>1, ReturnFacts DEF IInv, Modes, Sets
  <2> QED
    BY <1>b, <2>1, <2>2, ReturnKeeps
    DEF IInv, InstallCalls, PageFaultInstalls, IrqCalls, TrapCalls, Interrupts, irqs
<1> QED
  BY <1>1, <1>2

\* Handler pointers.
LEMMA HandlerKeeps ==
    ASSUME IInv, MemReset \/ InstallHandlers
    PROVE  IInv'
<1> USE DEF Calls
<1>a. Handlers /\ Interrupts
  BY DEF IInv
<1>1. \E call, which, fn :
        /\ SetHandler(call, which, fn)
        /\ \/ call = "mem_reset" /\ which = "page_fault" /\ fn = "default"
           \/ call = "undef_install_skip" /\ which = "undef" /\ fn = "skip"
           \/ call = "syscall_install_skip" /\ which = "syscall" /\ fn = "skip"
           \/ call = "dfault_install_skip" /\ which = "page_fault" /\ fn = "skip"
           \/ call = "ifault_install_return" /\ which = "page_fault" /\ fn = "return"
           \/ call = "irq_install_handler" /\ which = "irq" /\ fn = "benchmark"
  BY DEF MemReset, InstallHandlers
<1>2. PICK call, which, fn :
        /\ SetHandler(call, which, fn)
        /\ \/ call = "mem_reset" /\ which = "page_fault" /\ fn = "default"
           \/ call = "undef_install_skip" /\ which = "undef" /\ fn = "skip"
           \/ call = "syscall_install_skip" /\ which = "syscall" /\ fn = "skip"
           \/ call = "dfault_install_skip" /\ which = "page_fault" /\ fn = "skip"
           \/ call = "ifault_install_return" /\ which = "page_fault" /\ fn = "return"
           \/ call = "irq_install_handler" /\ which = "irq" /\ fn = "benchmark"
  BY <1>1
<1>3. /\ Call = call /\ Return /\ handlers' = [handlers EXCEPT ![which] = fn]
      /\ status = "run" /\ image' = image
      /\ UNCHANGED <<paging, iflag, lapic, timer, flag, served, traps>>
  BY <1>2 DEF SetHandler
<1>4. /\ \A c : Done(c)' => Done(c) \/ Call = c
      /\ \A c \in PageFaultInstalls : Done(c) \/ Call = c => Done(c)' \/ Call = "mem_reset"
      /\ Call = "mem_reset" => status' = "done" \/ \A c : ~Done(c)'
      /\ Booted("irq_init")' => Booted("irq_init") \/ Call = "irq_init"
  BY <1>3, ReturnFacts DEF IInv
<1>5. /\ handlers' \in [{"syscall", "page_fault", "irq", "undef"} ->
                          {"null", "default", "skip", "return", "benchmark"}]
      /\ handlers'[which] = fn
      /\ \A h \in {"syscall", "page_fault", "irq", "undef"} : h # which => handlers'[h] = handlers[h]
  BY <1>2, <1>3, <1>a DEF Handlers
<1>6. /\ Done("undef_install_skip")' => handlers'["undef"] = "skip"
      /\ Done("syscall_install_skip")' => handlers'["syscall"] = "skip"
      /\ Done("irq_install_handler")' => handlers'["irq"] = "benchmark"
  BY <1>2, <1>3, <1>4, <1>5, <1>a DEF Handlers
<1>7. Booted("irq_init")' /\ (status' # "done" \/ PageFaultHandler' = "default")
        => handlers'["page_fault"] = PageFaultHandler'
  <2>1. CASE call = "mem_reset"
    BY <1>2, <1>3, <1>4, <1>5, <2>1 DEF PageFaultHandler
  <2>2. CASE call = "dfault_install_skip"
    BY <1>2, <1>3, <1>4, <1>5, <2>2 DEF PageFaultHandler, PageFaultInstalls
  <2>3. CASE call = "ifault_install_return"
    BY <1>2, <1>3, <1>4, <1>5, <2>3, CallFacts DEF PageFaultHandler, PageFaultInstalls
  <2>4. CASE call \notin PageFaultInstalls \cup {"mem_reset"}
    <3>1. PageFaultHandler' = PageFaultHandler
      BY <1>3, <1>4, <2>4 DEF PageFaultHandler, PageFaultInstalls
    <3>2. handlers'["page_fault"] = handlers["page_fault"]
      BY <1>2, <1>5, <2>4 DEF PageFaultInstalls
    <3>3. Booted("irq_init")' => Booted("irq_init")
      BY <1>2, <1>3, <1>4
    <3> QED
      BY <1>3, <1>a, <3>1, <3>2, <3>3 DEF Handlers
  <2> QED
    BY <2>1, <2>2, <2>3, <2>4 DEF PageFaultInstalls
<1>8. Handlers'
  BY <1>5, <1>6, <1>7 DEF Handlers
<1> QED
  BY <1>2, <1>3, <1>8, <1>a, ReturnKeeps DEF IInv, IrqCalls, TrapCalls, Interrupts, paging

\* irq_init, and the timer of the APIC.
LEMMA ApicKeeps ==
    ASSUME IInv, IrqInit \/ TimerStart \/ TimerStop
    PROVE  IInv'
<1> USE DEF Calls
<1>a. Handlers /\ Heap /\ Interrupts
  BY DEF IInv
<1>b. /\ status = "run" /\ image' = image
      /\ Call \in {"irq_init", "timer_start", "timer_stop"}
  BY DEF IrqInit, TimerStart, TimerStop, SetTimer
<1>c. Lapic \in mapped[cr3] /\ Name = "boot"
  BY <1>b, CallFacts DEF BootCalls
<1>d. \A c : c \notin BootCalls => ~Done(c)
  <2>1. /\ \A i \in 1..Len(Program(Name)) : Program(Name)[i] \in BootCalls
        /\ at \in 1..Len(Program(Name)) /\ Len(Program(Name)) \in Nat
    BY <1>c, HereFacts DEF IInv, Position, Shape, BootShape, EndShape
  <2> QED
    BY <2>1 DEF Done, Before
<1>1. CASE Stops
  BY <1>1, <1>b, StopsKeep
<1>2. CASE IrqInit /\ ~Stops
  <2>1. /\ Call = "irq_init" /\ Fits(1) /\ Allocate(1) /\ Return
        /\ handlers' = [h \in DOMAIN handlers |-> "default"]
        /\ lapic' = "idle" /\ timer' = "masked"
        /\ UNCHANGED <<cr3, tables, mapped, mem_inited, next_phys, iflag, flag, served, traps>>
    BY <1>2, <1>c DEF IrqInit, Stops, NoLapic, Translates
  <2>2. Heap'
    BY <1>a, <2>1, X86Assumption DEF Heap, Fits, Allocate
  <2>3. /\ \A c : Done(c)' => Done(c) \/ Call = c
        /\ Call' = "trigger_swi" => Call = "clear_flag"
    BY <1>b, <2>1, ReturnFacts DEF IInv
  <2>4. Handlers'
    <3>1. handlers' = [h \in {"syscall", "page_fault", "irq", "undef"} |-> "default"]
      BY <1>a, <2>1 DEF Handlers
    <3>2. /\ ~Done("undef_install_skip")' /\ ~Done("syscall_install_skip")' /\ ~Done("irq_install_handler")'
          /\ ~Done("dfault_install_skip")' /\ ~Done("ifault_install_return")'
      BY <1>d, <2>1, <2>3 DEF BootCalls
    <3>3. PageFaultHandler' = "default"
      BY <3>2 DEF PageFaultHandler
    <3> QED
      BY <3>1, <3>2, <3>3 DEF Handlers
  <2>5. Interrupts'
    BY <1>a, <2>1, <2>3 DEF Interrupts
  <2> QED
    BY <1>b, <2>1, <2>2, <2>4, <2>5, ReturnKeeps DEF IInv, TrapCalls
<1>3. CASE (TimerStart \/ TimerStop) /\ ~Stops
  <2>1. /\ \/ Call = "timer_start" /\ timer' = "running"
           \/ Call = "timer_stop" /\ timer' = "masked"
        /\ Return /\ UNCHANGED <<paging, handlers, iflag, lapic, flag, served, traps>>
    BY <1>3, <1>c DEF TimerStart, TimerStop, SetTimer, NoLapic, Translates
  <2>2. /\ Call' = "trigger_swi" => Call = "clear_flag"
        /\ Call = "timer_start" => Call' = "timer_stop"
    BY <1>b, <2>1, ReturnFacts DEF IInv
  <2>3. Interrupts'
    BY <1>a, <2>1, <2>2 DEF Interrupts
  <2> QED
    BY <1>b, <2>1, <2>3, ReturnKeeps DEF IInv, InstallCalls, PageFaultInstalls, TrapCalls, paging
<1> QED
  BY <1>1, <1>2, <1>3

\* Exceptions, and accesses that raise none.
LEMMA TrapKeeps ==
    ASSUME IInv, UndefinedInstruction \/ SyscallTrap \/ ReadUnmapped \/ CallUnmapped
                 \/ AccessImage \/ AccessPhys \/ AccessDevice
    PROVE  IInv'
<1> USE DEF Calls
<1>a. Taken /\ Interrupts
  BY DEF IInv
<1>b. status = "run" /\ image' = image
  BY DEF UndefinedInstruction, SyscallTrap, Trap, ReadUnmapped, CallUnmapped, AccessImage,
    AccessPhys, AccessDevice, Access
<1>1. CASE Stops
  BY <1>1, <1>b, StopsKeep
<1>2. CASE (AccessImage \/ AccessPhys \/ AccessDevice) /\ ~Stops
  <2>1. /\ Call \in {"access_image", "access_phys", "access_device"}
        /\ Call = "access_image" /\ Image \in mapped[cr3]
             => Return /\ UNCHANGED <<paging, irqs, traps>>
        /\ Call = "access_device" /\ Lapic \in mapped[cr3]
             => Return /\ UNCHANGED <<paging, irqs, traps>>
        /\ Call = "access_phys" /\ Phys \subseteq mapped[cr3]
             => Return /\ UNCHANGED <<paging, irqs, traps>>
    BY <1>2 DEF AccessImage, AccessPhys, AccessDevice, Access, Translates, Phys
  <2>2. Return /\ UNCHANGED <<paging, irqs, traps>>
    BY <1>b, <2>1, CallFacts
  <2> QED
    BY <1>a, <1>b, <2>1, <2>2, ReturnKeeps
    DEF IInv, InstallCalls, PageFaultInstalls, IrqCalls, TrapCalls, Interrupts, irqs, paging
<1>3. CASE (UndefinedInstruction \/ SyscallTrap \/ ReadUnmapped \/ CallUnmapped) /\ ~Stops
  <2>1. /\ \/ Call = "undefined_instruction" /\ Take("undef")
           \/ Call = "syscall" /\ Take("syscall")
           \/ Call = "read_unmapped" /\ Take("page_fault")
           \/ Call = "call_unmapped" /\ Take("page_fault")
        /\ Return /\ UNCHANGED <<paging, irqs>>
    BY <1>3, <1>b, CallFacts DEF UndefinedInstruction, SyscallTrap, Trap, ReadUnmapped, CallUnmapped,
      Translates, Unhandled, DataFault, FetchFault, Stops
  <2>2. \A c : Done(c)' => Done(c) \/ Call = c
    BY <1>b, <2>1, ReturnFacts DEF IInv
  <2>3. \/ Call = "undefined_instruction" /\ traps' = traps \cup {<<"undef", "undef">>}
        \/ Call = "syscall" /\ traps' = traps \cup {<<"syscall", "syscall">>}
        \/ Call = "read_unmapped" /\ traps' = traps \cup {<<"page_fault", "dfault">>}
        \/ Call = "call_unmapped" /\ traps' = traps \cup {<<"page_fault", "ifault">>}
    BY <1>b, <2>1, CallFacts DEF Take
  <2>4. Taken'
    BY <1>a, <2>2, <2>3 DEF Taken
  <2> QED
    BY <1>a, <1>b, <2>1, <2>4, ReturnKeeps
    DEF IInv, InstallCalls, PageFaultInstalls, IrqCalls, Interrupts, irqs, paging
<1> QED
  BY <1>1, <1>2, <1>3

\* The calls of swi.c.
LEMMA IrqKeeps ==
    ASSUME IInv, IrqEnable \/ IrqDisable \/ ClearFlag \/ TriggerSwi \/ WaitFlag
    PROVE  IInv'
<1> USE DEF Calls
<1>a. Interrupts
  BY DEF IInv
<1>b. status = "run" /\ image' = image
  BY DEF IrqEnable, IrqDisable, SetIf, ClearFlag, TriggerSwi, WaitFlag
<1>c. Call = "trigger_swi" => Lapic \in mapped[cr3]
  BY <1>b, CallFacts
<1>1. CASE IrqEnable \/ IrqDisable
  <2>1. /\ Call \in {"irq_enable", "irq_disable"} /\ Return /\ iflag' \in BOOLEAN
        /\ UNCHANGED <<paging, handlers, lapic, timer, flag, served, traps>>
    BY <1>1 DEF IrqEnable, IrqDisable, SetIf
  <2> QED
    BY <1>b, <2>1, ReturnKeeps DEF IInv, InstallCalls, PageFaultInstalls, IrqCalls, TrapCalls, paging
<1>2. CASE ClearFlag \/ TriggerSwi \/ WaitFlag
  <2>1. /\ Return /\ UNCHANGED <<paging, handlers, iflag, timer, served, traps>>
        /\ \/ Call = "clear_flag" /\ flag' = FALSE /\ UNCHANGED lapic
           \/ Call = "trigger_swi" /\ lapic' = "pending" /\ UNCHANGED flag
           \/ Call = "wait_flag" /\ flag /\ UNCHANGED <<flag, lapic>>
    BY <1>2, <1>a, <1>c DEF ClearFlag, TriggerSwi, WaitFlag, NoLapic, Translates, Interrupts, irqs
  <2>2. /\ Call = "trigger_swi" => Call' = "wait_flag"
        /\ Call' = "trigger_swi" => Call = "clear_flag"
    BY <1>b, <2>1, ReturnFacts DEF IInv
  <2>3. Interrupts'
    <3>1. CASE Call = "clear_flag"
      <4>1. ~flag' /\ flag' \in BOOLEAN /\ lapic' = lapic
        BY <2>1, <3>1
      <4> QED
        BY <1>a, <2>1, <2>2, <3>1, <4>1 DEF Interrupts
    <3>2. CASE Call \in {"trigger_swi", "wait_flag"}
      BY <1>a, <2>1, <2>2, <3>2 DEF Interrupts
    <3> QED
      BY <2>1, <3>1, <3>2
  <2> QED
    BY <1>b, <2>1, <2>3, ReturnKeeps DEF IInv, InstallCalls, PageFaultInstalls, TrapCalls, paging
<1> QED
  BY <1>1, <1>2

\* The interrupt is taken at wait_flag, by the handler of swi.c, and leaves
\* nothing outstanding.
LEMMA IrqFacts ==
    ASSUME IInv, TakeIrq
    PROVE  /\ Call = "wait_flag" /\ ~flag /\ lapic = "pending" /\ status = "run"
           /\ flag' = TRUE /\ served' = served + 1 /\ lapic' = "idle"
           /\ UNCHANGED <<image, b, at, iter, status, paging, handlers, iflag, timer, traps>>
<1>1. status = "run" /\ lapic = "pending" /\ image' = image
  BY DEF TakeIrq
<1>2. Call = "wait_flag" /\ ~flag
  BY <1>1 DEF IInv, Interrupts
<1>3. handlers["irq"] = "benchmark" /\ Lapic \in mapped[cr3]
  BY <1>1, <1>2, CallFacts
<1> QED
  BY <1>1, <1>2, <1>3 DEF TakeIrq, Unhandled, NoLapic, Translates, EndOfInterrupt

LEMMA TakeIrqKeeps ==
    ASSUME IInv, TakeIrq
    PROVE  IInv'
<1>1. /\ lapic' = "idle" /\ served' = served + 1 /\ flag' = TRUE
      /\ UNCHANGED <<image, b, at, iter, status, paging, handlers, iflag, timer, traps>>
  BY IrqFacts
<1>2. /\ Name' = Name /\ Call' = Call /\ \A c : (Done(c)' <=> Done(c)) /\ (Booted(c)' <=> Booted(c))
      /\ MmuOn(Name, at)' <=> MmuOn(Name, at)
  BY <1>1 DEF Name, Call, Done, Booted, MmuOn
<1>3. PageFaultHandler' = PageFaultHandler
  BY <1>2 DEF PageFaultHandler
<1>4. Position' /\ Modes'
  BY <1>1, <1>2 DEF IInv, Position, Modes, paging
<1>5. Maps'
  BY <1>1, <1>2 DEF IInv, Maps, paging
<1>6. Heap'
  BY <1>1 DEF IInv, Heap, paging
<1>7. Handlers' /\ Taken'
  BY <1>1, <1>2, <1>3 DEF IInv, Handlers, Taken
<1>8. flag' \in BOOLEAN /\ Call # "trigger_swi"
  BY <1>1, IrqFacts
<1>9. Interrupts'
  BY <1>1, <1>2, <1>8 DEF IInv, Interrupts
<1> QED
  BY <1>1, <1>4, <1>5, <1>6, <1>7, <1>9 DEF IInv

LEMMA StepIInv == IInv /\ [Next]_vars => IInv'
<1> SUFFICES ASSUME IInv, [Next]_vars PROVE IInv'
  OBVIOUS
<1>1. CASE UNCHANGED vars
  BY <1>1, StopKeeps DEF vars
<1>2. CASE Step
  BY <1>2, MapKeeps, MemInitKeeps, SwitchKeeps, HandlerKeeps, ApicKeeps, TrapKeeps, IrqKeeps DEF Step
<1>3. CASE TakeIrq
  BY <1>3, TakeIrqKeeps
<1> QED
  BY <1>1, <1>2, <1>3 DEF Next, Halt

LEMMA SuiteInvariant == Spec => []IInv
BY InitIInv, StepIInv, PTL DEF Spec

------------------------------------------------------------------------------
(* What the invariant says of the suite *)

\* Every variable keeps its type; the heap never hands out more than it has and
\* the loop over the physical memory never leaves it (arch/x86_64).
THEOREM SuiteTypeCorrect == Spec => []TypeOK
<1>1. IInv => TypeOK
  BY DEF IInv, Position, Modes, Sets, Maps, Heap, Handlers, Interrupts, TypeOK
<1> QED
  BY <1>1, SuiteInvariant, PTL

\* Whatever ran before it, a benchmark starts on the initial tables, with the
\* page-fault pointer at its default, no interrupt outstanding and the APIC's
\* timer masked (mem_mmu_disable, mem_reset, lapic_acknowledge_irq).
THEOREM SuiteCleanStart == Spec => []CleanStart
<1>1. IInv => CleanStart
  <2> SUFFICES ASSUME IInv, at = 1, b > 0
               PROVE  /\ cr3 = "initial" /\ handlers["page_fault"] = "default"
                      /\ lapic = "idle" /\ timer = "masked"
    BY DEF CleanStart
  <2>1. \A c : ~Done(c)
    BY BeforeFacts DEF Done
  <2>2. cr3 = "initial"
    BY <2>1 DEF IInv, Modes, Sets, MmuOn, Done
  <2>3. Shape(Name) /\ Name # "boot" /\ Call = Program(Name)[1]
    BY HereFacts DEF IInv, Call
  <2>4. Call \notin {"timer_stop", "wait_flag"}
    BY <2>3 DEF Shape, EndShape
  <2>5. lapic = "idle" /\ timer = "masked"
    BY <2>4 DEF IInv, Interrupts
  <2> QED
    BY <2>1, <2>2, <2>3, <2>5 DEF IInv, Handlers, Booted, PageFaultHandler
<1> QED
  BY <1>1, SuiteInvariant, PTL

\* mem_reset keeps every mapping, and still the fault benchmarks fault, each
\* with its own exception, and no other benchmark takes one.
THEOREM SuiteFaultsWhereMeant == Spec => []FaultsWhereMeant
<1>1. IInv => FaultsWhereMeant
  <2> SUFFICES ASSUME IInv PROVE FaultsWhereMeant
    OBVIOUS
  <2>1. Call = "mmu_disable" =>
          /\ Name = "undef" => Done("undefined_instruction")
          /\ Name = "syscall" => Done("syscall")
          /\ Name = "dfault" => Done("read_unmapped")
          /\ Name = "ifault" => Done("call_unmapped")
    BY HereFacts DEF IInv, Position, Shape, TrapShape, Call, Done
  <2>2. Call = "mmu_disable" /\ Name \in {"undef", "syscall", "dfault", "ifault"}
          => \E t \in traps : t[2] = Name
    BY <2>1 DEF IInv, Taken
  <2> QED
    BY <2>2 DEF FaultsWhereMeant, IInv, Taken
<1> QED
  BY <1>1, SuiteInvariant, PTL

------------------------------------------------------------------------------
(* The interrupt of swi.c *)

\* A step leaves the count of handler runs alone, and where swi.c waits it is
\* the loop on the flag.
LEMMA StepFacts ==
    ASSUME Step
    PROVE  served' = served /\ status = "run" /\ (Call = "wait_flag" => WaitFlag)
<1> USE DEF Calls, irqs
<1>1. CASE EarlyMemInit \/ MemInit \/ MapPhys \/ MapValue \/ MmuEnable \/ MmuDisable
  BY <1>1 DEF EarlyMemInit, MemInit, MapPhys, MapValue, MmuEnable, MmuDisable, SwitchTables, CannotMap, Stop
<1>2. CASE MemReset \/ InstallHandlers
  BY <1>2 DEF MemReset, InstallHandlers, SetHandler
<1>3. CASE UndefinedInstruction \/ SyscallTrap \/ ReadUnmapped \/ CallUnmapped
  BY <1>3 DEF UndefinedInstruction, SyscallTrap, Trap, ReadUnmapped, CallUnmapped,
    DataFault, FetchFault, Unhandled, Stop
<1>4. CASE AccessImage \/ AccessPhys \/ AccessDevice
  BY <1>4 DEF AccessImage, AccessPhys, AccessDevice, Access, DataFault, Unhandled, Stop
<1>5. CASE IrqInit \/ TimerStart \/ TimerStop
  BY <1>5 DEF IrqInit, TimerStart, TimerStop, SetTimer, NoLapic, DataFault, Unhandled, Stop
<1>6. CASE IrqEnable \/ IrqDisable \/ ClearFlag \/ TriggerSwi \/ WaitFlag
  BY <1>6 DEF IrqEnable, IrqDisable, SetIf, ClearFlag, TriggerSwi, WaitFlag, NoLapic, DataFault,
    Unhandled, Stop
<1> QED
  BY <1>1, <1>2, <1>3, <1>4, <1>5, <1>6 DEF Step

\* Every step of the suite is a step of the contract, or none.
LEMMA ContractStep ==
    ASSUME IInv, [Next]_vars
    PROVE  [Contract!Next]_<<Waiting, served>>
<1>a. Interrupts
  BY DEF IInv
<1>b. Waiting \in BOOLEAN /\ Waiting' \in BOOLEAN
  BY DEF Waiting
<1>1. CASE TakeIrq
  <2>1. Waiting /\ ~Waiting' /\ served' = served + 1
    BY <1>1, IrqFacts DEF Waiting
  <2> QED
    BY <1>b, <2>1 DEF Contract!Next, Contract!Serve
<1>2. CASE Step
  <2>1. served' = served
    BY <1>2, StepFacts
  <2>2. ~Waiting
    BY <1>2, StepFacts DEF WaitFlag, Waiting
  <2>3. CASE Waiting'
    BY <1>b, <2>1, <2>2, <2>3 DEF Contract!Next, Contract!Request
  <2>4. CASE ~Waiting'
    BY <1>b, <2>1, <2>2, <2>4
  <2> QED
    BY <2>3, <2>4
<1>3. CASE Halt \/ UNCHANGED vars
  <2>1. Waiting' = Waiting /\ served' = served
    BY <1>3 DEF Halt, vars, irqs, Waiting, Call, Name
  <2> QED
    BY <2>1
<1> QED
  BY <1>1, <1>2, <1>3 DEF Next

\* Each trigger of swi.c runs its handler once and nothing else runs it: the
\* interrupt is taken only while swi.c waits for it, the handler is the
\* benchmark's and the APIC is mapped, so that it ends the interrupt; and
\* nothing else ends the wait (the safety part of OneHandlerRunPerTrigger).
THEOREM SuiteRunsHandlerPerTrigger == Spec => Contract!Safety
<1>1. Init => Contract!Init
  <2> SUFFICES ASSUME Init PROVE Contract!Init
    OBVIOUS
  <2>1. Name = "boot" /\ at = 1 /\ served = 0
    BY DEF Init, Name
  <2>2. Call # "wait_flag"
    BY <2>1, BootProgram DEF Call
  <2>3. Waiting \in BOOLEAN /\ ~Waiting
    BY <2>2 DEF Waiting
  <2> QED
    BY <2>1, <2>3 DEF Contract!Init
<1>2. IInv /\ [Next]_vars => [Contract!Next]_<<Waiting, served>>
  BY ContractStep
<1> QED
  BY <1>1, <1>2, SuiteInvariant, PTL DEF Spec, Contract!Safety

------------------------------------------------------------------------------
(* The decoder *)

\* The only length that decode.c gets wrong: an absolute load of four address
\* bytes, which the address-size prefix asks for.
LEMMA DecoderFacts ==
    ASSUME NEW i \in Instructions, DecodeInstruction(i) \notin {Undecodable, Length(i)}
    PROVE  i.opcode = \ha1 /\ HasPrefix(i, \h67)
<1>1. i.opcode \in Opcodes /\ i.mod \in 0..2 /\ i.rm \in 0..7
  BY DEF Instructions
<1>2. DecodeMov(i) # Undecodable
  BY DEF DecodeInstruction
<1>3. CASE i.opcode = \ha1
  <2>1. DecodeMov(i) = 8
    BY <1>3 DEF DecodeMov, MovOperands
  <2> QED
    BY <1>3, <2>1 DEF DecodeInstruction, Length, ReadPrefixes
<1>4. CASE i.opcode # \ha1
  <2>1. i.opcode \in {\h88, \h89, \h8a, \h8b} /\ RmAccepted(i) /\ DecodeMov(i) = 1 + Displacement(i)
    BY <1>1, <1>2, <1>4 DEF Opcodes, DecodeMov, MovOperands, DecodeRegOperand, Undecodable
  <2>2. SibBytes(i) = 0 /\ ImmediateBytes(i) = 0 /\ i.rm # 5 /\ i.rm # 4
    BY <2>1 DEF RmAccepted, SibBytes, ImmediateBytes
  <2>3. DisplacementBytes(i) = Displacement(i) /\ Displacement(i) \in Nat
    BY <1>1, <2>2 DEF DisplacementBytes, Displacement
  <2>4. DecodeMov(i) = 1 + SibBytes(i) + DisplacementBytes(i) + ImmediateBytes(i)
    BY <2>1, <2>2, <2>3
  <2> QED
    BY <1>2, <1>4, <2>4 DEF DecodeInstruction, Length, ReadPrefixes
<1> QED
  BY <1>3, <1>4

------------------------------------------------------------------------------
(* The heap *)

\* Tables that the runtime set lacks and now gets.
LEMMA LeftFacts ==
    ASSUME NEW N, N \subseteq RuntimeTables \ tables["runtime"]
    PROVE  /\ Cardinality(N) \in Nat
           /\ Cardinality(N) <= Cardinality(RuntimeTables \ tables["runtime"])
           /\ Cardinality(RuntimeTables \ (tables["runtime"] \cup N))
                = Cardinality(RuntimeTables \ tables["runtime"]) - Cardinality(N)
<1> DEFINE T == RuntimeTables
           S == tables["runtime"]
<1>1. IsFiniteSet(T \ S)
  BY TablesFinite, FS_Difference
<1>2. IsFiniteSet(N) /\ Cardinality(N) <= Cardinality(T \ S)
  BY <1>1, FS_Subset
<1>3. T \ (S \cup N) = (T \ S) \ N /\ (T \ S) \cap N = N
  OBVIOUS
<1>4. Cardinality((T \ S) \ N) = Cardinality(T \ S) - Cardinality((T \ S) \cap N)
  BY <1>1, FS_Difference
<1>5. Cardinality(N) \in Nat
  BY <1>2, FS_CardinalityType
<1> HIDE DEF T, S
<1>6. Cardinality(T \ (S \cup N)) = Cardinality(T \ S) - Cardinality(N)
  BY <1>3, <1>4, Zenon
<1> QED
  BY <1>2, <1>5, <1>6, Zenon DEF T, S

\* A set with two members.
LEMMA PairFacts ==
    ASSUME NEW x, NEW y, NEW N, N \subseteq {x, y}
    PROVE  Cardinality(N) \in 0..2
<1> DEFINE X == {x}
           Y == {y}
<1>1. IsFiniteSet(X) /\ IsFiniteSet(Y) /\ Cardinality(X) = 1 /\ Cardinality(Y) = 1
  BY FS_Singleton
<1>2. N \in SUBSET (X \cup Y)
  OBVIOUS
<1> HIDE DEF X, Y
<1>3. IsFiniteSet(X \cap Y)
  BY <1>1, FS_Intersection
<1>4. Cardinality(X \cap Y) \in Nat
  BY <1>3, FS_CardinalityType
<1>5. /\ IsFiniteSet(X \cup Y)
      /\ Cardinality(X \cup Y) = Cardinality(X) + Cardinality(Y) - Cardinality(X \cap Y)
  BY <1>1, FS_Union
<1>6. IsFiniteSet(N) /\ Cardinality(N) <= Cardinality(X \cup Y)
  BY <1>2, <1>5, FS_Subset
<1>7. Cardinality(N) \in Nat
  BY <1>6, FS_CardinalityType
<1> QED
  BY <1>1, <1>4, <1>5, <1>6, <1>7

\* early_mem_init takes at most two tables for the APIC.
LEMMA LapicTables ==
    ASSUME Heap
    PROVE  Cardinality(NewTables("initial", {Lapic})) \in 0..2
<1> DEFINE pdp == <<"pdp", 0>>
           x == <<"pd", Lapic \div 512>>
           y == <<"pt", Lapic>>
           N == NewTables("initial", {Lapic})
<1>1. N = Path(Lapic) \ tables["initial"]
  BY DEF NewTables
<1>2. pdp \in tables["initial"]
  BY DEF Heap
<1>3. N = {pdp, x, y} \ tables["initial"]
  BY <1>1 DEF Path
<1> HIDE DEF pdp, x, y, N
<1>4. N \subseteq {x, y}
  BY <1>2, <1>3
<1>5. Cardinality(N) \in 0..2
  BY <1>4, PairFacts
<1> QED
  BY <1>5 DEF N

\* Boot makes its calls once.
LEMMA BootOnce ==
    ASSUME IInv, status = "run", NEW c \in {"early_mem_init", "irq_init"}, Call = c
    PROVE  ~Booted(c)
<1>1. Name = "boot"
  BY CallFacts DEF BootCalls
<1>2. at \in 1..Len(Program("boot")) /\ Call = Program("boot")[at]
  BY <1>1 DEF IInv, Position, Call
<1>3. Calibrates \in BOOLEAN
  BY X86Assumption
<1>4. at = IF c = "early_mem_init" THEN 1 ELSE 2
  BY <1>2, <1>3, BootProgram
<1>5. ~Before("boot", at, c)
  BY <1>4, BootProgram DEF Before
<1> QED
  BY <1>1, <1>5 DEF Booted, Done

\* Where there is room, no allocation reaches the stack.
LEMMA RoomFits ==
    ASSUME IInv, Room, status = "run"
    PROVE  /\ Call = "early_mem_init" => Fits(Cardinality(NewTables("initial", {Lapic})))
           /\ Call = "irq_init" => Fits(1)
           /\ ~mem_inited => Fits(1 + Cardinality(UNION {Path(a) : a \in RuntimeRanges}))
           /\ mem_inited => \A a \in RuntimeRanges \cup Phys : Fits(Cardinality(NewTables("runtime", {a})))
<1> DEFINE left == Cardinality(RuntimeTables \ tables["runtime"])
           early == IF Booted("early_mem_init") THEN 0 ELSE 2
           irq == IF Booted("irq_init") THEN 0 ELSE 1
           top == IF mem_inited THEN 0 ELSE 1
<1>a. Heap /\ HeapPages - StackPages \in Int
  BY X86Assumption DEF IInv
<1>1. heap_cur + early + irq + top + left <= HeapPages - StackPages
  BY DEF Room
<1>2. early \in 0..2 /\ irq \in 0..1 /\ top \in 0..1 /\ heap_cur \in Nat
  BY <1>a DEF Heap
<1>3. left \in Nat
  BY TablesFinite, FS_Difference, FS_CardinalityType
<1> HIDE DEF left
<1>4. Call = "early_mem_init" => Fits(Cardinality(NewTables("initial", {Lapic})))
  <2> SUFFICES ASSUME Call = "early_mem_init" PROVE Fits(Cardinality(NewTables("initial", {Lapic})))
    OBVIOUS
  <2>1. early = 2
    BY BootOnce
  <2>2. Cardinality(NewTables("initial", {Lapic})) \in 0..2
    BY <1>a, LapicTables
  <2> HIDE DEF early, irq, top
  <2> QED
    BY <1>a, <1>1, <1>2, <1>3, <2>1, <2>2 DEF Fits
<1>5. Call = "irq_init" => Fits(1)
  <2> SUFFICES ASSUME Call = "irq_init" PROVE Fits(1)
    OBVIOUS
  <2>1. irq = 1
    BY BootOnce
  <2> HIDE DEF early, irq, top
  <2> QED
    BY <1>a, <1>1, <1>2, <1>3, <2>1 DEF Fits
<1>6. ~mem_inited => Fits(1 + Cardinality(UNION {Path(a) : a \in RuntimeRanges}))
  <2> DEFINE fresh == UNION {Path(a) : a \in RuntimeRanges}
  <2> SUFFICES ASSUME ~mem_inited PROVE Fits(1 + Cardinality(fresh))
    OBVIOUS
  <2>1. fresh \subseteq RuntimeTables
    BY FreshTables
  <2> HIDE DEF fresh
  <2>2. tables["runtime"] = {} /\ top = 1
    BY <1>a DEF Heap
  <2>3. fresh \subseteq RuntimeTables \ tables["runtime"]
    BY <2>1, <2>2
  <2>4. Cardinality(fresh) <= left /\ Cardinality(fresh) \in Nat
    BY <2>3, LeftFacts DEF left
  <2> HIDE DEF early, irq, top
  <2> QED
    BY <1>a, <1>1, <1>2, <1>3, <2>2, <2>4 DEF Fits
<1>7. ASSUME mem_inited, NEW a \in RuntimeRanges \cup Phys
      PROVE  Fits(Cardinality(NewTables("runtime", {a})))
  <2> DEFINE n == NewTables("runtime", {a})
  <2>1. n = Path(a) \ tables["runtime"]
    BY DEF NewTables
  <2> HIDE DEF n
  <2>2. n \subseteq RuntimeTables \ tables["runtime"]
    BY <2>1, TablesFinite
  <2>3. Cardinality(n) <= left /\ Cardinality(n) \in Nat
    BY <2>2, LeftFacts DEF left
  <2> HIDE DEF early, irq, top
  <2>4. Fits(Cardinality(n))
    BY <1>a, <1>1, <1>2, <1>3, <2>3 DEF Fits
  <2> QED
    BY <2>4 DEF n
<1> QED
  BY <1>4, <1>5, <1>6, <1>7

\* Where there is room, the only step that stops the machine is the load of
\* dfault.c, when the decoder does not know its length or gets it wrong.
LEMMA StopFacts ==
    ASSUME IInv, Room, Next, status = "run", status' \in {"abort", "lost"}
    PROVE  /\ image' = image /\ Call = "read_unmapped"
           /\ status' = "abort" => DecodeInstruction(image.load) = Undecodable
           /\ status' = "lost" => DecodeInstruction(image.load) \notin {Undecodable, Length(image.load)}
<1> USE DEF Calls
<1>r. ~Return
  BY DEF Return
<1>a. Maps /\ Heap
  BY DEF IInv
<1>1. ~EarlyMemInit /\ ~IrqInit
  <2>1. Call = "irq_init" => Lapic \in mapped[cr3]
    BY CallFacts
  <2>2. /\ Call = "early_mem_init" => ~CannotMap("initial", {Lapic})
        /\ Call = "irq_init" => Fits(1)
    BY RoomFits DEF CannotMap, HitsStack, OutOfMemory
  <2>3. Call = "irq_init" => ~HitsStack(1) /\ ~OutOfMemory(1)
    BY <2>2 DEF HitsStack, OutOfMemory
  <2> QED
    BY <1>r, <2>1, <2>2, <2>3 DEF EarlyMemInit, IrqInit, NoLapic, Translates
<1>2. ~MemInit
  <2> DEFINE n == 1 + Cardinality(UNION {Path(a) : a \in RuntimeRanges})
  <2>1. ~mem_inited => ~HitsStack(n) /\ ~OutOfMemory(n)
    BY RoomFits DEF HitsStack, OutOfMemory
  <2> HIDE DEF n
  <2> QED
    BY <1>r, <2>1 DEF MemInit, AlreadyInited, n
<1>3. ~MapPhys /\ ~MapValue
  <2>1. Call = "map_phys" /\ next_phys < PhysEnd => mem_inited /\ next_phys \in Phys
    BY <1>a, CallFacts, X86Assumption DEF Maps, Phys
  <2>2. Call = "map_phys" /\ next_phys < PhysEnd => ~CannotMap("runtime", {next_phys})
    BY <2>1, RoomFits DEF CannotMap, HitsStack, OutOfMemory
  <2> QED
    BY <1>r, <2>2 DEF MapPhys, MapValue
<1>4. ~MmuEnable /\ ~MmuDisable
  <2>1. Image \in mapped["initial"] /\ (Call = "mmu_enable" => Image \in mapped["runtime"])
    BY <1>a, CallFacts DEF Maps, Image, RuntimeRanges
  <2> QED
    BY <1>r, <2>1 DEF MmuEnable, MmuDisable, SwitchTables
<1>5. ~MemReset /\ ~InstallHandlers
  BY <1>r DEF MemReset, InstallHandlers, SetHandler
<1>6. ~UndefinedInstruction /\ ~SyscallTrap
  BY <1>r, CallFacts DEF UndefinedInstruction, SyscallTrap, Trap, Unhandled
<1>7. ~CallUnmapped
  BY <1>r, CallFacts DEF CallUnmapped, FetchFault, Translates, Unhandled
<1>8. ~AccessImage /\ ~AccessPhys /\ ~AccessDevice
  <2>1. /\ Image \in mapped[cr3] /\ (Call = "access_device" => Lapic \in mapped[cr3])
        /\ Call = "access_phys" => Phys \subseteq mapped[cr3]
    BY CallFacts
  <2> QED
    BY <1>r, <2>1 DEF AccessImage, AccessPhys, AccessDevice, Access, Translates, Phys
<1>9. ~TimerStart /\ ~TimerStop /\ ~TriggerSwi
  <2>1. Call \in {"timer_start", "timer_stop", "trigger_swi"} => Lapic \in mapped[cr3]
    BY CallFacts
  <2> QED
    BY <1>r, <2>1 DEF TimerStart, TimerStop, SetTimer, TriggerSwi, NoLapic, Translates
<1>10. ~IrqEnable /\ ~IrqDisable /\ ~ClearFlag /\ ~WaitFlag
  BY <1>r DEF IrqEnable, IrqDisable, SetIf, ClearFlag, WaitFlag
<1>11. ~TakeIrq
  BY IrqFacts
<1>12. ReadUnmapped
  BY <1>1, <1>2, <1>3, <1>4, <1>5, <1>6, <1>7, <1>8, <1>9, <1>10, <1>11 DEF Next, Step, Halt
<1> QED
  BY <1>12, <1>r, CallFacts DEF ReadUnmapped, DataFault, Unhandled, Stop, Translates

\* Steps that take no page keep the room.
LEMMA RoomStays ==
    ASSUME IInv, Room, status = "run", image' = image, Return \/ UNCHANGED <<b, at>>,
           UNCHANGED <<heap_cur, tables, mem_inited>>
    PROVE  Room'
<1>1. \A c \in {"early_mem_init", "irq_init"} : Booted(c) => Booted(c)' \/ status' = "done"
  <2>1. CASE Return
    BY <2>1, ReturnFacts DEF IInv
  <2>2. CASE UNCHANGED <<b, at>>
    BY <2>2 DEF Booted, Done, Name
  <2> QED
    BY <2>1, <2>2
<1> DEFINE left == Cardinality(RuntimeTables \ tables["runtime"])
<1>2. left \in Nat /\ left' = left /\ heap_cur \in Nat /\ HeapPages - StackPages \in Int
  <2>1. left \in Nat
    BY TablesFinite, FS_Difference, FS_CardinalityType
  <2> QED
    BY <2>1, X86Assumption DEF IInv, Heap, RuntimeTables
<1> HIDE DEF left
<1> QED
  BY <1>1, <1>2 DEF Room, left

\* A page or a table that was counted on and is taken.
LEMMA RoomTaken ==
    ASSUME IInv, Room, EarlyMemInit \/ IrqInit \/ MemInit \/ MapPhys \/ MapValue
    PROVE  Room'
<1> USE DEF Calls
<1>a. /\ Maps /\ Heap /\ heap_cur \in Nat /\ HeapPages - StackPages \in Int
      /\ tables = [s \in Sets |-> tables[s]]
  BY X86Assumption DEF IInv, Heap
<1>b. status = "run" /\ image' = image
  BY DEF EarlyMemInit, IrqInit, MemInit, MapPhys, MapValue
<1> DEFINE left == Cardinality(RuntimeTables \ tables["runtime"])
           early == IF Booted("early_mem_init") THEN 0 ELSE 2
           irq == IF Booted("irq_init") THEN 0 ELSE 1
           top == IF mem_inited THEN 0 ELSE 1
<1>c. heap_cur + early + irq + top + left <= HeapPages - StackPages
  BY <1>b DEF Room
<1>d. early \in 0..2 /\ irq \in 0..1 /\ top \in 0..1
  OBVIOUS
<1>e. left \in Nat
  BY TablesFinite, FS_Difference, FS_CardinalityType
<1>f. Return => /\ status' # "done" /\ (Booted("early_mem_init") \/ Call = "early_mem_init") => early' = 0
                /\ status' # "done" /\ (Booted("irq_init") \/ Call = "irq_init") => irq' = 0
                /\ early' \in {0, 2} /\ irq' \in {0, 1}
  BY <1>b, ReturnFacts DEF IInv
<1>g. SUFFICES ASSUME status' # "done"
               PROVE  heap_cur' + early' + irq' + top' + left' <= HeapPages - StackPages
  BY DEF Room
<1>h. mem_inited' = mem_inited => top' = top
  OBVIOUS
<1>l. left' = Cardinality(RuntimeTables \ tables'["runtime"])
  BY DEF RuntimeTables
<1>i. tables'["runtime"] = tables["runtime"] => left' = left
  BY <1>l
<1>j. early = 0 \/ ~Booted("early_mem_init")
  OBVIOUS
<1>k. irq = 0 \/ ~Booted("irq_init")
  OBVIOUS
<1>1. CASE Stops
  BY <1>1, <1>b, <1>g, RoomStays DEF Stops, Stop, paging, Room
<1>2. CASE EarlyMemInit /\ ~Stops
  <2>1. /\ Call = "early_mem_init" /\ CreateMappings("initial", {Lapic}) /\ Return
        /\ mem_inited' = mem_inited
    BY <1>2 DEF EarlyMemInit, CannotMap, Stops
  <2>2. early = 2
    BY <1>b, <2>1, BootOnce
  <2>3. heap_cur' = heap_cur + Cardinality(NewTables("initial", {Lapic}))
        /\ tables'["runtime"] = tables["runtime"]
    BY <2>1, <1>a DEF CreateMappings, Allocate, Sets
  <2>4. Cardinality(NewTables("initial", {Lapic})) \in 0..2
    BY <1>a, LapicTables
  <2>5. early' = 0 /\ irq' <= irq /\ irq' \in 0..1 /\ top' = top /\ left' = left
    BY <1>f, <1>g, <1>h, <1>i, <1>k, <2>1, <2>3
  <2> HIDE DEF early, irq, top, left
  <2> QED
    BY <1>a, <1>c, <1>d, <1>e, <2>2, <2>3, <2>4, <2>5
<1>3. CASE IrqInit /\ ~Stops
  <2>0. Call = "irq_init" /\ Lapic \in mapped[cr3]
    BY <1>b, <1>3, CallFacts DEF IrqInit
  <2>1. /\ Allocate(1) /\ Return /\ mem_inited' = mem_inited /\ tables' = tables
    BY <1>3, <2>0 DEF IrqInit, Stops, NoLapic, Translates
  <2>2. irq = 1
    BY <1>b, <2>0, BootOnce
  <2>3. heap_cur' = heap_cur + 1
    BY <2>1 DEF Allocate
  <2>5. irq' = 0 /\ early' <= early /\ early' \in 0..2 /\ top' = top /\ left' = left
    BY <1>f, <1>g, <1>h, <1>i, <1>j, <2>0, <2>1
  <2> HIDE DEF early, irq, top, left
  <2> QED
    BY <1>a, <1>c, <1>d, <1>e, <2>2, <2>3, <2>5
<1>4. CASE MemInit /\ ~Stops /\ ~mem_inited
  <2> DEFINE fresh == UNION {Path(a) : a \in RuntimeRanges}
  <2>1. /\ Allocate(1 + Cardinality(fresh)) /\ tables' = [tables EXCEPT !["runtime"] = fresh]
        /\ mem_inited' = TRUE /\ Return
    BY <1>4 DEF MemInit, Stops, AlreadyInited
  <2>2. fresh \subseteq RuntimeTables /\ tables["runtime"] = {}
    BY <1>4, <1>a, FreshTables DEF Heap
  <2> HIDE DEF fresh
  <2>3. tables'["runtime"] = tables["runtime"] \cup fresh
    BY <1>a, <2>1, <2>2 DEF Sets
  <2>4. left' = left - Cardinality(fresh) /\ Cardinality(fresh) \in Nat
    <3>1. fresh \subseteq RuntimeTables \ tables["runtime"]
      BY <2>2
    <3> QED
      BY <1>l, <2>3, <3>1, LeftFacts, Zenon
  <2>5. heap_cur' = heap_cur + 1 + Cardinality(fresh) /\ top = 1 /\ top' = 0
    BY <1>4, <1>a, <2>1, <2>4 DEF Allocate
  <2>6. early' <= early /\ early' \in 0..2 /\ irq' <= irq /\ irq' \in 0..1
    BY <1>f, <1>g, <1>j, <1>k, <2>1
  <2> HIDE DEF early, irq, top, left
  <2> QED
    BY <1>a, <1>c, <1>d, <1>e, <2>4, <2>5, <2>6
<1>5. CASE MemInit /\ ~Stops /\ mem_inited
  BY <1>5, <1>b, <1>g, RoomStays DEF MemInit, AlreadyInited, paging, Room
<1>6. ASSUME NEW a \in RuntimeRanges \cup Phys, CreateMappings("runtime", {a}), mem_inited' = mem_inited,
             Return \/ UNCHANGED <<b, at>>
      PROVE  heap_cur' + early' + irq' + top' + left' <= HeapPages - StackPages
  <2> DEFINE n == NewTables("runtime", {a})
  <2>1. n = Path(a) \ tables["runtime"]
    BY DEF NewTables
  <2>2. heap_cur' = heap_cur + Cardinality(n) /\ tables' = [tables EXCEPT !["runtime"] = @ \cup n]
    BY <1>6 DEF CreateMappings, Allocate
  <2> HIDE DEF n
  <2>3. n \subseteq RuntimeTables \ tables["runtime"]
    BY <2>1, TablesFinite
  <2>4. tables'["runtime"] = tables["runtime"] \cup n
    BY <1>a, <2>2 DEF Sets
  <2>5. left' = left - Cardinality(n) /\ Cardinality(n) \in Nat
    BY <1>l, <2>3, <2>4, LeftFacts, Zenon
  <2>6. early' <= early /\ early' \in 0..2 /\ irq' <= irq /\ irq' \in 0..1 /\ top' = top
    <3>1. CASE Return
      BY <1>6, <1>f, <1>g, <1>h, <1>j, <1>k, <3>1
    <3>2. CASE UNCHANGED <<b, at>>
      BY <1>6, <1>b, <1>h, <3>2 DEF Booted, Done, Name
    <3> QED
      BY <1>6, <3>1, <3>2
  <2> HIDE DEF early, irq, top, left
  <2> QED
    BY <1>a, <1>c, <1>d, <1>e, <2>2, <2>5, <2>6
<1>7. CASE MapPhys /\ ~Stops /\ next_phys < PhysEnd
  <2>1. next_phys \in Phys
    BY <1>7, <1>a, X86Assumption DEF Maps, Phys
  <2>2. next_phys # PhysEnd
    BY <1>7, <1>a, X86Assumption DEF Maps
  <2>3. CreateMappings("runtime", {next_phys}) /\ mem_inited' = mem_inited /\ UNCHANGED <<b, at>>
    BY <1>7, <2>2 DEF MapPhys, CannotMap, Stops
  <2> QED
    BY <1>6, <2>1, <2>3
<1>8. CASE MapPhys /\ ~(next_phys < PhysEnd)
  BY <1>8, <1>b, <1>g, RoomStays DEF MapPhys, Room
<1>9. CASE MapValue
  BY <1>9, <1>6 DEF MapValue, RuntimeRanges
<1> QED
  BY <1>1, <1>2, <1>3, <1>4, <1>5, <1>7, <1>8, <1>9

LEMMA InitRoom == HeapSuffices /\ Init => Room
<1> SUFFICES ASSUME HeapSuffices, Init PROVE Room
  OBVIOUS
<1>1. heap_cur = 0 /\ tables["runtime"] = {} /\ ~mem_inited
  BY DEF Init
<1>2. RuntimeTables \ tables["runtime"] = RuntimeTables
  BY <1>1
<1>3. Cardinality(RuntimeTables) \in Nat
  BY TablesFinite, FS_CardinalityType
<1>4. Name = "boot" /\ at = 1
  BY DEF Init, Name
<1>5. ~Booted("early_mem_init") /\ ~Booted("irq_init")
  BY <1>4, BeforeFacts DEF Booted, Done
<1>6. HeapPages - StackPages \in Int /\ Cardinality(RuntimeTables) + 4 <= HeapPages - StackPages
  BY X86Assumption DEF HeapSuffices
<1> QED
  BY <1>1, <1>2, <1>3, <1>5, <1>6 DEF Room

LEMMA StepRoom == IInv /\ Room /\ [Next]_vars => Room'
<1> SUFFICES ASSUME IInv, Room, [Next]_vars PROVE Room'
  OBVIOUS
<1> USE DEF Calls
<1>1. CASE Halt \/ UNCHANGED vars
  <2>1. UNCHANGED <<image, b, at, status, heap_cur, tables, mem_inited>>
    BY <1>1 DEF Halt, vars, paging
  <2>2. \A c : Booted(c)' <=> Booted(c)
    BY <2>1 DEF Booted, Done, Name
  <2> QED
    BY <2>1, <2>2 DEF Room, RuntimeTables
<1>2. CASE EarlyMemInit \/ IrqInit \/ MemInit \/ MapPhys \/ MapValue
  BY <1>2, RoomTaken
<1>3. CASE TakeIrq
  BY <1>3, IrqFacts, RoomStays DEF paging
<1>4. CASE MmuEnable \/ MmuDisable \/ MemReset \/ InstallHandlers
  BY <1>4, RoomStays DEF MmuEnable, MmuDisable, SwitchTables, MemReset, InstallHandlers, SetHandler,
    Stop, paging
<1>5. CASE UndefinedInstruction \/ SyscallTrap \/ ReadUnmapped \/ CallUnmapped
  BY <1>5, RoomStays DEF UndefinedInstruction, SyscallTrap, Trap, ReadUnmapped, CallUnmapped,
    DataFault, FetchFault, Unhandled, Stop, paging
<1>6. CASE AccessImage \/ AccessPhys \/ AccessDevice \/ TimerStart \/ TimerStop
  BY <1>6, RoomStays DEF AccessImage, AccessPhys, AccessDevice, Access, TimerStart, TimerStop,
    SetTimer, NoLapic, DataFault, Unhandled, Stop, paging
<1>7. CASE IrqEnable \/ IrqDisable \/ ClearFlag \/ TriggerSwi \/ WaitFlag
  BY <1>7, RoomStays DEF IrqEnable, IrqDisable, SetIf, ClearFlag, TriggerSwi, WaitFlag, NoLapic,
    DataFault, Unhandled, Stop, paging
<1> QED
  BY <1>1, <1>2, <1>3, <1>4, <1>5, <1>6, <1>7 DEF Next, Step

LEMMA RoomInvariant ==
    ASSUME HeapSuffices
    PROVE  Spec => [](IInv /\ Room)
<1>1. Init => IInv /\ Room
  BY InitIInv, InitRoom
<1>2. IInv /\ Room /\ [Next]_vars => (IInv /\ Room)'
  BY StepIInv, StepRoom
<1> QED
  BY <1>1, <1>2, PTL DEF Spec

\* A machine that has stopped stays as it is.
LEMMA StoppedStays ==
    ASSUME [Next]_vars, status # "run"
    PROVE  UNCHANGED <<image, status>>
<1>1. ~Step
  BY StepFacts
<1> QED
  BY <1>1 DEF Next, TakeIrq, Halt, vars

\* What stopped the machine, if anything but the end of the suite did.
LEMMA StopInvariant ==
    ASSUME HeapSuffices
    PROVE  Spec => [](NoAbort /\ NeverLost)
<1> DEFINE Q == NoAbort /\ NeverLost
<1>1. Init => Q
  BY DEF Init, NoAbort, NeverLost
<1>2. IInv /\ Room /\ Q /\ [Next]_vars => Q'
  <2> SUFFICES ASSUME IInv, Room, Q, [Next]_vars PROVE Q'
    OBVIOUS
  <2>1. CASE status # "run"
    BY <2>1, StoppedStays DEF NoAbort, NeverLost
  <2>2. CASE status = "run" /\ status' \notin {"abort", "lost"}
    BY <2>2 DEF NoAbort, NeverLost
  <2>3. CASE status = "run" /\ status' \in {"abort", "lost"}
    <3>1. Next
      BY <2>3 DEF vars
    <3>2. /\ image' = image
          /\ status' = "abort" => DecodeInstruction(image.load) = Undecodable
          /\ status' = "lost" => DecodeInstruction(image.load) \notin {Undecodable, Length(image.load)}
      BY <2>3, <3>1, StopFacts
    <3>3. image.load \in Instructions
      BY ImagesAssumption DEF IInv, Position
    <3>4. status' = "lost" => image.load.opcode = \ha1 /\ HasPrefix(image.load, \h67)
      BY <3>2, <3>3, DecoderFacts
    <3> QED
      BY <3>2, <3>4 DEF NoAbort, NeverLost
  <2> QED
    BY <2>1, <2>2, <2>3
<1> QED
  BY <1>1, <1>2, RoomInvariant, PTL DEF Spec

\* On a platform whose heap holds the tables of its physical memory, no image
\* ends in arch_abort, in any link order and whatever was mapped before: not
\* for an exception without a handler and not for a heap that is used up.  Only
\* a load that the decoder does not know does.
THEOREM SuiteNoAbort ==
    ASSUME HeapSuffices
    PROVE  Spec => []NoAbort
BY StopInvariant, PTL

\* Nor does execution run wild there: no handler gets the other kind of page
\* fault or resumes inside an instruction, the code stays mapped, and no page
\* of the stack becomes a table.  The exception is the one length that decode.c
\* gets wrong.
THEOREM SuiteNeverLost ==
    ASSUME HeapSuffices
    PROVE  Spec => []NeverLost
BY StopInvariant, PTL

=============================================================================
