--------------------------- MODULE Armv8SuiteProofs ---------------------------
(***************************************************************************)
(* Proofs about the suite on ARMv8, for every link order and every number  *)
(* of iterations.                                                          *)
(***************************************************************************)
EXTENDS Armv8Suite, TLAPS

\* Call c comes before position i in the program of benchmark k.
Before(k, i, c) == \E j \in 1..(i - 1) : Program(k)[j] = c

\* What the program says of the MMU and of the exception level at position i.
MmuOn(k, i) == Before(k, i, "mmu_enable") /\ ~Before(k, i, "mmu_disable")
AtEl1(k, i) == Before(k, i, "priv_enter") /\ ~Before(k, i, "priv_leave")

------------------------------------------------------------------------------
(* The programs, call by call.  Provers do not compute concatenations, so   *)
(* each program is spelled out once.                                        *)

\* Program(k) is p, with the kernel's loop from position first to last.
Spells(k, p, first, last) ==
    /\ Len(Program(k)) = Len(p) /\ \A i \in 1..Len(p) : Program(k)[i] = p[i]
    /\ LoopStart(k) = first /\ LoopEnd(k) = last

\* undef.c, dfault.c and ifault.c install a handler, x, and trap, y.
LEMMA TrapProgram ==
    ASSUME NEW k \in DOMAIN Benchmarks, NEW x, NEW y,
           Benchmarks[k] = WithMmu(Append(MmuInit, x), <<y>>)
    PROVE  Spells(k, <<"mem_init", "mmu_enable", x, y, "mmu_disable", "mem_init">>, 4, 4)
<1>1. /\ Benchmarks[k].init = Append(MmuInit, x) /\ Benchmarks[k].control = <<>>
      /\ Benchmarks[k].kernel = <<y>>
      /\ Benchmarks[k].cleanup = MmuCleanup /\ ~Benchmarks[k].priv
  BY DEF WithMmu
<1>2. /\ LoopStart(k) = Len((Append(MmuInit, x) \o <<>>) \o <<>>) + 1
      /\ LoopEnd(k) = Len(((Append(MmuInit, x) \o <<>>) \o <<>>) \o <<y>>)
      /\ Program(k)
           = (((Append(MmuInit, x) \o <<>>) \o <<>>) \o <<y>>)
                \o (<<>> \o MmuCleanup \o <<>>)
  BY <1>1 DEF LoopStart, LoopEnd, BeforeKernel, Program, AfterKernel, IfPriv, Control
<1> QED
  BY <1>2 DEF MmuInit, PhysInit, MmuCleanup, Spells

\* tlb-flush.c and tlb-evict.c.
LEMMA PhysProgram ==
    ASSUME NEW k \in DOMAIN Benchmarks, Benchmarks[k] = WithMmu(PhysInit, <<"access_phys">>)
    PROVE  Spells(k, <<"mem_init", "map_phys", "mmu_enable", "access_phys", "mmu_disable", "mem_init">>, 4, 4)
<1>1. /\ Benchmarks[k].init = PhysInit /\ Benchmarks[k].control = <<>>
      /\ Benchmarks[k].kernel = <<"access_phys">>
      /\ Benchmarks[k].cleanup = MmuCleanup /\ ~Benchmarks[k].priv
  BY DEF WithMmu
<1>2. /\ LoopStart(k) = Len((PhysInit \o <<>>) \o <<>>) + 1
      /\ LoopEnd(k) = Len(((PhysInit \o <<>>) \o <<>>) \o <<"access_phys">>)
      /\ Program(k)
           = (((PhysInit \o <<>>) \o <<>>) \o <<"access_phys">>)
                \o (<<>> \o MmuCleanup \o <<>>)
  BY <1>1 DEF LoopStart, LoopEnd, BeforeKernel, Program, AfterKernel, IfPriv, Control
<1> QED
  BY <1>2 DEF MmuInit, PhysInit, MmuCleanup, Spells

\* large-blocks.c, and memory-hot.c without the MMU.
LEMMA ControlProgram ==
    ASSUME NEW k \in DOMAIN Benchmarks, Benchmarks[k] = Controlled(NoMmu(<<"access_image">>))
    PROVE  Spells(k, <<"access_image", "access_image">>, 2, 2)
<1>1. /\ Benchmarks[k].init = <<>> /\ Benchmarks[k].control = <<"access_image">>
      /\ Benchmarks[k].kernel = <<"access_image">>
      /\ Benchmarks[k].cleanup = <<>> /\ ~Benchmarks[k].priv
      /\ Benchmarks[k].control # <<>>
  BY DEF NoMmu, Controlled
<1>2. /\ LoopStart(k) = Len((<<>> \o (<<>> \o <<"access_image">> \o <<>>)) \o <<>>) + 1
      /\ LoopEnd(k) = Len(((<<>> \o (<<>> \o <<"access_image">> \o <<>>)) \o <<>>) \o <<"access_image">>)
      /\ Program(k)
           = (((<<>> \o (<<>> \o <<"access_image">> \o <<>>)) \o <<>>) \o <<"access_image">>)
                \o (<<>> \o <<>> \o <<>>)
  BY <1>1 DEF LoopStart, LoopEnd, BeforeKernel, Program, AfterKernel, IfPriv, Control
<1> QED
  BY <1>2 DEF MmuInit, PhysInit, MmuCleanup, Spells

\* Dispatch, device-access.c and coprocessor.c.
LEMMA PlainProgram ==
    ASSUME NEW k \in DOMAIN Benchmarks, Benchmarks[k] = NoMmu(<<"access_image">>)
    PROVE  Spells(k, <<"access_image">>, 1, 1)
<1>1. /\ Benchmarks[k].init = <<>> /\ Benchmarks[k].control = <<>>
      /\ Benchmarks[k].kernel = <<"access_image">>
      /\ Benchmarks[k].cleanup = <<>> /\ ~Benchmarks[k].priv
  BY DEF NoMmu
<1>2. /\ LoopStart(k) = Len((<<>> \o <<>>) \o <<>>) + 1
      /\ LoopEnd(k) = Len(((<<>> \o <<>>) \o <<>>) \o <<"access_image">>)
      /\ Program(k)
           = (((<<>> \o <<>>) \o <<>>) \o <<"access_image">>)
                \o (<<>> \o <<>> \o <<>>)
  BY <1>1 DEF LoopStart, LoopEnd, BeforeKernel, Program, AfterKernel, IfPriv, Control
<1> QED
  BY <1>2 DEF MmuInit, PhysInit, MmuCleanup, Spells

\* syscall.c
LEMMA SyscallProgram ==
    Spells("syscall", <<"mem_init", "mmu_enable", "svc_0", "mmu_disable", "mem_init">>, 3, 3)
<1>1. /\ Benchmarks["syscall"].init = MmuInit /\ Benchmarks["syscall"].control = <<>>
      /\ Benchmarks["syscall"].kernel = <<"svc_0">>
      /\ Benchmarks["syscall"].cleanup = MmuCleanup /\ ~Benchmarks["syscall"].priv
  BY DEF Benchmarks, WithMmu, Syscall
<1>2. /\ LoopStart("syscall") = Len((MmuInit \o <<>>) \o <<>>) + 1
      /\ LoopEnd("syscall") = Len(((MmuInit \o <<>>) \o <<>>) \o <<"svc_0">>)
      /\ Program("syscall")
           = (((MmuInit \o <<>>) \o <<>>) \o <<"svc_0">>)
                \o (<<>> \o MmuCleanup \o <<>>)
  BY <1>1 DEF LoopStart, LoopEnd, BeforeKernel, Program, AfterKernel, IfPriv, Control
<1>3. /\ Program("syscall")[1] = "mem_init" /\ Program("syscall")[2] = "mmu_enable"
      /\ Program("syscall")[3] = "svc_0" /\ Program("syscall")[4] = "mmu_disable"
      /\ Program("syscall")[5] = "mem_init"
  BY <1>2 DEF MmuInit, MmuCleanup
<1>4. Len(Program("syscall")) = 5
  BY <1>2 DEF MmuInit, MmuCleanup
<1>5. LoopStart("syscall") = 3 /\ LoopEnd("syscall") = 3
  BY <1>2 DEF MmuInit
<1> QED
  BY <1>3, <1>4, <1>5 DEF Spells

\* small-blocks.c
LEMMA SmallBlocksProgram ==
    Spells("small_blocks", <<"access_image", "access_image", "access_image">>, 3, 3)
<1>1. /\ Benchmarks["small_blocks"].init = <<"access_image">> /\ Benchmarks["small_blocks"].control = <<"access_image">>
      /\ Benchmarks["small_blocks"].kernel = <<"access_image">>
      /\ Benchmarks["small_blocks"].cleanup = <<>> /\ ~Benchmarks["small_blocks"].priv
  BY DEF Benchmarks, NoMmu, Controlled, SmallBlocks
<1>2. /\ LoopStart("small_blocks") = Len((<<"access_image">> \o (<<>> \o <<"access_image">> \o <<>>)) \o <<>>) + 1
      /\ LoopEnd("small_blocks") = Len(((<<"access_image">> \o (<<>> \o <<"access_image">> \o <<>>)) \o <<>>) \o <<"access_image">>)
      /\ Program("small_blocks")
           = (((<<"access_image">> \o (<<>> \o <<"access_image">> \o <<>>)) \o <<>>) \o <<"access_image">>)
                \o (<<>> \o <<>> \o <<>>)
  BY <1>1 DEF LoopStart, LoopEnd, BeforeKernel, Program, AfterKernel, IfPriv, Control
<1> QED
  BY <1>2 DEF MmuInit, PhysInit, MmuCleanup, Spells

\* memory-hot.c with the MMU
LEMMA HotMmuProgram ==
    Spells("hot_mmu", <<"mem_init", "mmu_enable", "access_image", "access_image", "mmu_disable", "mem_init">>, 4, 4)
<1>1. /\ Benchmarks["hot_mmu"].init = MmuInit /\ Benchmarks["hot_mmu"].control = <<"access_image">>
      /\ Benchmarks["hot_mmu"].kernel = <<"access_image">>
      /\ Benchmarks["hot_mmu"].cleanup = MmuCleanup /\ ~Benchmarks["hot_mmu"].priv
  BY DEF Benchmarks, WithMmu, Controlled, HotMmu
<1>2. /\ LoopStart("hot_mmu") = Len((MmuInit \o (<<>> \o <<"access_image">> \o <<>>)) \o <<>>) + 1
      /\ LoopEnd("hot_mmu") = Len(((MmuInit \o (<<>> \o <<"access_image">> \o <<>>)) \o <<>>) \o <<"access_image">>)
      /\ Program("hot_mmu")
           = (((MmuInit \o (<<>> \o <<"access_image">> \o <<>>)) \o <<>>) \o <<"access_image">>)
                \o (<<>> \o MmuCleanup \o <<>>)
  BY <1>1 DEF LoopStart, LoopEnd, BeforeKernel, Program, AfterKernel, IfPriv, Control
<1> QED
  BY <1>2 DEF MmuInit, PhysInit, MmuCleanup, Spells

\* memory-cold.c without the MMU
LEMMA ColdNoMmuProgram ==
    Spells("cold_nommu", <<"access_image", "access_phys">>, 2, 2)
<1>1. /\ Benchmarks["cold_nommu"].init = <<>> /\ Benchmarks["cold_nommu"].control = <<"access_image">>
      /\ Benchmarks["cold_nommu"].kernel = <<"access_phys">>
      /\ Benchmarks["cold_nommu"].cleanup = <<>> /\ ~Benchmarks["cold_nommu"].priv
  BY DEF Benchmarks, NoMmu, Controlled, ColdNoMmu
<1>2. /\ LoopStart("cold_nommu") = Len((<<>> \o (<<>> \o <<"access_image">> \o <<>>)) \o <<>>) + 1
      /\ LoopEnd("cold_nommu") = Len(((<<>> \o (<<>> \o <<"access_image">> \o <<>>)) \o <<>>) \o <<"access_phys">>)
      /\ Program("cold_nommu")
           = (((<<>> \o (<<>> \o <<"access_image">> \o <<>>)) \o <<>>) \o <<"access_phys">>)
                \o (<<>> \o <<>> \o <<>>)
  BY <1>1 DEF LoopStart, LoopEnd, BeforeKernel, Program, AfterKernel, IfPriv, Control
<1> QED
  BY <1>2 DEF MmuInit, PhysInit, MmuCleanup, Spells

\* memory-cold.c with the MMU
LEMMA ColdMmuProgram ==
    Spells("cold_mmu", <<"mem_init", "map_phys", "mmu_enable", "access_image", "access_phys", "mmu_disable", "mem_init">>, 5, 5)
<1>1. /\ Benchmarks["cold_mmu"].init = PhysInit /\ Benchmarks["cold_mmu"].control = <<"access_image">>
      /\ Benchmarks["cold_mmu"].kernel = <<"access_phys">>
      /\ Benchmarks["cold_mmu"].cleanup = MmuCleanup /\ ~Benchmarks["cold_mmu"].priv
  BY DEF Benchmarks, WithMmu, Controlled, ColdMmu
<1>2. /\ LoopStart("cold_mmu") = Len((PhysInit \o (<<>> \o <<"access_image">> \o <<>>)) \o <<>>) + 1
      /\ LoopEnd("cold_mmu") = Len(((PhysInit \o (<<>> \o <<"access_image">> \o <<>>)) \o <<>>) \o <<"access_phys">>)
      /\ Program("cold_mmu")
           = (((PhysInit \o (<<>> \o <<"access_image">> \o <<>>)) \o <<>>) \o <<"access_phys">>)
                \o (<<>> \o MmuCleanup \o <<>>)
  BY <1>1 DEF LoopStart, LoopEnd, BeforeKernel, Program, AfterKernel, IfPriv, Control
<1> QED
  BY <1>2 DEF MmuInit, PhysInit, MmuCleanup, Spells

\* memory-nonpriv.c
LEMMA NonPrivProgram ==
    Spells("nonpriv", <<"mem_init", "map_value", "mmu_enable", "priv_enter", "access_image", "priv_leave",
             "mmu_disable", "mem_init", "priv_leave">>, 5, 5)
<1>1. /\ Benchmarks["nonpriv"].init = <<"mem_init", "map_value", "mmu_enable">> /\ Benchmarks["nonpriv"].control = <<>>
      /\ Benchmarks["nonpriv"].kernel = <<"access_image">>
      /\ Benchmarks["nonpriv"].cleanup = MmuCleanup /\ Benchmarks["nonpriv"].priv
  BY DEF Benchmarks, WithMmu, NonPriv
<1>2. /\ LoopStart("nonpriv") = Len((<<"mem_init", "map_value", "mmu_enable">> \o <<>>) \o <<"priv_enter">>) + 1
      /\ LoopEnd("nonpriv") = Len(((<<"mem_init", "map_value", "mmu_enable">> \o <<>>) \o <<"priv_enter">>) \o <<"access_image">>)
      /\ Program("nonpriv")
           = (((<<"mem_init", "map_value", "mmu_enable">> \o <<>>) \o <<"priv_enter">>) \o <<"access_image">>)
                \o (<<"priv_leave">> \o MmuCleanup \o <<"priv_leave">>)
  BY <1>1 DEF LoopStart, LoopEnd, BeforeKernel, Program, AfterKernel, IfPriv, Control
<1>3. /\ Program("nonpriv")[1] = "mem_init" /\ Program("nonpriv")[2] = "map_value"
      /\ Program("nonpriv")[3] = "mmu_enable" /\ Program("nonpriv")[4] = "priv_enter"
      /\ Program("nonpriv")[5] = "access_image" /\ Program("nonpriv")[6] = "priv_leave"
      /\ Program("nonpriv")[7] = "mmu_disable" /\ Program("nonpriv")[8] = "mem_init"
      /\ Program("nonpriv")[9] = "priv_leave"
  BY <1>2 DEF MmuInit, MmuCleanup
<1>4. Len(Program("nonpriv")) = 9
  BY <1>2 DEF MmuInit, MmuCleanup
<1>5. LoopStart("nonpriv") = 5 /\ LoopEnd("nonpriv") = 5
  BY <1>2 DEF MmuInit
<1> QED
  BY <1>3, <1>4, <1>5 DEF Spells

\* swi.c
LEMMA SwiProgram ==
    Spells("swi", <<"mem_init", "mmu_enable", "irq_install_handler", "irq_enable", "clear_flag",
             "trigger_swi", "wait_flag", "irq_disable", "mmu_disable", "mem_init">>, 5, 7)
<1>1. /\ Benchmarks["swi"].init = MmuInit \o <<"irq_install_handler", "irq_enable">> /\ Benchmarks["swi"].control = <<>>
      /\ Benchmarks["swi"].kernel = <<"clear_flag", "trigger_swi", "wait_flag">>
      /\ Benchmarks["swi"].cleanup = <<"irq_disable">> \o MmuCleanup /\ ~Benchmarks["swi"].priv
  BY DEF Benchmarks, WithMmu, Swi
<1>2. /\ LoopStart("swi") = Len(((MmuInit \o <<"irq_install_handler", "irq_enable">>) \o <<>>) \o <<>>) + 1
      /\ LoopEnd("swi") = Len((((MmuInit \o <<"irq_install_handler", "irq_enable">>) \o <<>>) \o <<>>) \o <<"clear_flag", "trigger_swi", "wait_flag">>)
      /\ Program("swi")
           = ((((MmuInit \o <<"irq_install_handler", "irq_enable">>) \o <<>>) \o <<>>) \o <<"clear_flag", "trigger_swi", "wait_flag">>)
                \o (<<>> \o (<<"irq_disable">> \o MmuCleanup) \o <<>>)
  BY <1>1 DEF LoopStart, LoopEnd, BeforeKernel, Program, AfterKernel, IfPriv, Control
<1>3. /\ Program("swi")[1] = "mem_init" /\ Program("swi")[2] = "mmu_enable"
      /\ Program("swi")[3] = "irq_install_handler" /\ Program("swi")[4] = "irq_enable"
      /\ Program("swi")[5] = "clear_flag" /\ Program("swi")[6] = "trigger_swi"
      /\ Program("swi")[7] = "wait_flag" /\ Program("swi")[8] = "irq_disable"
      /\ Program("swi")[9] = "mmu_disable" /\ Program("swi")[10] = "mem_init"
  BY <1>2 DEF MmuInit, MmuCleanup
<1>4. Len(Program("swi")) = 10
  BY <1>2 DEF MmuInit, MmuCleanup
<1>5. LoopStart("swi") = 5 /\ LoopEnd("swi") = 7
  BY <1>2 DEF MmuInit
<1> QED
  BY <1>3, <1>4, <1>5 DEF Spells

------------------------------------------------------------------------------
(* What all seventeen programs have in common *)

\* The kernel is not empty, and neither it nor the last call switches the MMU,
\* maps memory, or (unless it is already left) changes the exception level.
Switches == {"mmu_enable", "mmu_disable", "priv_enter", "priv_leave", "map_phys"}
LoopShape(k) ==
    /\ LoopStart(k) \in Nat /\ LoopEnd(k) \in Nat /\ Len(Program(k)) \in Nat
    /\ 1 <= LoopStart(k) /\ LoopStart(k) <= LoopEnd(k) /\ LoopEnd(k) <= Len(Program(k))
    /\ \A i \in LoopStart(k)..LoopEnd(k) : Program(k)[i] \notin Switches
    /\ Program(k)[Len(Program(k))] \notin Switches \ {"priv_leave"}
EndShape(k) ==
    LET n == Len(Program(k)) IN
    /\ ~MmuOn(k, n) /\ ~AtEl1(k, n)
    /\ Before(k, n, "map_phys") => Program(k)[n] = "mem_init"
    /\ k = "undef" => Before(k, n, "undef_install_skip")
\* Tables are edited with the MMU off, after it has been turned off when the
\* physical memory was mapped; the MMU runs on tables that map what is used.
MemoryShape(k) ==
    \A i \in 1..Len(Program(k)) :
        /\ Program(k)[i] \in {"mem_init", "map_phys", "map_value"} => ~MmuOn(k, i)
        /\ Program(k)[i] = "mmu_enable" \/ MmuOn(k, i) => Before(k, i, "mem_init")
        /\ Program(k)[i] = "access_phys" /\ MmuOn(k, i) => Before(k, i, "map_phys")
        /\ Program(k)[i] = "mem_init" /\ Before(k, i, "map_phys") => Before(k, i, "mmu_disable")

\* An exception comes after its handler is installed, at EL0, in the benchmark
\* that is about it, and before that benchmark turns the MMU off.
TrapShape(k) ==
    \A i \in 1..Len(Program(k)) :
        /\ Program(k)[i] = "undefined_instruction" =>
             k = "undef" /\ Before(k, i, "undef_install_skip") /\ ~AtEl1(k, i)
        /\ Program(k)[i] = "read_unmapped" =>
             k = "dfault" /\ MmuOn(k, i) /\ Before(k, i, "dfault_install_skip") /\ ~AtEl1(k, i)
        /\ Program(k)[i] = "call_unmapped" =>
             k = "ifault" /\ MmuOn(k, i) /\ Before(k, i, "ifault_install_return") /\ ~AtEl1(k, i)
        /\ Program(k)[i] = "mmu_disable" =>
             /\ k = "undef" => Before(k, i, "undefined_instruction")
             /\ k = "dfault" => Before(k, i, "read_unmapped")
             /\ k = "ifault" => Before(k, i, "call_unmapped")

\* Only swi.c deals with interrupts, and it does so at EL0.
SwiShape(k) ==
    \A i \in 1..Len(Program(k)) :
        Program(k)[i] \in {"irq_enable", "irq_disable", "clear_flag", "trigger_swi", "wait_flag"} =>
            k = "swi" /\ ~AtEl1(k, i)

\* What is turned off is not turned on again.
ModeShape(k) ==
    \A i \in 1..Len(Program(k)) :
        /\ Program(k)[i] = "mmu_enable" => ~Before(k, i, "mmu_disable")
        /\ Program(k)[i] = "priv_enter" => ~Before(k, i, "priv_leave")

\* The flag is cleared right before a trigger, and waited for right after it.
TriggerShape(k) ==
    /\ \A i \in 1..Len(Program(k)) :
         Program(k)[i] = "trigger_swi" => i < LoopEnd(k) /\ Program(k)[i + 1] = "wait_flag"
    /\ \A i \in 1..(Len(Program(k)) - 1) :
         Program(k)[i + 1] = "trigger_swi" => Program(k)[i] = "clear_flag"
    /\ \A i \in {1, LoopStart(k), Len(Program(k))} :
         Program(k)[i] \notin {"trigger_swi", "wait_flag"}

Shape(k) ==
    /\ LoopShape(k) /\ EndShape(k) /\ MemoryShape(k) /\ TrapShape(k) /\ SwiShape(k)
    /\ ModeShape(k) /\ TriggerShape(k)

\* Every program has this shape.
LEMMA Shapes == \A k \in DOMAIN Benchmarks : Shape(k)
<1> SUFFICES ASSUME NEW k \in DOMAIN Benchmarks PROVE Shape(k)
  OBVIOUS
<1>1. CASE k = "undef"
  <2>1. Spells(k, <<"mem_init", "mmu_enable", "undef_install_skip", "undefined_instruction",
                          "mmu_disable", "mem_init">>, 4, 4)
    BY <1>1, TrapProgram DEF Benchmarks, Undef
  <2>2. LoopShape(k)
    BY <1>1, <2>1 DEF LoopShape, Switches, Spells
  <2>3. EndShape(k)
    BY <1>1, <2>1 DEF EndShape, MmuOn, AtEl1, Before, Spells
  <2>4. MemoryShape(k)
    BY <1>1, <2>1 DEF MemoryShape, MmuOn, Before, Spells
  <2>5. TrapShape(k)
    BY <1>1, <2>1 DEF TrapShape, MmuOn, AtEl1, Before, Spells
  <2>6. SwiShape(k)
    BY <1>1, <2>1 DEF SwiShape, AtEl1, Before, Spells
  <2>7. ModeShape(k)
    BY <1>1, <2>1 DEF ModeShape, Before, Spells
  <2>8. TriggerShape(k)
    BY <1>1, <2>1 DEF TriggerShape, Spells
  <2> QED
    BY <2>2, <2>3, <2>4, <2>5, <2>6, <2>7, <2>8 DEF Shape
<1>2. CASE k = "dfault"
  <2>1. Spells(k, <<"mem_init", "mmu_enable", "dfault_install_skip", "read_unmapped",
                          "mmu_disable", "mem_init">>, 4, 4)
    BY <1>2, TrapProgram DEF Benchmarks, Dfault
  <2>2. LoopShape(k)
    BY <1>2, <2>1 DEF LoopShape, Switches, Spells
  <2>3. EndShape(k)
    BY <1>2, <2>1 DEF EndShape, MmuOn, AtEl1, Before, Spells
  <2>4. MemoryShape(k)
    BY <1>2, <2>1 DEF MemoryShape, MmuOn, Before, Spells
  <2>5. TrapShape(k)
    BY <1>2, <2>1 DEF TrapShape, MmuOn, AtEl1, Before, Spells
  <2>6. SwiShape(k)
    BY <1>2, <2>1 DEF SwiShape, AtEl1, Before, Spells
  <2>7. ModeShape(k)
    BY <1>2, <2>1 DEF ModeShape, Before, Spells
  <2>8. TriggerShape(k)
    BY <1>2, <2>1 DEF TriggerShape, Spells
  <2> QED
    BY <2>2, <2>3, <2>4, <2>5, <2>6, <2>7, <2>8 DEF Shape
<1>3. CASE k = "ifault"
  <2>1. Spells(k, <<"mem_init", "mmu_enable", "ifault_install_return", "call_unmapped",
                          "mmu_disable", "mem_init">>, 4, 4)
    BY <1>3, TrapProgram DEF Benchmarks, Ifault
  <2>2. LoopShape(k)
    BY <1>3, <2>1 DEF LoopShape, Switches, Spells
  <2>3. EndShape(k)
    BY <1>3, <2>1 DEF EndShape, MmuOn, AtEl1, Before, Spells
  <2>4. MemoryShape(k)
    BY <1>3, <2>1 DEF MemoryShape, MmuOn, Before, Spells
  <2>5. TrapShape(k)
    BY <1>3, <2>1 DEF TrapShape, MmuOn, AtEl1, Before, Spells
  <2>6. SwiShape(k)
    BY <1>3, <2>1 DEF SwiShape, AtEl1, Before, Spells
  <2>7. ModeShape(k)
    BY <1>3, <2>1 DEF ModeShape, Before, Spells
  <2>8. TriggerShape(k)
    BY <1>3, <2>1 DEF TriggerShape, Spells
  <2> QED
    BY <2>2, <2>3, <2>4, <2>5, <2>6, <2>7, <2>8 DEF Shape
<1>4. CASE k \in {"tlb_flush", "tlb_evict"}
  <2>1. Spells(k, <<"mem_init", "map_phys", "mmu_enable", "access_phys", "mmu_disable",
                    "mem_init">>, 4, 4)
    BY <1>4, PhysProgram DEF Benchmarks, TlbFlush, TlbEvict
  <2>2. LoopShape(k)
    BY <1>4, <2>1 DEF LoopShape, Switches, Spells
  <2>3. EndShape(k)
    BY <1>4, <2>1 DEF EndShape, MmuOn, AtEl1, Before, Spells
  <2>4. MemoryShape(k)
    BY <1>4, <2>1 DEF MemoryShape, MmuOn, Before, Spells
  <2>5. TrapShape(k)
    BY <1>4, <2>1 DEF TrapShape, MmuOn, AtEl1, Before, Spells
  <2>6. SwiShape(k)
    BY <1>4, <2>1 DEF SwiShape, AtEl1, Before, Spells
  <2>7. ModeShape(k)
    BY <1>4, <2>1 DEF ModeShape, Before, Spells
  <2>8. TriggerShape(k)
    BY <1>4, <2>1 DEF TriggerShape, Spells
  <2> QED
    BY <2>2, <2>3, <2>4, <2>5, <2>6, <2>7, <2>8 DEF Shape
<1>5. CASE k \in {"large_blocks", "hot_nommu"}
  <2>1. Spells(k, <<"access_image", "access_image">>, 2, 2)
    BY <1>5, ControlProgram DEF Benchmarks, LargeBlocks, HotNoMmu
  <2>2. LoopShape(k)
    BY <1>5, <2>1 DEF LoopShape, Switches, Spells
  <2>3. EndShape(k)
    BY <1>5, <2>1 DEF EndShape, MmuOn, AtEl1, Before, Spells
  <2>4. MemoryShape(k)
    BY <1>5, <2>1 DEF MemoryShape, MmuOn, Before, Spells
  <2>5. TrapShape(k)
    BY <1>5, <2>1 DEF TrapShape, MmuOn, AtEl1, Before, Spells
  <2>6. SwiShape(k)
    BY <1>5, <2>1 DEF SwiShape, AtEl1, Before, Spells
  <2>7. ModeShape(k)
    BY <1>5, <2>1 DEF ModeShape, Before, Spells
  <2>8. TriggerShape(k)
    BY <1>5, <2>1 DEF TriggerShape, Spells
  <2> QED
    BY <2>2, <2>3, <2>4, <2>5, <2>6, <2>7, <2>8 DEF Shape
<1>6. CASE k \in {"dispatch", "device_access", "coprocessor"}
  <2>1. Spells(k, <<"access_image">>, 1, 1)
    BY <1>6, PlainProgram DEF Benchmarks, Dispatch, DeviceAccess, Coprocessor
  <2>2. LoopShape(k)
    BY <1>6, <2>1 DEF LoopShape, Switches, Spells
  <2>3. EndShape(k)
    BY <1>6, <2>1 DEF EndShape, MmuOn, AtEl1, Before, Spells
  <2>4. MemoryShape(k)
    BY <1>6, <2>1 DEF MemoryShape, MmuOn, Before, Spells
  <2>5. TrapShape(k)
    BY <1>6, <2>1 DEF TrapShape, MmuOn, AtEl1, Before, Spells
  <2>6. SwiShape(k)
    BY <1>6, <2>1 DEF SwiShape, AtEl1, Before, Spells
  <2>7. ModeShape(k)
    BY <1>6, <2>1 DEF ModeShape, Before, Spells
  <2>8. TriggerShape(k)
    BY <1>6, <2>1 DEF TriggerShape, Spells
  <2> QED
    BY <2>2, <2>3, <2>4, <2>5, <2>6, <2>7, <2>8 DEF Shape
<1>7. CASE k = "syscall"
  <2>2. LoopShape(k)
    BY <1>7, SyscallProgram DEF LoopShape, Switches, Spells
  <2>3. EndShape(k)
    BY <1>7, SyscallProgram DEF EndShape, MmuOn, AtEl1, Before, Spells
  <2>4. MemoryShape(k)
    BY <1>7, SyscallProgram DEF MemoryShape, MmuOn, Before, Spells
  <2>5. TrapShape(k)
    BY <1>7, SyscallProgram DEF TrapShape, MmuOn, AtEl1, Before, Spells
  <2>6. SwiShape(k)
    BY <1>7, SyscallProgram DEF SwiShape, AtEl1, Before, Spells
  <2>7. ModeShape(k)
    BY <1>7, SyscallProgram DEF ModeShape, Before, Spells
  <2>8. TriggerShape(k)
    BY <1>7, SyscallProgram DEF TriggerShape, Spells
  <2> QED
    BY <2>2, <2>3, <2>4, <2>5, <2>6, <2>7, <2>8 DEF Shape
<1>8. CASE k = "small_blocks"
  <2>2. LoopShape(k)
    BY <1>8, SmallBlocksProgram DEF LoopShape, Switches, Spells
  <2>3. EndShape(k)
    BY <1>8, SmallBlocksProgram DEF EndShape, MmuOn, AtEl1, Before, Spells
  <2>4. MemoryShape(k)
    BY <1>8, SmallBlocksProgram DEF MemoryShape, MmuOn, Before, Spells
  <2>5. TrapShape(k)
    BY <1>8, SmallBlocksProgram DEF TrapShape, MmuOn, AtEl1, Before, Spells
  <2>6. SwiShape(k)
    BY <1>8, SmallBlocksProgram DEF SwiShape, AtEl1, Before, Spells
  <2>7. ModeShape(k)
    BY <1>8, SmallBlocksProgram DEF ModeShape, Before, Spells
  <2>8. TriggerShape(k)
    BY <1>8, SmallBlocksProgram DEF TriggerShape, Spells
  <2> QED
    BY <2>2, <2>3, <2>4, <2>5, <2>6, <2>7, <2>8 DEF Shape
<1>9. CASE k = "hot_mmu"
  <2>2. LoopShape(k)
    BY <1>9, HotMmuProgram DEF LoopShape, Switches, Spells
  <2>3. EndShape(k)
    BY <1>9, HotMmuProgram DEF EndShape, MmuOn, AtEl1, Before, Spells
  <2>4. MemoryShape(k)
    BY <1>9, HotMmuProgram DEF MemoryShape, MmuOn, Before, Spells
  <2>5. TrapShape(k)
    BY <1>9, HotMmuProgram DEF TrapShape, MmuOn, AtEl1, Before, Spells
  <2>6. SwiShape(k)
    BY <1>9, HotMmuProgram DEF SwiShape, AtEl1, Before, Spells
  <2>7. ModeShape(k)
    BY <1>9, HotMmuProgram DEF ModeShape, Before, Spells
  <2>8. TriggerShape(k)
    BY <1>9, HotMmuProgram DEF TriggerShape, Spells
  <2> QED
    BY <2>2, <2>3, <2>4, <2>5, <2>6, <2>7, <2>8 DEF Shape
<1>10. CASE k = "cold_nommu"
  <2>2. LoopShape(k)
    BY <1>10, ColdNoMmuProgram DEF LoopShape, Switches, Spells
  <2>3. EndShape(k)
    BY <1>10, ColdNoMmuProgram DEF EndShape, MmuOn, AtEl1, Before, Spells
  <2>4. MemoryShape(k)
    BY <1>10, ColdNoMmuProgram DEF MemoryShape, MmuOn, Before, Spells
  <2>5. TrapShape(k)
    BY <1>10, ColdNoMmuProgram DEF TrapShape, MmuOn, AtEl1, Before, Spells
  <2>6. SwiShape(k)
    BY <1>10, ColdNoMmuProgram DEF SwiShape, AtEl1, Before, Spells
  <2>7. ModeShape(k)
    BY <1>10, ColdNoMmuProgram DEF ModeShape, Before, Spells
  <2>8. TriggerShape(k)
    BY <1>10, ColdNoMmuProgram DEF TriggerShape, Spells
  <2> QED
    BY <2>2, <2>3, <2>4, <2>5, <2>6, <2>7, <2>8 DEF Shape
<1>11. CASE k = "cold_mmu"
  <2>2. LoopShape(k)
    BY <1>11, ColdMmuProgram DEF LoopShape, Switches, Spells
  <2>3. EndShape(k)
    BY <1>11, ColdMmuProgram DEF EndShape, MmuOn, AtEl1, Before, Spells
  <2>4. MemoryShape(k)
    BY <1>11, ColdMmuProgram DEF MemoryShape, MmuOn, Before, Spells
  <2>5. TrapShape(k)
    BY <1>11, ColdMmuProgram DEF TrapShape, MmuOn, AtEl1, Before, Spells
  <2>6. SwiShape(k)
    BY <1>11, ColdMmuProgram DEF SwiShape, AtEl1, Before, Spells
  <2>7. ModeShape(k)
    BY <1>11, ColdMmuProgram DEF ModeShape, Before, Spells
  <2>8. TriggerShape(k)
    BY <1>11, ColdMmuProgram DEF TriggerShape, Spells
  <2> QED
    BY <2>2, <2>3, <2>4, <2>5, <2>6, <2>7, <2>8 DEF Shape
<1>12. CASE k = "nonpriv"
  <2> DEFINE p == Program(k)
  <2>a. /\ Len(p) = 9 /\ LoopStart(k) = 5 /\ LoopEnd(k) = 5
        /\ p[1] = "mem_init" /\ p[2] = "map_value" /\ p[3] = "mmu_enable" /\ p[4] = "priv_enter"
        /\ p[5] = "access_image" /\ p[6] = "priv_leave" /\ p[7] = "mmu_disable" /\ p[8] = "mem_init"
        /\ p[9] = "priv_leave"
    BY <1>12, NonPrivProgram DEF Spells
  <2> HIDE DEF p
  <2>b. ASSUME NEW i \in 1..Len(p)
        PROVE  /\ Before(k, i, "mem_init") <=> i > 1
               /\ Before(k, i, "mmu_enable") <=> i > 3
               /\ Before(k, i, "mmu_disable") <=> i > 7
               /\ Before(k, i, "priv_enter") <=> i > 4
               /\ Before(k, i, "priv_leave") <=> i > 6
               /\ Before(k, i, "map_phys") <=> FALSE
    BY <2>a DEF Before, p
  <2>2. LoopShape(k)
    <3>1. \A i \in 5..5 : p[i] \notin Switches
      BY <2>a DEF Switches
    <3>2. p[Len(p)] \notin Switches \ {"priv_leave"}
      BY <2>a DEF Switches
    <3> QED
      BY <2>a, <3>1, <3>2 DEF LoopShape, p
  <2>3. EndShape(k)
    BY <1>12, <2>a, <2>b DEF EndShape, MmuOn, AtEl1, p
  <2>4. MemoryShape(k)
    BY <1>12, <2>a, <2>b DEF MemoryShape, MmuOn, p
  <2>5. TrapShape(k)
    <3>1. \A i \in 1..Len(p) : p[i] \notin {"undefined_instruction", "read_unmapped", "call_unmapped"}
      BY <2>a
    <3> QED
      BY <1>12, <3>1 DEF TrapShape, p
  <2>6. SwiShape(k)
    BY <1>12, <2>a, <2>b DEF SwiShape, AtEl1, p
  <2>7. ModeShape(k)
    BY <1>12, <2>a, <2>b DEF ModeShape, p
  <2>8. TriggerShape(k)
    <3>1. \A i \in 1..Len(p) : p[i] \notin {"trigger_swi", "wait_flag"}
      BY <2>a
    <3>2. \A i \in 1..(Len(p) - 1) : i + 1 \in 1..Len(p)
      BY <2>a
    <3>3. \A i \in {1, LoopStart(k), Len(p)} : i \in 1..Len(p)
      BY <2>a
    <3> QED
      BY <3>1, <3>2, <3>3 DEF TriggerShape, p
  <2> QED
    BY <2>2, <2>3, <2>4, <2>5, <2>6, <2>7, <2>8 DEF Shape
<1>13. CASE k = "swi"
  <2> DEFINE p == Program(k)
  <2>a. /\ Len(p) = 10 /\ LoopStart(k) = 5 /\ LoopEnd(k) = 7
        /\ p[1] = "mem_init" /\ p[2] = "mmu_enable" /\ p[3] = "irq_install_handler" /\ p[4] = "irq_enable"
        /\ p[5] = "clear_flag" /\ p[6] = "trigger_swi" /\ p[7] = "wait_flag" /\ p[8] = "irq_disable"
        /\ p[9] = "mmu_disable" /\ p[10] = "mem_init"
    BY <1>13, SwiProgram DEF Spells
  <2> HIDE DEF p
  <2>b. ASSUME NEW i \in 1..Len(p)
        PROVE  /\ Before(k, i, "mem_init") <=> i > 1
               /\ Before(k, i, "mmu_enable") <=> i > 2
               /\ Before(k, i, "mmu_disable") <=> i > 9
               /\ Before(k, i, "priv_enter") <=> FALSE
               /\ Before(k, i, "map_phys") <=> FALSE
    BY <2>a DEF Before, p
  <2>2. LoopShape(k)
    <3>1. \A i \in 5..7 : p[i] \notin Switches
      BY <2>a DEF Switches
    <3>2. p[Len(p)] \notin Switches \ {"priv_leave"}
      BY <2>a DEF Switches
    <3> QED
      BY <2>a, <3>1, <3>2 DEF LoopShape, p
  <2>3. EndShape(k)
    BY <1>13, <2>a, <2>b DEF EndShape, MmuOn, AtEl1, p
  <2>4. MemoryShape(k)
    BY <1>13, <2>a, <2>b DEF MemoryShape, MmuOn, p
  <2>5. TrapShape(k)
    <3>1. \A i \in 1..Len(p) : p[i] \notin {"undefined_instruction", "read_unmapped", "call_unmapped"}
      BY <2>a
    <3> QED
      BY <1>13, <3>1 DEF TrapShape, p
  <2>6. SwiShape(k)
    BY <1>13, <2>a, <2>b DEF SwiShape, AtEl1, p
  <2>7. ModeShape(k)
    BY <1>13, <2>a, <2>b DEF ModeShape, p
  <2>8. TriggerShape(k)
    <3>1. \A i \in 1..Len(p) : p[i] = "trigger_swi" => i < LoopEnd(k) /\ p[i + 1] = "wait_flag"
      BY <2>a
    <3>2. \A i \in 1..(Len(p) - 1) : p[i + 1] = "trigger_swi" => p[i] = "clear_flag"
      BY <2>a
    <3>3. \A i \in {1, LoopStart(k), Len(p)} : p[i] \notin {"trigger_swi", "wait_flag"}
      BY <2>a
    <3> QED
      BY <3>1, <3>2, <3>3 DEF TriggerShape, p
  <2> QED
    BY <2>2, <2>3, <2>4, <2>5, <2>6, <2>7, <2>8 DEF Shape
<1> QED
  BY <1>1, <1>2, <1>3, <1>4, <1>5, <1>6, <1>7, <1>8, <1>9, <1>10, <1>11, <1>12, <1>13 DEF Benchmarks

------------------------------------------------------------------------------
(* The inductive invariant: the machine is in the state that the calls      *)
(* before the current one have put it in.  Nothing in it speaks of status,  *)
(* since arch_abort leaves the machine as it is.                            *)

Here == order[b]
Done(c) == Before(Here, at, c)

Position ==
    /\ order \in Orders /\ b \in 1..Len(order) /\ at \in 1..Len(Program(Here))
    /\ iter \in 1..Iters

\* mem_mmu_enable .. mem_mmu_disable, arch_priv_enter .. arch_priv_leave.
Modes ==
    /\ mmu \in BOOLEAN /\ el \in {0, 1}
    /\ mmu <=> MmuOn(Here, at)
    /\ el = 1 <=> AtEl1(Here, at)

\* The physical memory is mapped from map_phys until the next mem_init, at
\* least while the MMU is on.
Maps ==
    /\ mapped \subseteq {"image", "phys"} /\ tlb \subseteq {"image", "phys"}
    /\ Done("mem_init") => "image" \in mapped
    /\ Done("map_phys") /\ ~Done("mmu_disable") => "phys" \in mapped
    /\ "phys" \in mapped => Done("map_phys")

\* Handlers stay installed; that of undef.c serves every later benchmark.
Handlers ==
    /\ sync_table \in [{"unknown", "svc", "dabt", "iabt"} ->
                         {"null", "handle_syscall", "exception_skip", "armv8_pabt_return"}]
    /\ (\E j \in 1..(b - 1) : order[j] = "undef") => sync_table["unknown"] # "null"
    /\ Done("undef_install_skip") => sync_table["unknown"] # "null"
    /\ Done("dfault_install_skip") => sync_table["dabt"] # "null"
    /\ Done("ifault_install_return") => sync_table["iabt"] # "null"

\* An interrupt is outstanding only between trigger and wait, with flag clear.
Interrupts ==
    /\ irq_handler \in BOOLEAN /\ flag \in BOOLEAN /\ icache \in BOOLEAN
    /\ gic \in {"idle", "pending"}
    /\ gic = "pending" => Call = "wait_flag" /\ ~flag
    /\ Call = "trigger_swi" => ~flag
    /\ Done("irq_install_handler") => irq_handler

\* The exceptions so far.
Taken ==
    /\ faults \subseteq {"unknown", "svc", "dabt", "iabt"} \X Range(order)
    /\ faults \subseteq {<<"unknown", "undef">>, <<"unknown", "swi">>,
                         <<"dabt", "dfault">>, <<"iabt", "ifault">>}
    /\ Done("undefined_instruction") => <<"unknown", "undef">> \in faults
    /\ Done("read_unmapped") => <<"dabt", "dfault">> \in faults
    /\ Done("call_unmapped") => <<"iabt", "ifault">> \in faults

IInv ==
    /\ status \in {"run", "abort", "done"}
    /\ Position /\ Modes /\ Maps /\ Handlers /\ Interrupts /\ Taken

------------------------------------------------------------------------------
(* Going on to the next call *)

\* Passing a call adds it to the ones before.
LEMMA BeforeFacts ==
    ASSUME NEW k, NEW c
    PROVE  /\ ~Before(k, 1, c)
           /\ \A i \in Nat \ {0} : Before(k, i + 1, c) <=> Before(k, i, c) \/ Program(k)[i] = c
           /\ \A i, j \in Nat : i <= j /\ Before(k, i, c) => Before(k, j, c)
BY DEF Before

\* The benchmark that runs has the shape of a program.
LEMMA HereFacts ==
    ASSUME Position
    PROVE  /\ Shape(Here) /\ b \in Nat \ {0} /\ at \in Nat \ {0} /\ Len(order) \in Nat
           /\ \A j \in 1..Len(order) : Shape(order[j])
           /\ order[b] \in Range(order)
<1>1. order \in Seq(DOMAIN Benchmarks)
  BY OrderAssumption DEF Position
<1>2. \A j \in 1..Len(order) : order[j] \in DOMAIN Benchmarks
  BY <1>1
<1>3. DOMAIN order = 1..Len(order) /\ Len(order) \in Nat
  BY <1>1
<1>4. Shape(Here)
  BY <1>2, Shapes DEF Position, Here
<1>5. order[b] \in Range(order)
  BY <1>3 DEF Position, Range
<1>6. at \in Nat \ {0}
  BY <1>4 DEF Position, Shape, LoopShape
<1> QED
  BY <1>2, <1>3, <1>4, <1>5, <1>6, Shapes DEF Position

\* A loop passes the same switches again and again: there are none in it.
LEMMA LoopFacts ==
    ASSUME NEW k, Shape(k), NEW c
    PROVE  /\ Before(k, LoopStart(k), c) => Before(k, LoopEnd(k), c)
           /\ c \in Switches => /\ Before(k, LoopEnd(k), c) => Before(k, LoopStart(k), c)
                                /\ Program(k)[LoopEnd(k)] # c
<1> USE DEF Shape, LoopShape
<1>1. Before(k, LoopStart(k), c) => Before(k, LoopEnd(k), c)
  BY BeforeFacts
<1>2. ASSUME c \in Switches, Before(k, LoopEnd(k), c)
      PROVE  Before(k, LoopStart(k), c)
  <2>1. PICK j \in 1..(LoopEnd(k) - 1) : Program(k)[j] = c
    BY <1>2 DEF Before
  <2>2. j \notin LoopStart(k)..LoopEnd(k)
    BY <1>2, <2>1
  <2>3. j \in 1..(LoopStart(k) - 1)
    BY <2>1, <2>2
  <2> QED
    BY <2>1, <2>3 DEF Before
<1> QED
  BY <1>1, <1>2

\* How Return changes what has been done: a call is added, the modes are
\* those the call leaves, and only harness_main's next entry forgets.
LEMMA ReturnFacts ==
    ASSUME Position, Return
    PROVE  /\ Position' /\ order' = order
           /\ status' = status \/ status' = "done"
           /\ MmuOn(Here', at') <=> (Call = "mmu_enable" \/ (MmuOn(Here, at) /\ Call # "mmu_disable"))
           /\ AtEl1(Here', at') <=> (Call = "priv_enter" \/ (AtEl1(Here, at) /\ Call # "priv_leave"))
           /\ \A c : Before(Here', at', c) => Done(c) \/ Call = c
           /\ Done("map_phys") \/ Call = "map_phys" => Before(Here', at', "map_phys") \/ Call = "mem_init"
           /\ Before(Here', at', "map_phys") /\ ~Before(Here', at', "mmu_disable")
                => ~Done("mmu_disable") /\ Call # "mmu_disable"
           /\ (\E j \in 1..(b' - 1) : order'[j] = "undef")
                => (\E j \in 1..(b - 1) : order[j] = "undef") \/ Done("undef_install_skip")
           /\ Call = "trigger_swi" => Call' = "wait_flag"
           /\ Call' = "trigger_swi" => Call = "clear_flag"
<1> DEFINE k == Here
<1>a. /\ Shape(k) /\ b \in Nat \ {0} /\ at \in Nat \ {0} /\ Len(order) \in Nat
      /\ \A j \in 1..Len(order) : Shape(order[j])
  BY HereFacts
<1>b. order' = order /\ order \in Orders /\ Call = Program(k)[at] /\ k = order[b]
  BY DEF Return, Position, Call, Here
<1>c. /\ LoopStart(k) \in Nat /\ LoopEnd(k) \in Nat /\ Len(Program(k)) \in Nat
      /\ 1 <= LoopStart(k) /\ LoopStart(k) <= LoopEnd(k) /\ LoopEnd(k) <= Len(Program(k))
      /\ at \in 1..Len(Program(k)) /\ b \in 1..Len(order) /\ iter \in 1..Iters
  BY <1>a DEF Shape, LoopShape, Position
<1>1. CASE Loops
  <2>1. /\ at = LoopEnd(k) /\ iter < Iters /\ at' = LoopStart(k) /\ iter' = iter + 1
        /\ b' = b /\ status' = status
    BY <1>1 DEF Loops, Return, Here
  <2>2. Here' = k /\ Position'
    BY <1>b, <1>c, <2>1, SuiteAssumption DEF Here, Position
  <2>3. \A c : Before(k, LoopStart(k), c) => Done(c)
    BY <1>a, <2>1, LoopFacts DEF Done
  <2>4. \A c \in Switches : (Before(k, LoopStart(k), c) <=> Done(c)) /\ Call # c
    BY <1>a, <1>b, <2>1, LoopFacts DEF Done
  <2>5. Call # "trigger_swi" /\ Call' # "trigger_swi"
    BY <1>a, <1>b, <1>c, <2>1, <2>2 DEF Shape, TriggerShape, Call, Here
  <2> QED
    BY <1>b, <2>1, <2>2, <2>3, <2>4, <2>5 DEF MmuOn, AtEl1, Done, Switches
<1>2. CASE ~Loops /\ at < Len(Program(k))
  <2>1. at' = at + 1 /\ b' = b /\ iter' = iter /\ status' = status
    BY <1>2 DEF Return, Here
  <2>2. Here' = k /\ Position'
    BY <1>b, <1>c, <1>2, <2>1 DEF Here, Position
  <2>3. \A c : Before(k, at', c) <=> Done(c) \/ Call = c
    BY <1>a, <1>b, <2>1, BeforeFacts DEF Done
  <2>4. /\ Call = "mmu_enable" => ~Done("mmu_disable")
        /\ Call = "priv_enter" => ~Done("priv_leave")
    BY <1>a, <1>b, <1>c DEF Shape, ModeShape, Done
  <2>5. /\ Call = "trigger_swi" => Call' = "wait_flag"
        /\ Call' = "trigger_swi" => Call = "clear_flag"
    <3>1. at \in 1..(Len(Program(k)) - 1) /\ Call' = Program(k)[at + 1]
      BY <1>2, <1>c, <2>1, <2>2 DEF Call, Here
    <3> QED
      BY <1>a, <1>b, <1>c, <3>1 DEF Shape, TriggerShape
  <2> QED
    BY <1>b, <2>1, <2>2, <2>3, <2>4, <2>5 DEF MmuOn, AtEl1, Done
<1>3. CASE ~Loops /\ at = Len(Program(k))
  <2>1. /\ ~MmuOn(k, at) /\ ~AtEl1(k, at)
        /\ Done("map_phys") => Call = "mem_init"
        /\ k = "undef" => Done("undef_install_skip")
        /\ Call \notin Switches \ {"priv_leave"}
        /\ Call # "trigger_swi"
    BY <1>a, <1>b, <1>3 DEF Shape, EndShape, LoopShape, TriggerShape, Done
  <2>2. CASE b < Len(order)
    <3>1. at' = 1 /\ b' = b + 1 /\ iter' = 1 /\ status' = status
      BY <1>3, <2>2 DEF Return, Here
    <3>2. Shape(Here') /\ Here' = order[b + 1] /\ Position'
      <4>1. Here' = order[b + 1] /\ b + 1 \in 1..Len(order)
        BY <1>b, <1>c, <2>2, <3>1 DEF Here
      <4>2. Shape(Here') /\ 1 \in 1..Len(Program(Here'))
        BY <1>a, <4>1 DEF Shape, LoopShape
      <4> QED
        BY <1>b, <3>1, <4>1, <4>2, SuiteAssumption DEF Position
    <3>3. \A c : ~Before(Here', at', c)
      BY <3>1, BeforeFacts
    <3>4. Call' # "trigger_swi"
      BY <3>1, <3>2 DEF Shape, TriggerShape, Call, Here
    <3>5. (\E j \in 1..(b' - 1) : order'[j] = "undef")
             => (\E j \in 1..(b - 1) : order[j] = "undef") \/ k = "undef"
      BY <1>b, <1>c, <3>1
    <3> QED
      BY <1>b, <2>1, <3>1, <3>2, <3>3, <3>4, <3>5 DEF MmuOn, AtEl1, Switches
  <2>3. CASE ~(b < Len(order))
    <3>1. at' = at /\ b' = b /\ iter' = iter /\ status' = "done"
      BY <1>3, <2>3 DEF Return, Here
    <3>2. Here' = k /\ Position' /\ Call' = Call
      BY <1>b, <1>c, <3>1 DEF Here, Position, Call
    <3> QED
      BY <1>b, <2>1, <3>1, <3>2 DEF MmuOn, AtEl1, Done, Switches
  <2> QED
    BY <2>2, <2>3
<1> QED
  BY <1>1, <1>2, <1>3, <1>c

------------------------------------------------------------------------------
(* The invariant holds at the start and every step keeps it *)

LEMMA InitIInv == Init => IInv
<1> SUFFICES ASSUME Init PROVE IInv
  OBVIOUS
<1>1. order \in Seq(DOMAIN Benchmarks) /\ order # <<>> /\ b = 1 /\ at = 1 /\ iter = 1
  BY SuiteAssumption, OrderAssumption DEF Init
<1>2. 1 \in 1..Len(order) /\ order[1] \in DOMAIN Benchmarks
  BY <1>1
<1>3. Shape(order[1]) /\ Here = order[1]
  BY <1>1, <1>2, Shapes DEF Here
<1>4. Position
  BY <1>1, <1>2, <1>3, SuiteAssumption DEF Init, Position, Shape, LoopShape
<1>5. \A c : ~Done(c)
  BY <1>1, BeforeFacts DEF Done
<1>6. Modes /\ Maps
  <2>1. ~MmuOn(Here, at) /\ ~AtEl1(Here, at)
    BY <1>5 DEF MmuOn, AtEl1, Done
  <2>2. mmu \in BOOLEAN /\ ~mmu /\ el = 0 /\ mapped = {} /\ tlb = {}
    BY DEF Init
  <2>3. Modes
    BY <2>1, <2>2 DEF Modes
  <2>4. Maps
    BY <1>5, <2>2 DEF Maps
  <2> QED
    BY <2>3, <2>4
<1>7. Handlers
  BY <1>1, <1>5 DEF Init, Handlers
<1>8. Call \notin {"trigger_swi", "wait_flag"}
  BY <1>1, <1>3 DEF Shape, TriggerShape, Call
<1>9. Interrupts /\ Taken
  BY <1>5, <1>8 DEF Init, Interrupts, Taken
<1> QED
  BY <1>4, <1>6, <1>7, <1>9 DEF Init, IInv

InstallCalls == {"undef_install_skip", "dfault_install_skip", "ifault_install_return"}
IrqCalls == {"irq_install_handler", "clear_flag", "trigger_swi", "wait_flag"}
TrapCalls == {"undefined_instruction", "read_unmapped", "call_unmapped"}

\* A call that leaves a part of the machine alone keeps what is said of it.
LEMMA ReturnKeeps ==
    ASSUME IInv, Return
    PROVE  /\ status' \in {"run", "abort", "done"} /\ Position'
           /\ UNCHANGED <<mmu, el>> /\ Call \notin Switches \ {"map_phys"} => Modes'
           /\ UNCHANGED mapped /\ tlb' \subseteq {"image", "phys"} /\ Call \notin {"mem_init", "map_phys"}
                => Maps'
           /\ UNCHANGED sync_table /\ Call \notin InstallCalls => Handlers'
           /\ UNCHANGED <<irq_handler, flag, gic>> /\ icache' \in BOOLEAN /\ Call \notin IrqCalls
                => Interrupts'
           /\ UNCHANGED faults /\ Call \notin TrapCalls => Taken'
<1>0. /\ \A c : Done(c)' => Done(c) \/ Call = c
      /\ Done("map_phys") \/ Call = "map_phys" => Done("map_phys")' \/ Call = "mem_init"
      /\ Done("map_phys")' /\ ~Done("mmu_disable")' => ~Done("mmu_disable") /\ Call # "mmu_disable"
      /\ Call' = "trigger_swi" => Call = "clear_flag"
  BY ReturnFacts DEF IInv, Done
<1>1. status' \in {"run", "abort", "done"} /\ Position'
  BY ReturnFacts DEF IInv
<1>2. UNCHANGED <<mmu, el>> /\ Call \notin Switches \ {"map_phys"} => Modes'
  BY ReturnFacts DEF IInv, Modes, Switches
<1>3. UNCHANGED mapped /\ tlb' \subseteq {"image", "phys"} /\ Call \notin {"mem_init", "map_phys"} => Maps'
  BY <1>0 DEF IInv, Maps
<1>4. UNCHANGED sync_table /\ Call \notin InstallCalls => Handlers'
  <2>1. (\E j \in 1..(b - 1) : order[j] = "undef")'
          => (\E j \in 1..(b - 1) : order[j] = "undef") \/ Done("undef_install_skip")
    BY ReturnFacts DEF IInv
  <2> QED
    BY <1>0, <2>1 DEF IInv, Handlers, InstallCalls
<1>5. UNCHANGED <<irq_handler, flag, gic>> /\ icache' \in BOOLEAN /\ Call \notin IrqCalls => Interrupts'
  BY <1>0 DEF IInv, Interrupts, IrqCalls
<1>6. UNCHANGED faults /\ Call \notin TrapCalls => Taken'
  <2>1. order' = order
    BY ReturnFacts DEF IInv
  <2> QED
    BY <1>0, <2>1 DEF IInv, Taken, TrapCalls
<1> QED
  BY <1>1, <1>2, <1>3, <1>4, <1>5, <1>6

\* What arch_abort and the spinning after it leave behind.
LEMMA StopKeeps ==
    ASSUME IInv, UNCHANGED <<order, b, at, iter, machine>>, status' \in {"run", "abort", "done"}
    PROVE  IInv'
BY DEF IInv, Position, Modes, Maps, Handlers, Interrupts, Taken, Here, Done, Call, machine

\* What the program says of the machine at the call it has come to.
LEMMA CallFacts ==
    ASSUME IInv
    PROVE  /\ Call \in {"mem_init", "map_phys", "map_value"} => ~mmu
           /\ Call = "mmu_enable" => "image" \in mapped
           /\ Call = "mem_init" /\ Done("map_phys") => Done("mmu_disable")
           /\ mmu => "image" \in mapped
           /\ mmu /\ Call = "access_phys" => "phys" \in mapped
           /\ Call = "undefined_instruction" => Here = "undef" /\ el = 0 /\ sync_table["unknown"] # "null"
           /\ Call = "read_unmapped" => Here = "dfault" /\ mmu /\ el = 0 /\ sync_table["dabt"] # "null"
           /\ Call = "call_unmapped" => Here = "ifault" /\ mmu /\ el = 0 /\ sync_table["iabt"] # "null"
           /\ Call \in {"irq_enable", "irq_disable", "clear_flag", "trigger_swi", "wait_flag"}
                => Here = "swi" /\ el = 0
<1>1. /\ Shape(Here) /\ at \in 1..Len(Program(Here)) /\ Call = Program(Here)[at]
      /\ mmu \in BOOLEAN /\ (mmu <=> MmuOn(Here, at)) /\ el \in {0, 1} /\ (el = 1 <=> AtEl1(Here, at))
  BY HereFacts DEF IInv, Position, Modes, Call, Here
<1>2. /\ Call \in {"mem_init", "map_phys", "map_value"} => ~mmu
      /\ Call = "mmu_enable" \/ mmu => Done("mem_init")
      /\ Call = "access_phys" /\ mmu => Done("map_phys") /\ ~Done("mmu_disable")
      /\ Call = "mem_init" /\ Done("map_phys") => Done("mmu_disable")
  BY <1>1 DEF Shape, MemoryShape, MmuOn, Done
<1>3. /\ Call = "undefined_instruction" => Here = "undef" /\ el = 0 /\ Done("undef_install_skip")
      /\ Call = "read_unmapped" => Here = "dfault" /\ mmu /\ el = 0 /\ Done("dfault_install_skip")
      /\ Call = "call_unmapped" => Here = "ifault" /\ mmu /\ el = 0 /\ Done("ifault_install_return")
  BY <1>1 DEF Shape, TrapShape, Done
<1>4. Call \in {"irq_enable", "irq_disable", "clear_flag", "trigger_swi", "wait_flag"}
        => Here = "swi" /\ el = 0
  BY <1>1 DEF Shape, SwiShape
<1>5. /\ Done("mem_init") => "image" \in mapped
      /\ Done("map_phys") /\ ~Done("mmu_disable") => "phys" \in mapped
  BY DEF IInv, Maps
<1> QED
  BY <1>2, <1>3, <1>4, <1>5 DEF IInv, Handlers

\* The address that dfault.c and ifault.c use is in no region, and the base of
\* a region is in that region.
LEMMA RegionFacts ==
    ASSUME NEW S, S \subseteq {"image", "phys"}
    PROVE  /\ ~Covers(S, FaultAddress)
           /\ \A r \in S : Covers(S, Region[r][1])
<1>1. ~Covers(S, FaultAddress)
  BY DEF Covers, Region, FaultAddress
<1>2. ASSUME NEW r \in S PROVE Covers(S, Region[r][1])
  <2>1. Region[r][1] <= Region[r][1] /\ Region[r][1] < Region[r][2]
    BY DEF Region
  <2> QED
    BY <2>1 DEF Covers
<1> QED
  BY <1>1, <1>2

\* Exceptions are taken where they are meant, and a load or store has its
\* region mapped.
LEMMA TrapKeeps ==
    ASSUME IInv, UndefinedInstruction \/ ReadUnmapped \/ CallUnmapped \/ AccessImage \/ AccessPhys
    PROVE  IInv'
<1> USE DEF Calls
<1>a. Modes /\ Maps /\ Handlers /\ Interrupts /\ Taken /\ order[b] \in Range(order)
  BY HereFacts DEF IInv
<1>1. CASE Abort
  BY <1>1, StopKeeps DEF Abort
<1>b. mapped \subseteq {"image", "phys"} /\ mapped \cup tlb \subseteq {"image", "phys"}
  BY <1>a DEF Maps
<1>2. CASE AccessImage /\ ~Abort
  <2>1. mmu => ~MayMiss(Region["image"][1])
    BY <1>b, CallFacts, RegionFacts DEF MayMiss
  <2>2. /\ Call = "access_image" /\ Return /\ tlb' \in {tlb, tlb \cup {"image"}}
        /\ UNCHANGED <<el, mmu, icache, mapped, sync_table, irq_handler, gic, flag, faults>>
    BY <1>2, <2>1 DEF AccessImage, Access, MayMiss
  <2>3. tlb' \subseteq {"image", "phys"}
    BY <1>a, <2>2 DEF Maps
  <2> QED
    BY <1>a, <2>2, <2>3, ReturnKeeps DEF IInv, Switches, InstallCalls, IrqCalls, TrapCalls, Interrupts
<1>3. CASE AccessPhys /\ ~Abort
  <2>1. Call = "access_phys"
    BY <1>3 DEF AccessPhys, Access
  <2>2. mmu => ~MayMiss(Region["phys"][1])
    BY <1>b, <2>1, CallFacts, RegionFacts DEF MayMiss
  <2>3. /\ Return /\ tlb' \in {tlb, tlb \cup {"phys"}}
        /\ UNCHANGED <<el, mmu, icache, mapped, sync_table, irq_handler, gic, flag, faults>>
    BY <1>3, <2>2 DEF AccessPhys, Access, MayMiss
  <2>4. tlb' \subseteq {"image", "phys"}
    BY <1>a, <2>3 DEF Maps
  <2> QED
    BY <1>a, <2>1, <2>3, <2>4, ReturnKeeps DEF IInv, Switches, InstallCalls, IrqCalls, TrapCalls, Interrupts
<1>4. ASSUME NEW ec \in {"unknown", "dabt", "iabt"}, TakeSync(ec), Return,
             \/ Call = "undefined_instruction" /\ ec = "unknown" /\ Here = "undef"
             \/ Call = "read_unmapped" /\ ec = "dabt" /\ Here = "dfault"
             \/ Call = "call_unmapped" /\ ec = "iabt" /\ Here = "ifault",
             UNCHANGED <<el, mmu, icache, mapped, tlb, sync_table, irq_handler, gic, flag>>
      PROVE  IInv'
  <2>1. faults' = faults \cup {<<ec, Here>>}
    BY <1>4 DEF TakeSync, Here
  <2>2. \A c : Done(c)' => Done(c) \/ Call = c
    BY <1>4, ReturnFacts DEF IInv, Done
  <2>3. Here \in Range(order) /\ order' = order
    BY <1>4, <1>a, ReturnFacts DEF IInv, Here
  <2>4. Taken'
    BY <1>4, <1>a, <2>1, <2>2, <2>3 DEF Taken
  <2>5. tlb' \subseteq {"image", "phys"}
    BY <1>4, <1>a DEF Maps
  <2> QED
    BY <1>4, <1>a, <2>4, <2>5, ReturnKeeps DEF IInv, Switches, InstallCalls, IrqCalls, Interrupts
<1>5. CASE UndefinedInstruction /\ ~Abort
  <2>1. Call = "undefined_instruction" /\ TakeSync("unknown") /\ Return
    BY <1>5 DEF UndefinedInstruction, Trap
  <2>2. UNCHANGED <<el, mmu, icache, mapped, tlb, sync_table, irq_handler, gic, flag>>
    BY <1>5 DEF UndefinedInstruction, Trap
  <2> QED
    BY <1>4, <2>1, <2>2, CallFacts
<1>6. CASE ReadUnmapped /\ ~Abort
  <2>1. Call = "read_unmapped" /\ ~MayHit(FaultAddress)
    BY <1>6, <1>b, CallFacts, RegionFacts DEF ReadUnmapped, MayHit
  <2>2. /\ TakeSync("dabt") /\ Return
        /\ UNCHANGED <<el, mmu, icache, mapped, tlb, sync_table, irq_handler, gic, flag>>
    BY <1>6, <2>1 DEF ReadUnmapped, Trap
  <2> QED
    BY <1>4, <2>1, <2>2, CallFacts
<1>7. CASE CallUnmapped /\ ~Abort
  <2>1. /\ Call = "call_unmapped" /\ TakeSync("iabt") /\ Return
        /\ UNCHANGED <<el, mmu, icache, mapped, tlb, sync_table, irq_handler, gic, flag>>
    BY <1>7 DEF CallUnmapped, Trap
  <2> QED
    BY <1>4, <2>1, CallFacts
<1> QED
  BY <1>1, <1>2, <1>3, <1>5, <1>6, <1>7

\* Tables are edited with the MMU off and follow the program.
LEMMA MemoryKeeps ==
    ASSUME IInv, MemInit \/ MapPhys \/ MapValue \/ MmuEnable \/ MmuDisable \/ PrivEnter \/ PrivLeave
    PROVE  IInv'
<1> USE DEF Calls
<1>a. Modes /\ Maps /\ Handlers /\ Interrupts /\ Taken
  BY DEF IInv
<1>1. CASE Abort
  BY <1>1, StopKeeps DEF Abort
<1>2. CASE MemInit /\ ~Abort
  <2>1. /\ Call = "mem_init" /\ ~mmu /\ mapped' = {"image"} /\ Return
        /\ UNCHANGED <<el, mmu, icache, tlb, sync_table, irq_handler, gic, flag, faults>>
    BY <1>2 DEF MemInit, EditTables
  <2>2. Done("map_phys")' /\ ~Done("mmu_disable")' => FALSE
    BY <2>1, ReturnFacts, CallFacts DEF IInv, Done
  <2>3. Maps'
    BY <1>a, <2>1, <2>2 DEF Maps
  <2> QED
    BY <1>a, <2>1, <2>3, ReturnKeeps DEF IInv, Switches, InstallCalls, IrqCalls, TrapCalls, Interrupts
<1>3. CASE MapPhys /\ ~Abort
  <2>1. /\ Call = "map_phys" /\ ~mmu /\ mapped' = mapped \cup {"phys"} /\ Return
        /\ UNCHANGED <<el, mmu, icache, tlb, sync_table, irq_handler, gic, flag, faults>>
    BY <1>3 DEF MapPhys, EditTables
  <2>2. Done("map_phys")' /\ (Done("mem_init")' => Done("mem_init"))
    BY <2>1, ReturnFacts DEF IInv, Done
  <2>3. Maps'
    BY <1>a, <2>1, <2>2 DEF Maps
  <2> QED
    BY <1>a, <2>1, <2>3, ReturnKeeps DEF IInv, Switches, InstallCalls, IrqCalls, TrapCalls, Interrupts
<1>4. CASE MapValue /\ ~Abort
  <2>1. /\ Call = "map_value" /\ ~mmu /\ mapped' = mapped \cup {"image"} /\ Return
        /\ UNCHANGED <<el, mmu, icache, tlb, sync_table, irq_handler, gic, flag, faults>>
    BY <1>4 DEF MapValue, EditTables
  <2>2. /\ Done("map_phys") => Done("map_phys")'
        /\ Done("map_phys")' => Done("map_phys")
        /\ Done("map_phys")' /\ ~Done("mmu_disable")' => ~Done("mmu_disable")
    BY <2>1, ReturnFacts DEF IInv, Done
  <2>3. Maps'
    BY <1>a, <2>1, <2>2 DEF Maps
  <2> QED
    BY <1>a, <2>1, <2>3, ReturnKeeps DEF IInv, Switches, InstallCalls, IrqCalls, TrapCalls, Interrupts
<1>5. CASE MmuEnable /\ ~Abort
  <2>1. /\ Call = "mmu_enable" /\ mmu' = TRUE /\ tlb' = tlb \cup {"image"} /\ Return
        /\ UNCHANGED <<el, icache, mapped, sync_table, irq_handler, gic, flag, faults>>
    BY <1>5 DEF MmuEnable
  <2>2. Modes'
    <3>1. MmuOn(Here, at)' /\ (AtEl1(Here, at)' <=> AtEl1(Here, at))
      BY <2>1, ReturnFacts DEF IInv
    <3>2. mmu' \in BOOLEAN /\ mmu'
      BY <2>1
    <3> QED
      BY <1>a, <2>1, <3>1, <3>2 DEF Modes
  <2>3. tlb' \subseteq {"image", "phys"}
    BY <1>a, <2>1 DEF Maps
  <2> QED
    BY <1>a, <2>1, <2>2, <2>3, ReturnKeeps DEF IInv, Switches, InstallCalls, IrqCalls, TrapCalls, Interrupts
<1>6. CASE MmuDisable
  <2>1. /\ Call = "mmu_disable" /\ mmu' = FALSE /\ Return
        /\ UNCHANGED <<el, icache, mapped, tlb, sync_table, irq_handler, gic, flag, faults>>
    BY <1>6 DEF MmuDisable
  <2>2. Modes'
    <3>1. ~MmuOn(Here, at)' /\ (AtEl1(Here, at)' <=> AtEl1(Here, at))
      BY <2>1, ReturnFacts DEF IInv
    <3>2. mmu' \in BOOLEAN /\ ~mmu'
      BY <2>1
    <3> QED
      BY <1>a, <2>1, <3>1, <3>2 DEF Modes
  <2>3. tlb' \subseteq {"image", "phys"}
    BY <1>a, <2>1 DEF Maps
  <2> QED
    BY <1>a, <2>1, <2>2, <2>3, ReturnKeeps DEF IInv, Switches, InstallCalls, IrqCalls, TrapCalls, Interrupts
<1>7. CASE PrivEnter \/ PrivLeave
  <2>1. /\ \/ Call = "priv_enter" /\ el' = 1
           \/ Call = "priv_leave" /\ el' = 0
        /\ Return
        /\ UNCHANGED <<mmu, icache, mapped, tlb, sync_table, irq_handler, gic, flag, faults>>
    BY <1>7 DEF PrivEnter, PrivLeave, LevelLeft
  <2>2. Modes'
    BY <1>a, <2>1, ReturnFacts DEF IInv, Modes
  <2>3. tlb' \subseteq {"image", "phys"}
    BY <1>a, <2>1 DEF Maps
  <2> QED
    BY <1>a, <2>1, <2>2, <2>3, ReturnKeeps DEF IInv, Switches, InstallCalls, IrqCalls, TrapCalls, Interrupts
<1> QED
  BY <1>1, <1>2, <1>3, <1>4, <1>5, <1>6, <1>7

\* Handlers are there from the call that installs them on.
LEMMA InstallKeeps ==
    ASSUME IInv, Svc0 \/ InstallHandlers
    PROVE  IInv'
<1> USE DEF Calls
<1>a. Modes /\ Maps /\ Handlers /\ Interrupts /\ Taken
  BY DEF IInv
<1>b. tlb \subseteq {"image", "phys"}
  BY <1>a DEF Maps
<1>1. CASE Svc0
  <2>1. Call = "svc_0" /\ Return /\ UNCHANGED machine
    BY <1>1 DEF Svc0
  <2> QED
    BY <1>a, <1>b, <2>1, ReturnKeeps
    DEF IInv, Switches, InstallCalls, IrqCalls, TrapCalls, Interrupts, machine
<1>2. ASSUME NEW call, NEW ec, NEW handler, Install(call, ec, handler),
             \/ call = "undef_install_skip" /\ ec = "unknown" /\ handler = "exception_skip"
             \/ call = "dfault_install_skip" /\ ec = "dabt" /\ handler = "exception_skip"
             \/ call = "ifault_install_return" /\ ec = "iabt" /\ handler = "armv8_pabt_return"
      PROVE  IInv'
  <2>1. /\ Call = call /\ Return /\ sync_table' = [sync_table EXCEPT ![ec] = handler]
        /\ UNCHANGED <<el, mmu, icache, mapped, tlb, irq_handler, gic, flag, faults>>
    BY <1>2 DEF Install
  <2>2. \A c : Done(c)' => Done(c) \/ Call = c
    BY <2>1, ReturnFacts DEF IInv, Done
  <2>3. (\E j \in 1..(b - 1) : order[j] = "undef")'
          => (\E j \in 1..(b - 1) : order[j] = "undef") \/ Done("undef_install_skip")
    BY <2>1, ReturnFacts DEF IInv
  <2>4. Handlers'
    <3>1. /\ sync_table' \in [{"unknown", "svc", "dabt", "iabt"} ->
                         {"null", "handle_syscall", "exception_skip", "armv8_pabt_return"}]
          /\ sync_table'[ec] # "null"
          /\ \A e \in {"unknown", "dabt", "iabt"} : sync_table[e] # "null" => sync_table'[e] # "null"
      BY <1>2, <1>a, <2>1 DEF Handlers
    <3>2. (\E j \in 1..(b - 1) : order[j] = "undef")' => sync_table'["unknown"] # "null"
      BY <1>a, <2>3, <3>1 DEF Handlers
    <3>3. /\ Done("undef_install_skip")' => sync_table'["unknown"] # "null"
          /\ Done("dfault_install_skip")' => sync_table'["dabt"] # "null"
          /\ Done("ifault_install_return")' => sync_table'["iabt"] # "null"
      BY <1>2, <1>a, <2>1, <2>2, <3>1 DEF Handlers
    <3> QED
      BY <3>1, <3>2, <3>3 DEF Handlers
  <2> QED
    BY <1>2, <1>a, <1>b, <2>1, <2>4, ReturnKeeps DEF IInv, Switches, IrqCalls, TrapCalls, Interrupts
<1> QED
  BY <1>1, <1>2 DEF InstallHandlers

\* swi.c: the interrupt is outstanding between trigger and wait only.
LEMMA IrqKeeps ==
    ASSUME IInv, IrqEnable \/ IrqDisable \/ IrqInstallHandler \/ ClearFlag \/ TriggerSwi \/ WaitFlag
    PROVE  IInv'
<1> USE DEF Calls
<1>a. Modes /\ Maps /\ Handlers /\ Interrupts /\ Taken /\ order[b] \in Range(order)
  BY HereFacts DEF IInv
<1>b. tlb \subseteq {"image", "phys"}
  BY <1>a DEF Maps
<1>1. CASE Abort
  BY <1>1, StopKeeps DEF Abort
<1>2. CASE (IrqEnable \/ IrqDisable) /\ ~Abort
  <2>1. /\ Call \in {"irq_enable", "irq_disable"} /\ Return /\ icache' \in BOOLEAN
        /\ faults' \in {faults, faults \cup {<<"unknown", order[b]>>}}
        /\ UNCHANGED <<el, mmu, mapped, tlb, sync_table, irq_handler, gic, flag>>
    BY <1>2 DEF IrqEnable, IrqDisable, SetIrq
  <2>2. order[b] = "swi" /\ order' = order /\ \A c : Done(c)' => Done(c) \/ Call = c
    BY <2>1, CallFacts, ReturnFacts DEF IInv, Here, Done
  <2>3. Taken'
    BY <1>a, <2>1, <2>2 DEF Taken
  <2> QED
    BY <1>a, <1>b, <2>1, <2>3, ReturnKeeps DEF IInv, Switches, InstallCalls, IrqCalls
<1>3. CASE IrqInstallHandler \/ ClearFlag \/ TriggerSwi \/ WaitFlag
  <2>1. /\ Return /\ Call \in IrqCalls
        /\ UNCHANGED <<el, mmu, icache, mapped, tlb, sync_table, faults>>
        /\ \/ Call = "irq_install_handler" /\ irq_handler' = TRUE /\ UNCHANGED <<gic, flag>>
           \/ Call = "clear_flag" /\ flag' = FALSE /\ UNCHANGED <<gic, irq_handler>>
           \/ Call = "trigger_swi" /\ gic' \in {gic, "pending"} /\ UNCHANGED <<flag, irq_handler>>
           \/ Call = "wait_flag" /\ flag /\ UNCHANGED <<flag, gic, irq_handler>>
    BY <1>3 DEF IrqInstallHandler, ClearFlag, TriggerSwi, WaitFlag, IrqCalls, machine
  <2>2. /\ \A c : Done(c)' => Done(c) \/ Call = c
        /\ Call = "trigger_swi" => Call' = "wait_flag"
        /\ Call' = "trigger_swi" => Call = "clear_flag"
    BY <2>1, ReturnFacts DEF IInv, Done
  <2>3. Interrupts'
    <3>1. CASE Call = "irq_install_handler"
      <4>1. irq_handler' /\ irq_handler' \in BOOLEAN /\ UNCHANGED <<gic, flag, icache>>
        BY <2>1, <3>1
      <4> QED
        BY <1>a, <2>2, <3>1, <4>1 DEF Interrupts
    <3>2. CASE Call = "clear_flag"
      <4>1. ~flag' /\ flag' \in BOOLEAN /\ UNCHANGED <<gic, irq_handler, icache>>
        BY <2>1, <3>2
      <4> QED
        BY <1>a, <2>2, <3>2, <4>1 DEF Interrupts
    <3>3. CASE Call \in {"trigger_swi", "wait_flag"}
      BY <1>a, <2>1, <2>2, <3>3 DEF Interrupts
    <3> QED
      BY <2>1, <3>1, <3>2, <3>3
  <2> QED
    BY <1>a, <1>b, <2>1, <2>3, ReturnKeeps DEF IInv, Switches, InstallCalls, IrqCalls, TrapCalls
<1> QED
  BY <1>1, <1>2, <1>3

\* The interrupt itself comes at wait_flag, and leaves nothing outstanding.
LEMMA TakeIrqKeeps ==
    ASSUME IInv, TakeIrq
    PROVE  IInv'
<1>1. CASE Abort
  BY <1>1, StopKeeps DEF Abort
<1>2. CASE ~Abort
  <2>1. /\ gic = "pending" /\ flag' = TRUE /\ gic' = "idle"
        /\ UNCHANGED <<order, b, at, iter, status, el, mmu, icache, mapped, tlb, sync_table, irq_handler, faults>>
    BY <1>2 DEF TakeIrq, ClearSwi
  <2>2. Position' /\ Modes' /\ Maps' /\ Handlers' /\ Taken'
    BY <2>1 DEF IInv, Position, Modes, Maps, Handlers, Taken, Here, Done
  <2>3. Call' = Call /\ (Done("irq_install_handler")' <=> Done("irq_install_handler"))
    BY <2>1 DEF Call, Done, Here
  <2>4. Interrupts'
    BY <2>1, <2>3 DEF IInv, Interrupts
  <2> QED
    BY <2>1, <2>2, <2>4 DEF IInv
<1> QED
  BY <1>1, <1>2

LEMMA StepIInv == IInv /\ [Next]_vars => IInv'
<1> SUFFICES ASSUME IInv, [Next]_vars PROVE IInv'
  OBVIOUS
<1>1. CASE Step
  BY <1>1, TrapKeeps, MemoryKeeps, InstallKeeps, IrqKeeps DEF Step
<1>2. CASE TakeIrq
  BY <1>2, TakeIrqKeeps
<1>3. CASE UNCHANGED vars
  BY <1>3, StopKeeps DEF IInv, vars
<1> QED
  BY <1>1, <1>2, <1>3 DEF Next, Spin

LEMMA SuiteInvariant == Spec => []IInv
<1> QED
  BY InitIInv, StepIInv, PTL DEF Spec

------------------------------------------------------------------------------
(* The properties *)

\* Every variable keeps its type, whatever the link order and the number of
\* iterations (harness.c, arch/armv8).
THEOREM SuiteTypeCorrect == Spec => []TypeOK
<1>1. IInv => TypeOK
  <2> SUFFICES ASSUME IInv PROVE TypeOK
    OBVIOUS
  <2>1. /\ order \in Orders /\ b \in DOMAIN order /\ at \in 1..Len(Program(order[b])) /\ iter \in 1..Iters
    BY OrderAssumption DEF IInv, Position, Here
  <2>2. DOMAIN sync_table = {"unknown", "svc", "dabt", "iabt"}
    BY DEF IInv, Handlers
  <2>3. faults \subseteq (DOMAIN sync_table) \X Range(order)
    BY <2>2 DEF IInv, Taken
  <2> QED
    BY <2>1, <2>3 DEF IInv, Modes, Maps, Handlers, Interrupts, TypeOK
<1> QED
  BY <1>1, SuiteInvariant, PTL

\* Whatever ran before it, a benchmark starts with the MMU off, at EL0, with
\* nothing but the image mapped and no interrupt outstanding.
THEOREM SuiteCleanStart == Spec => []CleanStart
<1>1. IInv => CleanStart
  <2> SUFFICES ASSUME IInv, at = 1 PROVE ~mmu /\ el = 0 /\ gic = "idle" /\ mapped \subseteq {"image"}
    BY DEF CleanStart
  <2>1. \A c : ~Done(c)
    BY BeforeFacts DEF Done
  <2>2. ~mmu /\ el = 0
    BY <2>1 DEF IInv, Modes, MmuOn, AtEl1, Done
  <2>3. mapped \subseteq {"image"}
    BY <2>1 DEF IInv, Maps
  <2>4. Call # "wait_flag"
    BY HereFacts DEF IInv, Shape, TriggerShape, Call, Here
  <2> QED
    BY <2>2, <2>3, <2>4 DEF IInv, Interrupts
<1> QED
  BY <1>1, SuiteInvariant, PTL

\* Exceptions are taken by the benchmarks about them, with their own class, and
\* each of those has taken its own by the time it turns the MMU off.
THEOREM SuiteFaultsWhereMeant == Spec => []FaultsWhereMeant
<1>1. IInv => FaultsWhereMeant
  <2> SUFFICES ASSUME IInv PROVE FaultsWhereMeant
    OBVIOUS
  <2>1. Call = "mmu_disable" =>
          /\ Here = "undef" => Done("undefined_instruction")
          /\ Here = "dfault" => Done("read_unmapped")
          /\ Here = "ifault" => Done("call_unmapped")
    BY HereFacts DEF IInv, Position, Shape, TrapShape, Call, Here, Done
  <2>2. Call = "mmu_disable" /\ Here \in {"undef", "dfault", "ifault"}
          => \E f \in faults : f[2] = Here
    BY <2>1 DEF IInv, Taken
  <2> QED
    BY <2>2 DEF FaultsWhereMeant, IInv, Taken, Here
<1> QED
  BY <1>1, SuiteInvariant, PTL

\* flag is set by the interrupt just triggered: none is left over when swi.c
\* clears it.
THEOREM SuiteOneInterruptPerTrigger == Spec => []OneInterruptPerTrigger
<1>1. IInv => OneInterruptPerTrigger
  BY DEF IInv, Interrupts, OneInterruptPerTrigger
<1> QED
  BY <1>1, SuiteInvariant, PTL

\* The handler of swi.c is installed by the time an interrupt is outstanding.
LEMMA WaitHasHandler ==
    ASSUME IInv, Call = "wait_flag"
    PROVE  el = 0 /\ irq_handler
<1>1. Here = "swi" /\ el = 0 /\ Call = Program(Here)[at] /\ at \in 1..Len(Program(Here))
  BY CallFacts DEF Call, Here, IInv, Position
<1>2. at > 3 /\ Program("swi")[3] = "irq_install_handler"
  BY <1>1, SwiProgram DEF Spells
<1>3. Done("irq_install_handler")
  BY <1>1, <1>2, HereFacts DEF Done, Before, IInv
<1> QED
  BY <1>1, <1>3 DEF IInv, Interrupts

\* A step that aborts is the read of CurrentEL in swi.c, without the handler
\* that undef.c leaves.
LEMMA AbortFacts ==
    ASSUME 1 \notin StaleReg, IInv, Next, status = "run", status' = "abort"
    PROVE  order' = order /\ ~UndefBeforeSwi
<1> USE DEF Calls
<1>r. ~Return
  BY ReturnFacts DEF IInv
<1>a. Abort
  BY <1>r DEF Next, Step, TakeIrq, Spin, UndefinedInstruction, Trap, Svc0, ReadUnmapped, CallUnmapped,
    AccessImage, AccessPhys, Access, InstallHandlers, Install, MemInit, MapPhys, MapValue, EditTables,
    MmuEnable, MmuDisable, PrivEnter, PrivLeave, IrqEnable, IrqDisable, SetIrq, IrqInstallHandler,
    ClearFlag, TriggerSwi, WaitFlag
<1>b. mapped \subseteq {"image", "phys"} /\ mapped \cup tlb \subseteq {"image", "phys"}
  BY DEF IInv, Maps
<1>1. ~UndefinedInstruction /\ ~Svc0
  BY <1>r, CallFacts DEF UndefinedInstruction, Trap, Handled, Svc0
<1>2. ~ReadUnmapped
  BY <1>r, CallFacts DEF ReadUnmapped, Trap, Handled
<1>3. ~CallUnmapped
  BY <1>r, <1>b, CallFacts, RegionFacts DEF CallUnmapped, Trap, Handled, MayHit
<1>4. ~AccessImage
  <2>1. ~MayMiss(Region["image"][1])
    BY <1>b, CallFacts, RegionFacts DEF MayMiss
  <2> QED
    BY <1>r, <2>1 DEF AccessImage, Access
<1>5. ~AccessPhys
  <2>1. Call = "access_phys" => ~MayMiss(Region["phys"][1])
    BY <1>b, CallFacts, RegionFacts DEF MayMiss
  <2> QED
    BY <1>r, <2>1 DEF AccessPhys, Access
<1>6. ~InstallHandlers /\ ~MmuDisable /\ ~PrivEnter /\ ~PrivLeave
      /\ ~IrqInstallHandler /\ ~ClearFlag /\ ~TriggerSwi /\ ~WaitFlag
  BY <1>r DEF InstallHandlers, Install, MmuDisable, PrivEnter, PrivLeave, IrqInstallHandler,
    ClearFlag, TriggerSwi, WaitFlag
<1>7. ~MemInit /\ ~MapPhys /\ ~MapValue /\ ~MmuEnable
  BY <1>r, CallFacts DEF MemInit, MapPhys, MapValue, EditTables, MmuEnable
<1>8. ~TakeIrq
  <2>1. gic = "pending" => el = 0 /\ irq_handler
    BY WaitHasHandler DEF IInv, Interrupts
  <2> QED
    BY <2>1 DEF TakeIrq
<1>9. IrqEnable \/ IrqDisable
  BY <1>1, <1>2, <1>3, <1>4, <1>5, <1>6, <1>7, <1>8 DEF Next, Step, Spin
<1>10. Here = "swi" /\ el = 0
  BY <1>9, CallFacts DEF IrqEnable, IrqDisable, SetIrq
<1>11. TRUE \notin InEl1
  BY <1>10 DEF InEl1
<1>12. sync_table["unknown"] = "null"
  BY <1>r, <1>9, <1>10, <1>11 DEF IrqEnable, IrqDisable, SetIrq, Handled
<1>13. ~(\E j \in 1..(b - 1) : order[j] = "undef")
  BY <1>12 DEF IInv, Handlers
<1>14. b \in DOMAIN order
  BY OrderAssumption DEF IInv, Position
<1> QED
  BY <1>a, <1>10, <1>13, <1>14 DEF UndefBeforeSwi, Abort, Here

\* No link order that puts undef.c before swi.c ends in arch_abort: no
\* exception without a handler, no table edited with the MMU on, no interrupt
\* at EL1.  The hypothesis is about armv8_in_el1, which compares with 1 a
\* register that the skipped read of CurrentEL has left as it was.
THEOREM SuiteNoAbort ==
    ASSUME 1 \notin StaleReg
    PROVE  Spec => []NoAbort
<1>1. Init => NoAbort
  BY DEF Init, NoAbort
<1>2. IInv /\ NoAbort /\ [Next]_vars => NoAbort'
  <2> SUFFICES ASSUME IInv, NoAbort, [Next]_vars, status' = "abort"
               PROVE  ~UndefBeforeSwi'
    BY DEF NoAbort
  <2>1. CASE UNCHANGED vars
    BY <2>1 DEF vars, NoAbort, UndefBeforeSwi
  <2>2. CASE status = "run" /\ Next
    BY <2>2, AbortFacts DEF UndefBeforeSwi
  <2>3. CASE status # "run" /\ Next
    <3>1. UNCHANGED vars
      BY <2>3 DEF Next, Step, TakeIrq, Spin, UndefinedInstruction, Trap, Svc0, ReadUnmapped, CallUnmapped,
        AccessImage, AccessPhys, Access, InstallHandlers, Install, MemInit, MapPhys, MapValue, EditTables,
        MmuEnable, MmuDisable, PrivEnter, PrivLeave, IrqEnable, IrqDisable, SetIrq, IrqInstallHandler,
        ClearFlag, TriggerSwi, WaitFlag, Calls
    <3> QED
      BY <3>1 DEF vars, NoAbort, UndefBeforeSwi
  <2> QED
    BY <2>1, <2>2, <2>3
<1> QED
  BY <1>1, <1>2, SuiteInvariant, PTL DEF Spec

=============================================================================
