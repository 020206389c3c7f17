----------------------------- MODULE Armv8Suite -----------------------------
(***************************************************************************)
(* The benchmark suite running on the ARMv8 port: the calls that each      *)
(* benchmark's kernel_init, kernel and kernel_cleanup make, in the order   *)
(* of harness_execute, against the exception dispatch of                   *)
(* arch/armv8/exception.c and vectors.S, the system calls of syscall.c,    *)
(* the MMU switch of mem.c and the software interrupt of platform/virt.    *)
(*                                                                         *)
(* Benchmarks share the machine: handlers installed by one stay installed  *)
(* for the next, and each must put back the MMU, the exception level and   *)
(* the interrupt controller.                                               *)
(***************************************************************************)
EXTENDS Naturals, Sequences, SequencesExt

CONSTANTS
    Orders,    \* the link orders: what harness_main walks
    Iters,     \* iterations of a kernel
    StaleReg   \* what a register may hold when "mrs CurrentEL" is skipped

ASSUME SuiteAssumption == Iters \in Nat \ {0} /\ <<>> \notin Orders

VARIABLES
    order,        \* the benchmarks of the image, in link order; never changes
    b, at,        \* the benchmark, and the call of it that comes next
    iter,         \* the iteration of its kernel
    status,       \* "run", "abort" (arch_abort) or "done"
    el,           \* exception level of the benchmark code
    mmu, icache,  \* SCTLR_EL1 bits M and I
    mapped,       \* the regions the translation tables map
    tlb,          \* the regions of which a TLB may still hold translations
    sync_table,   \* el0_sync_table: exception class to handler
    irq_handler,  \* whether el0_irq_handler_ is set
    gic,          \* state of SGI 0
    flag,         \* swi.c: the handler has run
    faults        \* the synchronous exceptions taken, and in which benchmark

machine == <<el, mmu, icache, mapped, tlb, sync_table, irq_handler, gic, flag, faults>>
vars == <<order, b, at, iter, status, machine>>

------------------------------------------------------------------------------
(* The benchmarks: the calls of kernel_init, kernel_control, one iteration  *)
(* of the kernel, and kernel_cleanup.  mem_tlb_flush and mem_tlb_evict do   *)
(* nothing on this port, and mem_reset is mem_init.                         *)

\* Benchmarks that only turn the MMU on, and those that map all of the
\* physical memory first.
MmuInit == <<"mem_init", "mmu_enable">>
PhysInit == <<"mem_init", "map_phys", "mmu_enable">>

\* Mutant: the tables are reset before the MMU is off.
ResetFirst == <<"mem_init", "mmu_disable">>
MmuCleanup == <<"mmu_disable", "mem_init">>

WithMmu(init, kernel) ==
    [init |-> init, control |-> <<>>, kernel |-> kernel, cleanup |-> MmuCleanup, priv |-> FALSE]
NoMmu(kernel) ==
    [init |-> <<>>, control |-> <<>>, kernel |-> kernel, cleanup |-> <<>>, priv |-> FALSE]
Controlled(bench) == [bench EXCEPT !.control = <<"access_image">>]

Undef == WithMmu(Append(MmuInit, "undef_install_skip"), <<"undefined_instruction">>)
Swi == [WithMmu(MmuInit \o <<"irq_install_handler", "irq_enable">>,
                <<"clear_flag", "trigger_swi", "wait_flag">>)
          EXCEPT !.cleanup = <<"irq_disable">> \o @]
Syscall == WithMmu(MmuInit, <<"svc_0">>)
Dfault == WithMmu(Append(MmuInit, "dfault_install_skip"), <<"read_unmapped">>)
Ifault == WithMmu(Append(MmuInit, "ifault_install_return"), <<"call_unmapped">>)
SmallBlocks == [Controlled(NoMmu(<<"access_image">>)) EXCEPT !.init = <<"access_image">>]
LargeBlocks == Controlled(NoMmu(<<"access_image">>))
Dispatch == NoMmu(<<"access_image">>)
TlbFlush == WithMmu(PhysInit, <<"access_phys">>)
TlbEvict == WithMmu(PhysInit, <<"access_phys">>)
HotNoMmu == Controlled(NoMmu(<<"access_image">>))
HotMmu == Controlled(WithMmu(MmuInit, <<"access_image">>))
ColdNoMmu == Controlled(NoMmu(<<"access_phys">>))
ColdMmu == Controlled(WithMmu(PhysInit, <<"access_phys">>))
NonPriv == [WithMmu(<<"mem_init", "map_value", "mmu_enable">>, <<"access_image">>) EXCEPT !.priv = TRUE]
DeviceAccess == NoMmu(<<"access_image">>)
Coprocessor == NoMmu(<<"access_image">>)

Benchmarks ==
    [undef |-> Undef, swi |-> Swi, syscall |-> Syscall, dfault |-> Dfault, ifault |-> Ifault,
     small_blocks |-> SmallBlocks, large_blocks |-> LargeBlocks, dispatch |-> Dispatch,
     tlb_flush |-> TlbFlush, tlb_evict |-> TlbEvict, hot_nommu |-> HotNoMmu, hot_mmu |-> HotMmu,
     cold_nommu |-> ColdNoMmu, cold_mmu |-> ColdMmu, nonpriv |-> NonPriv,
     device_access |-> DeviceAccess, coprocessor |-> Coprocessor]

\* harness_execute: kernel_priv wraps the control and the kernel, and there is
\* one more arch_priv_leave at the end.
IfPriv(k, call) == IF Benchmarks[k].priv THEN <<call>> ELSE <<>>
Control(k) ==
    IF Benchmarks[k].control = <<>> THEN <<>>
    ELSE IfPriv(k, "priv_enter") \o Benchmarks[k].control \o IfPriv(k, "priv_leave")
BeforeKernel(k) == Benchmarks[k].init \o Control(k) \o IfPriv(k, "priv_enter")
AfterKernel(k) == IfPriv(k, "priv_leave") \o Benchmarks[k].cleanup \o IfPriv(k, "priv_leave")
Program(k) == BeforeKernel(k) \o Benchmarks[k].kernel \o AfterKernel(k)

Call == Program(order[b])[at]

\* The link orders are made of these benchmarks.
ASSUME OrderAssumption == Orders \subseteq Seq(DOMAIN Benchmarks)

------------------------------------------------------------------------------
(* Stepping and exceptions *)

\* The kernel's loop, from its first call to its last.
LoopStart(k) == Len(BeforeKernel(k)) + 1
LoopEnd(k) == Len(BeforeKernel(k) \o Benchmarks[k].kernel)
Loops == at = LoopEnd(order[b]) /\ iter < Iters

\* The call returns; after the last one harness_main goes to the next entry.
\* Mutant: it runs past _BENCHMARKS_END.
ReturnPastEnd ==
    /\ UNCHANGED <<order, status>>
    /\ IF Loops THEN at' = LoopStart(order[b]) /\ iter' = iter + 1 /\ UNCHANGED b
       ELSE IF at < Len(Program(order[b])) THEN at' = at + 1 /\ UNCHANGED <<b, iter>>
       ELSE b' = b + 1 /\ at' = 1 /\ iter' = 1
Return ==
    /\ UNCHANGED order
    /\ IF Loops THEN at' = LoopStart(order[b]) /\ iter' = iter + 1 /\ UNCHANGED <<b, status>>
       ELSE IF at < Len(Program(order[b])) THEN at' = at + 1 /\ UNCHANGED <<b, iter, status>>
       ELSE IF b < Len(order) THEN b' = b + 1 /\ at' = 1 /\ iter' = 1 /\ UNCHANGED status
       ELSE status' = "done" /\ UNCHANGED <<b, at, iter>>

Abort == status' = "abort" /\ UNCHANGED <<order, b, at, iter, machine>>

Calls(c) == status = "run" /\ Call = c

\* el1_lower_sync_handler: dispatch on the class; arch_abort when there is no
\* handler.  From EL1 a fault has another class, which has none.  The system
\* call handler is there from arch_init on, and serves both levels.
Handled(ec) == sync_table[ec] # "null" /\ el = 0
TakeSync(ec) == faults' = faults \cup {<<ec, order[b]>>}

\* An exception that its handler steps over.
Trap(call, ec) ==
    /\ Calls(call)
    /\ \/ ~Handled(ec) /\ Abort
       \/ /\ Handled(ec) /\ TakeSync(ec) /\ Return
          /\ UNCHANGED <<el, mmu, icache, mapped, tlb, sync_table, irq_handler, gic, flag>>

UndefinedInstruction == Trap("undefined_instruction", "unknown")
Svc0 == Calls("svc_0") /\ Return /\ UNCHANGED machine

\* Where the regions are, in MB, and the address of dfault.c and ifault.c.
\* Mutant: the physical memory reaches up to it.
PhysUpToFault == [image |-> <<1024, 1025>>, phys |-> <<2048, 3073>>]
Region == [image |-> <<1024, 1025>>, phys |-> <<2048, 2560>>]
FaultAddress == 3072

\* Regions may be looked up in the tables or, since nothing here flushes the
\* TLB, in what it keeps of the tables as they were.
Covers(regions, a) == \E r \in regions : Region[r][1] <= a /\ a < Region[r][2]
MayHit(a) == ~mmu \/ Covers(mapped \cup tlb, a)
MayMiss(a) == mmu /\ ~Covers(mapped, a)

ReadUnmapped ==
    /\ Calls("read_unmapped")
    /\ \/ MayHit(FaultAddress) /\ Return /\ UNCHANGED machine
       \/ MayMiss(FaultAddress) /\ Trap("read_unmapped", "dabt")

\* A call that does not fault runs whatever is there.
CallUnmapped ==
    /\ Calls("call_unmapped")
    /\ \/ MayHit(FaultAddress) /\ Abort
       \/ MayMiss(FaultAddress) /\ Trap("call_unmapped", "iabt")

\* A load or store; with the MMU on an unmapped region faults.
Access(call, region) ==
    LET a == Region[region][1]
    IN  /\ Calls(call)
        /\ \/ /\ MayHit(a) /\ Return
              /\ tlb' = IF mmu THEN tlb \cup {region} ELSE tlb
              /\ UNCHANGED <<el, mmu, icache, mapped, sync_table, irq_handler, gic, flag, faults>>
           \/ MayMiss(a) /\ Trap(call, "dabt")

AccessImage == Access("access_image", "image")
AccessPhys == Access("access_phys", "phys")

\* Handlers are installed by plain stores and never removed.
Install(call, ec, handler) ==
    /\ Calls(call) /\ Return
    /\ sync_table' = [sync_table EXCEPT ![ec] = handler]
    /\ UNCHANGED <<el, mmu, icache, mapped, tlb, irq_handler, gic, flag, faults>>

InstallHandlers ==
    \/ Install("undef_install_skip", "unknown", "exception_skip")
    \/ Install("dfault_install_skip", "dabt", "exception_skip")
    \/ Install("ifault_install_return", "iabt", "armv8_pabt_return")

------------------------------------------------------------------------------
(* Memory: the heap that holds the tables is not mapped, so that touching a *)
(* table with the MMU on faults inside the handler and ends in arch_abort.  *)

EditTables(call, regions) ==
    /\ Calls(call)
    /\ \/ mmu /\ Abort
       \/ /\ ~mmu /\ mapped' = regions /\ Return
          /\ UNCHANGED <<el, mmu, icache, tlb, sync_table, irq_handler, gic, flag, faults>>

MemInit == EditTables("mem_init", {"image"})
MapPhys == EditTables("map_phys", mapped \cup {"phys"})
MapValue == EditTables("map_value", mapped \cup {"image"})

\* syscall_mem_mmu_enable: the next fetch needs the image mapped, and the TLB
\* gets its translation.
MmuEnable ==
    /\ Calls("mmu_enable")
    /\ \/ "image" \notin mapped /\ Abort
       \/ /\ "image" \in mapped /\ mmu' = TRUE /\ tlb' = tlb \cup {"image"} /\ Return
          /\ UNCHANGED <<el, icache, mapped, sync_table, irq_handler, gic, flag, faults>>

MmuDisable ==
    /\ Calls("mmu_disable") /\ mmu' = FALSE /\ Return
    /\ UNCHANGED <<el, icache, mapped, tlb, sync_table, irq_handler, gic, flag, faults>>

\* syscall_priv_enter and syscall_priv_leave rewrite SPSR_EL1 before eret.
\* Mutant: leaving does not clear the level bits.
LevelKept == el
LevelLeft == 0
PrivEnter ==
    /\ Calls("priv_enter") /\ el' = 1 /\ Return
    /\ UNCHANGED <<mmu, icache, mapped, tlb, sync_table, irq_handler, gic, flag, faults>>
PrivLeave ==
    /\ Calls("priv_leave") /\ el' = LevelLeft /\ Return
    /\ UNCHANGED <<mmu, icache, mapped, tlb, sync_table, irq_handler, gic, flag, faults>>

------------------------------------------------------------------------------
(* Interrupts *)

\* armv8_in_el1 reads CurrentEL and compares with 1: at EL1 the register is 4,
\* at EL0 the read is undefined and exception_skip leaves a stale register.
InEl1 == IF el = 1 THEN {FALSE} ELSE {v = 1 : v \in StaleReg}

\* arch_irq_enable and arch_irq_disable: the check, then a system call that
\* clears or sets bit 12 of SCTLR_EL1.  PSTATE.I is not touched.
SetIrq(call, icacheOn) ==
    /\ Calls(call)
    /\ \/ el = 0 /\ ~Handled("unknown") /\ Abort
       \/ TRUE \in InEl1 /\ Abort
       \/ /\ el = 1 \/ Handled("unknown")
          /\ FALSE \in InEl1
          /\ faults' = IF el = 0 THEN faults \cup {<<"unknown", order[b]>>} ELSE faults
          /\ icache' = icacheOn
          /\ Return
          /\ UNCHANGED <<el, mmu, mapped, tlb, sync_table, irq_handler, gic, flag>>

IrqEnable == SetIrq("irq_enable", FALSE)
IrqDisable == SetIrq("irq_disable", TRUE)

IrqInstallHandler ==
    /\ Calls("irq_install_handler") /\ irq_handler' = TRUE /\ Return
    /\ UNCHANGED <<el, mmu, icache, mapped, tlb, sync_table, gic, flag, faults>>

ClearFlag ==
    /\ Calls("clear_flag") /\ flag' = FALSE /\ Return
    /\ UNCHANGED <<el, mmu, icache, mapped, tlb, sync_table, irq_handler, gic, faults>>

\* platform_trigger_swi: an SGI that is still active is not signalled again.
TriggerSwi ==
    /\ Calls("trigger_swi") /\ Return
    /\ gic' = IF gic = "active" THEN gic ELSE "pending"
    /\ UNCHANGED <<el, mmu, icache, mapped, tlb, sync_table, irq_handler, flag, faults>>

WaitFlag == Calls("wait_flag") /\ flag /\ Return /\ UNCHANGED machine

\* platform_clear_swi: acknowledge, clear pending, end of interrupt.  Mutants:
\* not acknowledged; no end of interrupt.
NotAcknowledged == "pending"
NoEndOfInterrupt == "active"
ClearSwi == "idle"

\* The interrupt arrives between any two calls; el1_lower_irq_handler runs the
\* handler of swi.c.  Taken from EL1 it goes to a vector that aborts.
TakeIrq ==
    /\ status = "run" /\ gic = "pending"
    /\ \/ (el = 1 \/ ~irq_handler) /\ Abort
       \/ /\ el = 0 /\ irq_handler
          /\ flag' = TRUE /\ gic' = ClearSwi
          /\ UNCHANGED <<order, b, at, iter, status, el, mmu, icache, mapped, tlb, sync_table, irq_handler, faults>>

------------------------------------------------------------------------------
\* After reset.S and arch_init, which sets the I and C bits and installs the
\* system call handler.
Init ==
    /\ order \in Orders /\ b = 1 /\ at = 1 /\ iter = 1 /\ status = "run"
    /\ el = 0 /\ mmu = FALSE /\ icache = TRUE /\ mapped = {} /\ tlb = {}
    /\ sync_table = [ec \in {"unknown", "svc", "dabt", "iabt"} |->
                        IF ec = "svc" THEN "handle_syscall" ELSE "null"]
    /\ irq_handler = FALSE /\ gic = "idle" /\ flag = FALSE /\ faults = {}

Step ==
    \/ UndefinedInstruction \/ Svc0 \/ ReadUnmapped \/ CallUnmapped
    \/ AccessImage \/ AccessPhys \/ InstallHandlers
    \/ MemInit \/ MapPhys \/ MapValue \/ MmuEnable \/ MmuDisable \/ PrivEnter \/ PrivLeave
    \/ IrqEnable \/ IrqDisable \/ IrqInstallHandler
    \/ ClearFlag \/ TriggerSwi \/ WaitFlag

\* platform_shutdown and arch_abort: while(1).
Spin == status # "run" /\ UNCHANGED vars

Next == Step \/ TakeIrq \/ Spin

\* The processor keeps executing and takes a pending interrupt.
Spec == Init /\ [][Next]_vars /\ WF_vars(Step) /\ WF_vars(TakeIrq)

------------------------------------------------------------------------------
(* Properties *)

TypeOK ==
    /\ order \in Orders /\ b \in DOMAIN order /\ at \in 1..Len(Program(order[b]))
    /\ iter \in 1..Iters
    /\ status \in {"run", "abort", "done"} /\ el \in {0, 1}
    /\ {mmu, icache, irq_handler, flag} \subseteq BOOLEAN
    /\ mapped \subseteq {"image", "phys"} /\ tlb \subseteq {"image", "phys"}
    /\ sync_table \in [{"unknown", "svc", "dabt", "iabt"} ->
                         {"null", "handle_syscall", "exception_skip", "armv8_pabt_return"}]
    /\ gic \in {"idle", "pending", "active"}
    /\ faults \subseteq (DOMAIN sync_table) \X Range(order)

\* undef.c has run before swi.c, as benchmarks/Makefile orders them.
UndefBeforeSwi ==
    \A i \in DOMAIN order : order[i] = "swi" => \E j \in 1..(i - 1) : order[j] = "undef"

\* With undef.c before swi.c no benchmark meets an exception without a handler,
\* edits a table with the MMU on, or is interrupted at EL1, whatever the rest
\* of the link order; swi.c needs the handler that undef.c leaves behind.
NoAbort == status = "abort" => ~UndefBeforeSwi

\* Every benchmark starts on a clean machine: MMU off, EL0, nothing but the
\* image mapped, no interrupt outstanding from an earlier benchmark.
CleanStart == at = 1 => ~mmu /\ el = 0 /\ gic = "idle" /\ mapped \subseteq {"image"}

\* Handlers stay installed, so a wrong access in a later benchmark would be
\* skipped silently and timed: no benchmark but the ones about faults takes
\* one (arch_irq_enable of swi.c takes one for its read of CurrentEL).  And
\* those do fault, each with its own exception, also where the TLB that
\* mem_tlb_flush leaves alone remembers what an earlier benchmark mapped.
FaultsWhereMeant ==
    /\ faults \subseteq {<<"unknown", "undef">>, <<"unknown", "swi">>,
                         <<"dabt", "dfault">>, <<"iabt", "ifault">>}
    /\ status = "run" /\ Call = "mmu_disable" /\ order[b] \in {"undef", "dfault", "ifault"}
         => \E f \in faults : f[2] = order[b]

\* An iteration of swi.c starts with no interrupt left from the one before:
\* flag is set by the interrupt just triggered and by no other.
OneInterruptPerTrigger == status = "run" /\ Call = "clear_flag" => gic = "idle"

\* Every trigger is answered, so that the whole suite runs to the end.
SuiteCompletes == UndefBeforeSwi => <>(status = "done")

\* arch_init enables the instruction cache ("enable caches") for the
\* benchmarks that follow.
ICacheStaysOn == icache
==============================================================================
