------------------------------ MODULE X86Suite ------------------------------
(***************************************************************************)
(* The benchmark suite running on the x86_64 port: boot, the two sets of   *)
(* page tables and the heap they share with the stack (mem.c, heap.c,      *)
(* boot.S), the trap handlers (irq.c, exception.c), the local APIC's       *)
(* self-interrupt, and the calls that each benchmark makes, in the order   *)
(* of harness_execute.                                                     *)
(*                                                                         *)
(* Paging is never off here: "MMU off" is the initial tables, which map    *)
(* the first gigabyte and the APIC, and "MMU on" the runtime tables.       *)
(* Addresses are counted in 2 MB, what one page table covers.  Every       *)
(* mapping is an identity and no present entry ever changes, so that a     *)
(* TLB, emptied by each write to CR3, has nothing of its own to show.      *)
(***************************************************************************)
EXTENDS X86Decode, FiniteSets

CONSTANTS
    Images,      \* the images: link order, and the load that dfault.c compiles to
    Iters,       \* iterations of a kernel
    PhysStart, PhysEnd,  \* mem_get_phys_info
    Calibrates,  \* platform_init calls timer_init: the native platform's does
    HeapPages,   \* _HEAP_SIZE / 4096
    StackPages   \* pages at the end of the heap that live stack frames occupy

ASSUME X86Assumption ==
    /\ Iters \in Nat \ {0}
    \* The physical memory is in the gigabyte that boot.S maps.
    /\ PhysStart \in Nat /\ PhysEnd \in PhysStart..512
    /\ Calibrates \in BOOLEAN /\ HeapPages \in Nat /\ StackPages \in 1..HeapPages

VARIABLES
    image,        \* the image that runs; never changes
    b, at,        \* the benchmark (0: boot) and the call of it that comes next
    iter,         \* the iteration of its kernel
    status,       \* "run", "abort" (arch_abort), "lost" (wild execution), "done"
    cr3,          \* the tables in use, "initial" or "runtime"
    tables,       \* per set, the page-directory-pointer, directory and page tables
    mapped,       \* per set, the addresses mapped
    mem_inited, heap_cur,
    next_phys,    \* the loop over physical memory in a kernel_mmu_init
    handlers,     \* the four handler pointers of irq.c
    iflag,        \* RFLAGS.IF
    lapic,        \* "idle", "pending" (IRR) or "active" (ISR)
    timer,        \* the APIC's timer entry is masked
    flag, served, \* swi.c: the handler has run; history: how often
    traps         \* history: the exceptions taken, and in which benchmark

paging == <<cr3, tables, mapped, mem_inited, heap_cur, next_phys>>
irqs == <<handlers, iflag, lapic, timer, flag, served>>
vars == <<image, b, at, iter, status, paging, irqs, traps>>

------------------------------------------------------------------------------
(* The benchmarks.  arch_priv_enter and arch_priv_leave do nothing here. *)

MmuInit == <<"mem_init", "mmu_enable">>
PhysInit == <<"mem_init", "map_phys", "mmu_enable">>
\* Mutant: the handler of the benchmark stays installed.
NoReset == <<"mmu_disable">>
MmuCleanup == <<"mmu_disable", "mem_reset">>

WithMmu(init, kernel) == [init |-> init, kernel |-> kernel, cleanup |-> MmuCleanup]
NoMmu(kernel) == [init |-> <<>>, kernel |-> kernel, cleanup |-> <<>>]

Undef == WithMmu(Append(MmuInit, "undef_install_skip"), <<"undefined_instruction">>)
Swi == [WithMmu(MmuInit \o <<"irq_install_handler", "irq_enable">>,
                <<"clear_flag", "trigger_swi", "wait_flag">>)
          EXCEPT !.cleanup = <<"irq_disable">> \o @]
Syscall == WithMmu(Append(MmuInit, "syscall_install_skip"), <<"syscall">>)
Dfault == WithMmu(Append(MmuInit, "dfault_install_skip"), <<"read_unmapped">>)
Ifault == WithMmu(Append(MmuInit, "ifault_install_return"), <<"call_unmapped">>)
TlbFlush == WithMmu(PhysInit, <<"access_phys">>)
HotMmu == WithMmu(MmuInit, <<"access_image">>)
ColdNoMmu == NoMmu(<<"access_phys">>)
NonPriv == WithMmu(<<"mem_init", "map_value", "mmu_enable">>, <<"access_image">>)
DeviceAccess == NoMmu(<<"access_device">>)

\* tlb-evict.c and memory-cold.c with the MMU make the calls of tlb-flush.c;
\* code generation, dispatch, coprocessor and memory-hot.c without the MMU only
\* use the image.
Benchmarks ==
    [undef |-> Undef, swi |-> Swi, syscall |-> Syscall, dfault |-> Dfault, ifault |-> Ifault,
     plain |-> NoMmu(<<"access_image">>), tlb_flush |-> TlbFlush, tlb_evict |-> TlbFlush,
     hot_mmu |-> HotMmu, cold_nommu |-> ColdNoMmu, cold_mmu |-> TlbFlush, nonpriv |-> NonPriv,
     device_access |-> DeviceAccess]

\* arch_start: arch_init, then platform_init.
Boot ==
    <<"early_mem_init", "irq_init">> \o (IF Calibrates THEN <<"timer_start", "timer_stop">> ELSE <<>>)

Program(k) ==
    IF k = "boot" THEN Boot
    ELSE Benchmarks[k].init \o Benchmarks[k].kernel \o Benchmarks[k].cleanup

Name == IF b = 0 THEN "boot" ELSE image.order[b]
Call == Program(Name)[at]
Calls(c) == status = "run" /\ Call = c /\ UNCHANGED image

\* An image is made of these benchmarks.
ASSUME ImagesAssumption ==
    \A im \in Images : im.order \in Seq(DOMAIN Benchmarks) /\ im.load \in Instructions

\* The kernel's loop, from its first call to its last.
LoopStart(k) == Len(Benchmarks[k].init) + 1
LoopEnd(k) == Len(Benchmarks[k].init \o Benchmarks[k].kernel)
Loops == b > 0 /\ at = LoopEnd(Name) /\ iter < Iters

\* Mutant: harness_main runs past _BENCHMARKS_END.
ReturnPastEnd ==
    /\ IF Loops THEN at' = LoopStart(Name) /\ iter' = iter + 1 /\ UNCHANGED b
       ELSE IF at < Len(Program(Name)) THEN at' = at + 1 /\ UNCHANGED <<b, iter>>
       ELSE b' = b + 1 /\ at' = 1 /\ iter' = 1
    /\ UNCHANGED status
Return ==
    IF Loops THEN at' = LoopStart(Name) /\ iter' = iter + 1 /\ UNCHANGED <<b, status>>
    ELSE IF at < Len(Program(Name)) THEN at' = at + 1 /\ UNCHANGED <<b, iter, status>>
    ELSE IF b < Len(image.order) THEN b' = b + 1 /\ at' = 1 /\ iter' = 1 /\ UNCHANGED status
    ELSE status' = "done" /\ UNCHANGED <<b, at, iter>>

\* arch_abort halts; "lost" is execution at an address nobody chose.
Stop(how) == status' = how /\ UNCHANGED <<b, at, iter, paging, irqs, traps>>

------------------------------------------------------------------------------
(* Page tables and heap *)

Lapic == 2039            \* 0xfee00000
FaultInMemory == 48      \* mutant: in the memory that tlb-flush.c maps
FaultAddress == 1536     \* 0xc0000000
Image == 0               \* framebuffer, text, data and heap

\* The tables on the way to an address: all of it is below 512 GB.
Path(a) == {<<"pdp", 0>>, <<"pd", a \div 512>>, <<"pt", a>>}

\* heap_alloc_page for the tables that a mapping lacks, then the entries.  A
\* page of the stack is zeroed under the running code before the limit of the
\* heap is reached.
NewTables(set, addrs) == (UNION {Path(a) : a \in addrs}) \ tables[set]
Allocate(n) == heap_cur' = heap_cur + n
Fits(n) == heap_cur + n <= HeapPages - StackPages
HitsStack(n) == ~Fits(n) /\ heap_cur < HeapPages
OutOfMemory(n) == ~Fits(n) /\ heap_cur >= HeapPages

\* __create_page_mapping for every page of addrs.
CreateMappings(set, addrs) ==
    LET n == Cardinality(NewTables(set, addrs))
    IN  /\ Fits(n) /\ Allocate(n)
        /\ tables' = [tables EXCEPT ![set] = @ \cup NewTables(set, addrs)]
        /\ mapped' = [mapped EXCEPT ![set] = @ \cup addrs]

CannotMap(set, addrs) ==
    LET n == Cardinality(NewTables(set, addrs))
    IN  \/ HitsStack(n) /\ Stop("lost")
        \/ OutOfMemory(n) /\ Stop("abort")

EarlyMemInit ==
    /\ Calls("early_mem_init")
    /\ \/ CreateMappings("initial", {Lapic}) /\ Return
          /\ UNCHANGED <<cr3, mem_inited, next_phys, irqs, traps>>
       \/ CannotMap("initial", {Lapic})

\* Only the first mem_init does anything: it takes a page for the top level.
\* Mutant: it is done every time.
InitedIgnored == FALSE
AlreadyInited == mem_inited
\* What prepare_runtime_pagetables maps.  Mutant: not the APIC.
ImageOnly == {Image}
RuntimeRanges == {Image, Lapic}
MemInit ==
    /\ Calls("mem_init")
    /\ \/ AlreadyInited /\ Return /\ UNCHANGED <<paging, irqs, traps>>
       \/ /\ ~AlreadyInited
          /\ LET fresh == UNION {Path(a) : a \in RuntimeRanges}
                 n == 1 + Cardinality(fresh)
             IN  \/ /\ Fits(n) /\ Allocate(n)
                    /\ tables' = [tables EXCEPT !["runtime"] = fresh]
                    /\ mapped' = [mapped EXCEPT !["runtime"] = RuntimeRanges]
                    /\ mem_inited' = TRUE
                    /\ handlers' = [handlers EXCEPT !["page_fault"] = "default"]
                    /\ Return
                    /\ UNCHANGED <<cr3, next_phys, iflag, lapic, timer, flag, served, traps>>
                 \/ HitsStack(n) /\ Stop("lost")
                 \/ OutOfMemory(n) /\ Stop("abort")

\* The loop of kernel_mmu_init, one page table's worth of pages at a time.
MapPhys ==
    /\ Calls("map_phys")
    /\ \/ /\ next_phys < PhysEnd
          /\ CreateMappings("runtime", {next_phys}) /\ next_phys' = next_phys + 1
          /\ UNCHANGED <<b, at, iter, status, cr3, mem_inited, irqs, traps>>
       \/ next_phys < PhysEnd /\ CannotMap("runtime", {next_phys})
       \/ /\ next_phys = PhysEnd /\ next_phys' = PhysStart /\ Return
          /\ UNCHANGED <<cr3, tables, mapped, mem_inited, heap_cur, irqs, traps>>

MapValue ==
    /\ Calls("map_value")
    /\ CreateMappings("runtime", {Image}) /\ Return
    /\ UNCHANGED <<cr3, mem_inited, next_phys, irqs, traps>>

\* Code, stack and trap handlers must be mapped by the tables switched to.
SwitchTables(call, set) ==
    /\ Calls(call)
    /\ \/ Image \in mapped[set] /\ cr3' = set /\ Return
          /\ UNCHANGED <<tables, mapped, mem_inited, heap_cur, next_phys, irqs, traps>>
       \/ Image \notin mapped[set] /\ Stop("lost")

MmuEnable == SwitchTables("mmu_enable", "runtime")
MmuDisable == SwitchTables("mmu_disable", "initial")

SetHandler(call, which, fn) ==
    /\ Calls(call) /\ Return
    /\ handlers' = [handlers EXCEPT ![which] = fn]
    /\ UNCHANGED <<paging, iflag, lapic, timer, flag, served, traps>>

MemReset == SetHandler("mem_reset", "page_fault", "default")

------------------------------------------------------------------------------
(* Traps *)

\* Each trap gate calls its pointer; null before irq_init has loaded the IDT.
Take(which) == traps' = traps \cup {<<which, Name>>}
Unhandled(which) ==
    \/ handlers[which] = "default" /\ Stop("abort")
    \/ handlers[which] = "null" /\ Stop("lost")

\* A trap whose handler steps over the instruction: 2 bytes for ud2, nothing
\* for int $0x80, whose saved pointer is past it already.
Trap(call, which) ==
    /\ Calls(call)
    /\ \/ Unhandled(which)
       \/ /\ handlers[which] = "skip" /\ Take(which) /\ Return
          /\ UNCHANGED <<paging, irqs>>

UndefinedInstruction == Trap("undefined_instruction", "undef")
SyscallTrap == Trap("syscall", "syscall")

\* A page fault on data: mem_skip_handler adds the decoded length, or aborts;
\* return_handler would return from the function that faulted.
DataFault(i) ==
    LET n == DecodeInstruction(i)
    IN  \/ Unhandled("page_fault")
        \/ handlers["page_fault"] = "return" /\ Stop("lost")
        \/ handlers["page_fault"] = "skip" /\ n = Undecodable /\ Stop("abort")
        \/ /\ handlers["page_fault"] = "skip" /\ n # Undecodable /\ n # Length(i)
           /\ Stop("lost")
        \/ /\ handlers["page_fault"] = "skip" /\ n = Length(i)
           /\ Take("page_fault") /\ Return /\ UNCHANGED <<paging, irqs>>

\* A page fault on a fetch: return_handler pops the caller; mem_skip_handler
\* would read the instruction that cannot be read.
FetchFault ==
    \/ Unhandled("page_fault")
    \/ handlers["page_fault"] = "skip" /\ Stop("lost")
    \/ /\ handlers["page_fault"] = "return"
       /\ Take("page_fault") /\ Return /\ UNCHANGED <<paging, irqs>>

Translates(a) == a \in mapped[cr3]

ReadUnmapped ==
    /\ Calls("read_unmapped")
    /\ \/ Translates(FaultAddress) /\ Return /\ UNCHANGED <<paging, irqs, traps>>
       \/ ~Translates(FaultAddress) /\ DataFault(image.load)

\* Where the fault address holds no code a successful fetch is lost.
CallUnmapped ==
    /\ Calls("call_unmapped")
    /\ \/ Translates(FaultAddress) /\ Stop("lost")
       \/ ~Translates(FaultAddress) /\ FetchFault

\* Accesses of the other kernels; a fault there is handled as any other.
Access(call, addrs) ==
    /\ Calls(call)
    /\ \/ (\A a \in addrs : Translates(a)) /\ Return /\ UNCHANGED <<paging, irqs, traps>>
       \/ ~(\A a \in addrs : Translates(a)) /\ DataFault(image.load)

AccessImage == Access("access_image", {Image})
AccessPhys == Access("access_phys", PhysStart..(PhysEnd - 1))
AccessDevice == Access("access_device", {Lapic})

InstallHandlers ==
    \/ SetHandler("undef_install_skip", "undef", "skip")
    \/ SetHandler("syscall_install_skip", "syscall", "skip")
    \/ SetHandler("dfault_install_skip", "page_fault", "skip")
    \/ SetHandler("ifault_install_return", "page_fault", "return")
    \/ SetHandler("irq_install_handler", "irq", "benchmark")

------------------------------------------------------------------------------
(* The local APIC.  Its registers are memory: reaching them needs a mapping. *)

NoLapic == ~Translates(Lapic) /\ DataFault(image.load)

\* irq_init: a page for the IDT, lapic_init, and the default handlers.
IrqInit ==
    /\ Calls("irq_init")
    /\ \/ NoLapic
       \/ /\ Translates(Lapic) /\ Fits(1) /\ Allocate(1) /\ Return
          /\ handlers' = [h \in DOMAIN handlers |-> "default"]
          /\ lapic' = "idle" /\ timer' = "masked"
          /\ UNCHANGED <<cr3, tables, mapped, mem_inited, next_phys, iflag, flag, served, traps>>
       \/ HitsStack(1) /\ Stop("lost")
       \/ OutOfMemory(1) /\ Stop("abort")

\* timer_init: lapic_timer_reset and lapic_timer_start, the wait for the PIT,
\* lapic_timer_stop.  The APIC counts 2^32 from its reset, which the wait does
\* not exhaust: pit_expired ends it as soon as it sees the PIT's output low.
SetTimer(call, state) ==
    /\ Calls(call)
    /\ \/ NoLapic
       \/ /\ Translates(Lapic) /\ timer' = state /\ Return
          /\ UNCHANGED <<paging, handlers, iflag, lapic, flag, served, traps>>

TimerStart == SetTimer("timer_start", "running")
TimerStop == SetTimer("timer_stop", "masked")

SetIf(call, value) ==
    /\ Calls(call) /\ iflag' = value /\ Return
    /\ UNCHANGED <<paging, handlers, lapic, timer, flag, served, traps>>

IrqEnable == SetIf("irq_enable", TRUE)
IrqDisable == SetIf("irq_disable", FALSE)

ClearFlag ==
    /\ Calls("clear_flag") /\ flag' = FALSE /\ Return
    /\ UNCHANGED <<paging, handlers, iflag, lapic, timer, served, traps>>

\* lapic_issue_interrupt: one more request while one is in service is kept
\* until its end of interrupt; here that one never comes.
TriggerSwi ==
    /\ Calls("trigger_swi")
    /\ \/ NoLapic
       \/ /\ Translates(Lapic) /\ Return
          /\ lapic' = IF lapic = "active" THEN "active" ELSE "pending"
          /\ UNCHANGED <<paging, handlers, iflag, timer, flag, served, traps>>

WaitFlag == Calls("wait_flag") /\ flag /\ Return /\ UNCHANGED <<paging, irqs, traps>>

\* lapic_acknowledge_irq.  Mutants: missing; the interrupt is raised again.
StaysInService == "active"
RaisedAgain == "pending"
EndOfInterrupt == "idle"

\* trap_irq between any two calls: arch_irq_handler, the handler of swi.c with
\* platform_clear_swi, and iretq, all of it with interrupts off.
TakeIrq ==
    /\ status = "run" /\ lapic = "pending" /\ iflag
    /\ UNCHANGED image
    /\ \/ Unhandled("irq")
       \/ handlers["irq"] = "benchmark" /\ NoLapic
       \/ /\ handlers["irq"] = "benchmark" /\ Translates(Lapic)
          /\ flag' = TRUE /\ served' = served + 1 /\ lapic' = EndOfInterrupt
          /\ UNCHANGED <<b, at, iter, status, paging, handlers, iflag, timer, traps>>

------------------------------------------------------------------------------
\* After boot.S and heap_init: the initial tables map one gigabyte with large
\* pages, interrupts are on, no IDT is loaded.
Init ==
    /\ image \in Images /\ b = 0 /\ at = 1 /\ iter = 1 /\ status = "run" /\ cr3 = "initial"
    /\ tables = [initial |-> {<<"pdp", 0>>, <<"pd", 0>>}, runtime |-> {}]
    /\ mapped = [initial |-> 0..511, runtime |-> {}]
    /\ mem_inited = FALSE /\ heap_cur = 0 /\ next_phys = PhysStart
    /\ handlers = [h \in {"syscall", "page_fault", "irq", "undef"} |-> "null"]
    /\ iflag = TRUE /\ lapic = "idle" /\ timer = "masked"
    /\ flag = FALSE /\ served = 0 /\ traps = {}

Step ==
    \/ EarlyMemInit \/ IrqInit \/ TimerStart \/ TimerStop
    \/ MemInit \/ MapPhys \/ MapValue \/ MmuEnable \/ MmuDisable \/ MemReset
    \/ UndefinedInstruction \/ SyscallTrap \/ ReadUnmapped \/ CallUnmapped
    \/ AccessImage \/ AccessPhys \/ AccessDevice \/ InstallHandlers
    \/ IrqEnable \/ IrqDisable \/ ClearFlag \/ TriggerSwi \/ WaitFlag

\* The hlt loops of arch_abort and of boot.S after platform_shutdown.
Halt == status # "run" /\ UNCHANGED vars

Next == Step \/ TakeIrq \/ Halt

Spec == Init /\ [][Next]_vars /\ WF_vars(Step) /\ WF_vars(TakeIrq)

------------------------------------------------------------------------------
(* Properties *)

TypeOK ==
    /\ image \in Images /\ b \in 0..Len(image.order) /\ at \in 1..Len(Program(Name))
    /\ iter \in 1..Iters
    /\ status \in {"run", "abort", "lost", "done"} /\ cr3 \in {"initial", "runtime"}
    /\ heap_cur \in 0..HeapPages /\ next_phys \in PhysStart..PhysEnd
    /\ {mem_inited, iflag, flag} \subseteq BOOLEAN
    /\ handlers \in [{"syscall", "page_fault", "irq", "undef"} ->
                       {"null", "default", "skip", "return", "benchmark"}]
    /\ lapic \in {"idle", "pending", "active"} /\ timer \in {"masked", "running"}
    /\ served \in Nat

\* The heap holds, beside the live stack, every table that the benchmarks'
\* mappings need, the two of the APIC in the initial set, the IDT and the top
\* level of the runtime set.
RuntimeTables == UNION {Path(a) : a \in RuntimeRanges \cup PhysStart..(PhysEnd - 1)}
HeapSuffices == Cardinality(RuntimeTables) + 4 <= HeapPages - StackPages

\* No benchmark meets an exception without a handler or a heap that is used
\* up, in any link order; a load of dfault.c that the decoder does not know is
\* the only reason for arch_abort.
NoAbort == status = "abort" => DecodeInstruction(image.load) = Undecodable

\* Execution never runs wild: no handler resumes inside an instruction, none
\* gets the other kind of page fault (both kinds share one pointer), the code
\* is mapped after every switch of tables, and no page of the live stack is
\* handed out as a table.  The one length the decoder gets wrong is that of an
\* absolute load with an address-size prefix, which it takes for eight bytes.
NeverLost == status = "lost" => image.load.opcode = \ha1 /\ HasPrefix(image.load, \h67)

\* Every benchmark starts on the initial tables, with the page-fault pointer
\* back at its default, no interrupt outstanding and the APIC's timer masked:
\* device-access.c writes to its count.
CleanStart ==
    at = 1 /\ b > 0 => /\ cr3 = "initial" /\ handlers["page_fault"] = "default"
                       /\ lapic = "idle" /\ timer = "masked"

\* mem_reset keeps every mapping, so that later benchmarks run on what earlier
\* ones mapped: still the fault benchmarks fault, each with its own exception,
\* and no other benchmark takes one.
FaultsWhereMeant ==
    /\ traps \subseteq {<<"undef", "undef">>, <<"syscall", "syscall">>,
                        <<"page_fault", "dfault">>, <<"page_fault", "ifault">>}
    /\ status = "run" /\ Call = "mmu_disable" /\ Name \in {"undef", "syscall", "dfault", "ifault"}
         => \E t \in traps : t[2] = Name

\* Each trigger of swi.c runs its handler once, and nothing else does.
Waiting == status = "run" /\ ~flag /\ Call = "wait_flag"
Contract == INSTANCE SoftIrq WITH requested <- Waiting
OneHandlerRunPerTrigger == Contract!Spec

\* The suite runs to its end when the decoder gets the load of dfault.c right.
SuiteCompletes == DecodeInstruction(image.load) = Length(image.load) => <>(status = "done")

\* heap_alloc_page says "out of memory" when the heap is used up: an
\* allocation never destroys memory in use instead.
OutOfMemoryReported ==
    status = "lost" => Call \notin {"early_mem_init", "irq_init", "mem_init", "map_phys"}
==============================================================================
