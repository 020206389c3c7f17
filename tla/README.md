# Simbench in TLA+

Simbench is a bare-metal image of microbenchmarks for full-system simulators,
and a host program that times them by watching the image's serial output. This
directory holds TLA+ models of its parts, the TLC configurations that check
them and TLAPS proofs about them. Modules keep the source's names wherever TLA+
allows; `PROJECT.json` maps every definition to the lines it models.

## Inventory

| Part | State | Operations | What is hard |
|---|---|---|---|
| Harness (`harness/`, `include/benchmark.h`) | position in the `.benchmarks` section | `harness_main`, `harness_execute` | prints and calls must come in the order the host expects; privilege changes around the kernel |
| Host timer (`host/main.c`) | position in the input, fields scanned, clocks | `read_start`, `read_benchmark`, `read_timing_start_char`, `read_timing_end_char` | a text protocol shared with debug output and error messages; end of file; guest and host interleave |
| Output (`util/printf.c`, `util/debug.c`, UARTs) | formatted buffer, spinner counters | `fprintf`, `debug_spinner` | characters go out one by one, several streams on one wire |
| ARMv8 tables and heap (`arch/armv8/txln_table.c`, `heap.c`, `mem.c`) | `l0_table`, table pages, `heap_ptr` | `mem_init`, `mem_reset`, `mem_create_page_mapping_*` | lazy clearing keeps stale addresses, the heap never frees, errors between levels |
| ARMv8 exceptions and system calls (`exception.c`, `syscall.c`, `vectors.S`, `arch.c`, `reset.S`) | `el0_sync_table`, `el0_irq_handler_`, SCTLR, SPSR | install, dispatch, skip, `priv_enter`, `priv_leave`, `irq_enable` | handlers outlive the benchmark that installed them; interrupts arrive anywhere |
| ARMv8 board (`platform/armv8/virt`) | GIC | `platform_trigger_swi`, `platform_clear_swi` | acknowledge and end of interrupt |
| Benchmarks (`benchmarks/`) | own counters, `flag` | `kernel_init`, `kernel_control`, `kernel`, `kernel_cleanup` | each must leave the machine as it found it |
| ARM memory (`arch/arm/mem.c`, `cache.S`) | `section_table`, TLB, data cache | `mem_init`, mapping, MMU on and off, flush, evict | colliding sections abort; stale TLB; the data cache goes off dirty; version decoding |
| ARM exceptions (`arch/arm/exception.c`, `vectors.S`) | relocated vectors | install, skip, return, interrupt | two mappings of the vectors |
| ARM boards (`platform/arm/*`) | memory layout, GIC, PL190 or OS timer, UART | `platform_trigger_swi`, `platform_clear_swi`, shutdown | six layouts for the same code; several register writes per trigger, with the interrupt in between |
| x86_64 memory and heap (`arch/x86_64/mem.c`, `heap.c`) | two sets of page tables, `heap_cur`, `mem_inited` | `mem_init`, mapping, switch of CR3, `mem_reset` | `mem_reset` keeps the mappings; tables, IDT and stack share the heap |
| x86_64 traps, LAPIC (`irq.c`, `exception.c`, `trap.S`) | four handler pointers, IDT, APIC | install, reset, dispatch, self-interrupt | interrupt against the waiting loop; one pointer for both kinds of page fault |
| x86_64 decoder | none | `decode_instruction` | a wrong length skips into the middle of an instruction |
| x86_64 boot, consoles, serial, timers | devices | initialisation, `console_putc` | cursor at the edge of the screen |

Parts interact in three ways. The harness calls benchmarks, which call the
architecture's `mem_*` and `arch_*` functions and the platform's interrupt
functions. All of them share one machine, so that what one benchmark leaves
behind is what the next one finds. Everything anyone prints goes to the host,
in order, over a pipe.

## Modules

**`PageMap`** is the abstract contract of `include/mem.h`: a map from virtual
pages to mappings, emptied by a reset and changed at one page by a mapping.

**`TxlnTable`** models the ARMv8 tables. `mem` holds the descriptors of each
heap page, `kind` is the C type a page is used as, `pc`/`cur`/`queue` are the
call of `mem_create_page_mapping_*` in progress. There is one action per C
function of the walk, so that `arch_abort` (heap exhausted) can stop between two
levels. `GetDescriptor` stands for the three `get_lN_descriptor` functions,
which are the same code at three levels; data, code and device mappings differ
in the attribute. `VisibleMap` is what the hardware would translate (external).

**`HarnessHost`** models harness and host over a pipe of `PipeSize` characters.
A character is its class (letter, hex digit, space, spinner, bracket, ...),
tagged with the benchmark whose name or count it is part of: that is all that
`fscanf` and the timing readers can tell apart, and enough to see whether a
report names the right benchmark. A name is one letter; the iteration count is
printed digit by digit as `append_num` does and scanned back by the host. What
others print is any sequence of such characters (`TextAssumption`).
Carriage return and line feed are one newline. Every C reader is an action that
consumes at most one character.

**`Armv8Suite`** models a run of the whole suite on ARMv8. Each benchmark is
the sequence of calls its functions make (`Undef`, `Swi`, ...), `Program` puts
them in the order of `harness_execute`, and each call is an action on the
machine. `at` is the place in the program and `iter` the iteration: at the end
of the kernel (`LoopEnd`) the next call is again its first (`LoopStart`) until
`Iters` iterations are done. Memory is two regions, the image with its devices, and the physical
memory that the memory benchmarks map. `tlb` is what a TLB may still hold: it
only grows, since `mem_tlb_flush` is empty on this port, and an access may or
may not hit in it. An interrupt can be taken between any two calls.

**`ArmMem`** models `arch/arm/mem.c` on the layouts of the six boards, with the
TLB and the data cache as far as this code maintains them. `cache` says whether
the data cache is empty, holds lines, or holds dirty ones. Switching it off is
four steps, in the order of `cache.S`: the control register is written while
the frame just pushed is dirty in the cache (`MmuDisable`), the cache is cleaned
and invalidated (`CleanOff`), the TLB is flushed (`FlushOff`), the frame is
popped from memory (`ReturnOff`). A load or store with the cache off that finds
lines in it makes the cache stale (`UncachedAccess`, in every step that runs
with the cache off and uses memory). Addresses are 1 MB sections, the
granularity of the code. The benchmarks are four kinds of clients (plain,
faulting, mapping memory, mapping an unaligned variable) that follow each other
without end in any order.

**`SoftIrq`** is the abstract contract of `platform_trigger_swi` and
`platform_clear_swi` in `include/platform.h`: a request is served, once, and
nothing is served without a request (`Safety`); `Spec` adds that every request
is served in the end.

**`SwiBoards`** models the interrupt benchmark on the interrupt controllers of
the six ARM boards and of `virt`. A board is a record of the register accesses
that its `platform_init`, trigger and clear functions make. `Benchmark` and
`Handler` are the sequences of steps of swi.c's code and of its interrupt
handler; each device access is a step of its own, `at` and `isr` are the places
in the two, and the interrupt or a tick of the sa1100's timer can come between
any two steps. The GIC, the PL190 and the OS timer are external. Each board is shown
to implement `SoftIrq`.

**`X86Decode`** holds the length decoder as operators, beside the instruction
set's own rules for the length (external). An instruction is its prefixes,
opcode, and the `mod`, `rm` and SIB base fields.

**`X86Suite`** models the suite on x86_64 from the entry of `arch_start` on, in
the style of `Armv8Suite`. Paging is always on; "MMU off" is the initial tables
of `boot.S` and "MMU on" the runtime tables of `mem.c`. `tables` and `mapped`
hold the tables and addresses of each set, in units of 2 MB (one page table),
and `heap_cur` counts heap pages. `boot.S` puts the stack at the end of the
heap, so that an allocation that reaches it zeroes the running frames: status
"lost", which also stands for every other case of execution at an address
nobody chose, such as a handler that resumes inside an instruction. The
interrupt path is shown to implement `SoftIrq`. There is no TLB: every mapping
is an identity that never changes, and each switch writes CR3.

`MC*` modules give the constants their values.

## Runs

| Run | Result | What it shows |
|---|---|---|
| `txln_table` | holds | tree, no leak, walk on the path, `PageMap` implemented |
| `harness_host` | holds | reports in order, each timed over its kernel, all in the end |
| `harness_faults` | holds | after an abort or the death of the simulator only the last line is wrong, and the host ends |
| `harness_abort` | violated | a kernel that aborts while it is timed is reported with a time: the first letter of the message stops the clock (`host/main.c:106`) |
| `harness_debug` | violated | ARMv8 debug output (`arch/armv8/exception.c:114`) is scanned as part of the name and as the count, and a line with wrong fields and no time is reported |
| `armv8_suite` | holds | no abort, clean start of each benchmark, faults where meant and only there, with a TLB that keeps old translations, one interrupt per trigger, termination |
| `armv8_icache` | violated | `arch_irq_enable` clears the instruction cache bit (`arch/armv8/syscall.c:26`) |
| `arm_mem` | holds | no colliding mapping, coherent TLB, a data cache that agrees with memory, faulting fault address, reachable vectors |
| `arm_cache` | violated | the versatile's ARMv5 processor is decoded as version 3 (`arch/arm/mem.c:82`) |
| `swi_boards` | holds | on every board each trigger is answered once, nothing stays asserted, an unknown controller is not written to, the benchmark ends |
| `x86_suite` | holds | from boot on: no abort, no wild execution, clean start, faults where meant and only there, one handler run per trigger, termination |
| `x86_heap` | violated | on the qemu platform page tables overwrite the stack before the heap's limit is tested (`arch/x86_64/heap.c:23`) |

### Bounds

* `txln_table`: two entries per table, so that tables are shared at some levels
  and not at others; five virtual pages chosen to share a level 3, a level 2, a
  level 1 table or none; seven heap pages, one too few for all of them, so that
  exhaustion happens in the middle of a walk. The proofs have no bounds.
* `harness_host`, `harness_faults`: three benchmarks, the middle one with a
  control, so that each transition between benchmarks with and without control
  happens. A pipe of four characters makes both sides block. `NoiseMax` bounds
  the spinner prints of one phase. An unsigned int has twelve bits instead of
  32, and the third benchmark the largest count that fits; `benchmark.h` stays
  below 2^29.
* `armv8_suite`: two iterations of each kernel, the smallest number at which an
  iteration can disturb the next. The link order of `benchmarks/Makefile`, and
  all 720 orders of six benchmarks that cover every kind of state a benchmark
  changes. The other orders show that only one dependency exists: `swi.c` needs
  `undef.c` before it, and `NoAbort` and `SuiteCompletes` assume exactly that.
* `arm_mem`: no bound on the sequence of benchmarks; six concrete layouts.
* `swi_boards`: three iterations, so that what one leaves behind meets a second
  trigger and a third; the timer counts modulo four instead of 2^32, which puts
  its value, and an old match, anywhere relative to the writes.
* `x86_suite`: the platform's own numbers for heap (64 pages) and physical
  memory (0x04000000 to 0x08000000, 32 page tables). Two iterations. The link
  order of the Makefile and all 720 orders of six benchmarks. The data fault
  benchmark with every load: up to two prefixes of 0x66, 0x67, REX.B and
  REX.W, eight opcodes of which two stand for the unknown ones, every `mod`
  and `rm` that names memory. These include loads that the compiler will
  hardly choose: the properties then say what happens. A load the decoder does
  not know ends in `arch_abort` (`NoAbort`); the only one whose length it gets
  wrong is the absolute load with an address-size prefix (`NeverLost`).
* `x86_heap`: the qemu platform, 0x10000000 to 0x40000000 (384 page tables).

### Assumptions about the environment

* Heap memory is zero at reset (`FreshPage`): the heap is outside the loaded
  image and nothing clears it, and the code depends on it, as the mutant
  `GarbagePage` shows.
* `StaleReg` = {0, 4}: the register that the skipped `mrs CurrentEL` leaves does
  not happen to hold 1. The code does not ensure this.
* `reset.S` drops to `run_simbench` with SPSR_EL1 as it is at reset, taken to be
  zero: EL0 with interrupts unmasked.
* `ArmMem`: sizes of text and data are not in the sources; text is taken to fit
  in one section, and data, with its 1 MB stack, in two or three. The main ID
  registers are those of the boards' processors.

* `SwiBoards`: SGIs may be enabled at reset; the sa1100's timer starts at any
  value, with or without an old match. A match register written while the
  counter stands at that value may or may not match.
* `X86Suite`: the image with its heap fits in the first 2 MB after address 0,
  as the 1 MB load address and the section sizes give it; the frames that are
  live while a mapping is made fit in one page (`StackPages` = 1). The APIC's
  timer does not run out during the calibration, which ends as soon as
  `pit_expired` sees the PIT's output low.

### Fairness

`HarnessHost` assumes weak fairness of the guest and of the host: simulator
and host are processes the operating system schedules, and a kernel is a
finite loop. The simulator's death is not fair. `Armv8Suite` assumes that the
processor keeps executing and that a pending interrupt is taken while it can
be; the code never masks interrupts (PSTATE.I). `SwiBoards` and `X86Suite`
assume the same, an interrupt being taken while its line stays asserted and the
mask is open, and `SwiBoards` that the timer counts. `TxlnTable` and
`ArmMem` state safety only.

Deadlock is checked in every run. States in which the program spins for ever
(`while(1)`) have an explicit `Spin` action, except in `ArmMem`, where they are
unreachable.

## Proofs

A proof holds for every value of the constants that satisfies the module's
`ASSUME`s. Eight modules hold theorems; but for the lemmas on digits, each proves
an inductive invariant (`IInv`, `HarnessInv`) with one lemma per action (or group
of alike actions) and derives the run's properties from it. TLC has checked each
inductive invariant on an instance of its run, `HarnessInv` on one with two
benchmarks.

**`TxlnTableProofs`, `TxlnRefinementProofs`**: every table size, heap size, set
of addresses and sequence of calls. Assumed: there is at least one heap page,
page addresses include null and the heap pages, attribute values differ from
`NoAttr`.

* `TypeCorrect`, `TreeCorrect`, `HeapCorrect`, `WalkCorrect`: the invariants that
  `txln_table` checks. The conjunction is the inductive invariant `IInv`.
  None of its parts is inductive alone. A reused table is safe to clear only
  because no other descriptor names it (tree); it is a tree because new pages
  are not named by anything, which needs the heap order; and the write of
  `GetDescriptor` preserves the tree only because the walk stands on a table of
  the level it believes to be on (walk).
* `RefinementCorrect`: `Spec => PageMap!Spec`. `MemInit` empties the visible map
  because every path starts at the level 0 table. `GetDescriptor` is invisible:
  the slot it makes valid led nowhere, and the table behind it has just been
  cleared; no other path goes through either, by the tree. `InsertMapping`
  changes one leaf, and by the tree only one virtual page has it.

**`ArmMemProofs`**: every set of boards, not only the six. Assumed is `Layout`,
what a board port has to satisfy: no region reaches the section of the high
vectors, devices are apart from memory, `mem_get_phys_info` names an interval,
the fault address is nothing that `mem_init` maps, and the build is for version
7 exactly when the processor says it is. The six boards satisfy it (TLC
evaluates the assumption). Proved are all invariants of `arm_mem`: type
correctness, `NeverAborts`, `TlbCoherent`, `FaultAddressUnmapped`,
`HandlersReachable` and `CacheNeverStale`. The invariant says what the section
table is at each call, that with the MMU off only the rest of
`mem_armv*_cache_mmu_off` finds lines in the cache or translations in the TLB,
and that it removes the lines before it loads its frame; `TlbCoherent` alone is not inductive, since enabling the MMU on a
new table is safe only when the TLB is empty.

**`Armv8SuiteProofs`**: every non-empty order of the benchmarks, with or without
repetitions, and every number of iterations. The invariant describes the
machine by the calls that precede the current one in the benchmark's program:
MMU and level (`Modes`), mappings (`Maps`), installed handlers (`Handlers`),
the interrupt (`Interrupts`), exceptions taken (`Taken`). A lemma (`Shape`)
collects what the programs have in common, such as that `mem_init` precedes
`mmu_enable` and `mmu_disable` follows it. From it follow type correctness,
`CleanStart`, `FaultsWhereMeant` and `OneInterruptPerTrigger`; `NoAbort` needs in
addition that the register which the skipped `mrs CurrentEL` leaves alone does
not hold 1 (`1 \notin StaleReg`, see above; the code does not ensure it).

**`X86SuiteProofs`**: every order, number of iterations, heap and physical
memory in the first gigabyte, and every load. The invariant is built like that
of `Armv8SuiteProofs`. From it follow type correctness, `CleanStart`,
`FaultsWhereMeant` and `Spec => Contract!Safety`, the safety half of
`OneHandlerRunPerTrigger`. `NoAbort` and `NeverLost` need that the heap is large
enough, `HeapSuffices`: all tables that the runtime set can ever have, plus the
two for the APIC, the IDT and the top level, fit below the live stack. A second
invariant, `Room`, is the argument that this is enough: at any time the pages
handed out plus those that may still be asked for fit, because a table is
allocated once and never again. The native platform satisfies `HeapSuffices`
and the qemu platform does not, which TLC evaluates (`NativeHeapSuffices`) and
the run `x86_heap` shows. `DecoderFacts` proves that the decoder's length is
wrong only for the absolute load with an address-size prefix.

**`SwiBoardsProofs`**: every number of iterations and every period of the timer
above 2. The programs of the seven boards are computed from the board records
(`Places`, `ProgramFacts`): where the loop is, which single access fires, and
that the check of the controller precedes all accesses to it. The invariant
says that a controller can assert its line, and the handler run, only between
the firing access and the end of the wait (`Quiet`), that a request which has set
the flag is withdrawn before the handler returns, that the handler has run once
per iteration (`Count`), and that nothing is written before a check that fails
(`Checked`). From it follow type correctness, `UnknownGicUntouched`,
`QuietAtCleanup` and `Spec => Contract!Safety`. On the sa1100 this covers the
interrupt that arrives in the middle of the trigger, after `OIER` and before the
match and the counter are written: the handler runs then, and the later writes
cannot cause a second run because the handler has disabled the timer interrupt.

**`HarnessTextProofs`, `HarnessHostProofs`**: every number of benchmarks, every
choice of controls, every iteration count that an unsigned int of any width
holds, every pipe size, and every interleaving of guest, simulator and host.

* `CountSurvives`: `HexValue` reads back from `IterText` the count that `Digits`
  printed. The printer recurses on the quotient and the scanner folds from the
  left, so this takes two inductions; each looks at the least counterexample
  (`LeastNumber`, from the library's theorem that the order of the natural
  numbers is well founded), which keeps it first-order.
* `HarnessTypes`: `TypeOK`, for whatever is printed.
* `ReportsInOrderHolds`, `TimedWhenFinishedHolds`: the invariants of
  `harness_host`. Assumed are `QuietTexts` (kernels print nothing but the
  spinner, initialisation and cleanup nothing, the banner has no BEGIN) and
  `NoFaults`. Both are needed: the runs `harness_debug` and `harness_abort`
  show what happens without the one and without the other.
* `OnlyLastSpoiledHolds`: the invariant of `harness_faults`, from `QuietTexts`
  and `DashesInWords`: in the message of a fatal error no dash begins a word.
  This is so for the messages in the sources; the two that have a dash, both
  of x86_64, are "x86-64: abort!" (`arch/x86_64/arch.c`) and "unhandled
  page-fault" (`arch/x86_64/irq.c`). The instances of `harness_host` and
  `harness_faults` satisfy the hypotheses of the theorems about them.

None of these invariants is inductive, since what the host will report is
decided by characters that are still in flight. The inductive invariant
`HarnessInv` is a way through the grammar of the protocol along the stream, that
is `pipe` followed by `out`: a function `at` from the points between the
characters to places (a benchmark and a position in its line), in which each
character links the place before it to the place after it (`Link`). The first
place says what directive the host is at, what it has gathered and that all
reports so far are right (`HostAt`); the last says which phase the guest is in
(`GuestAt`). The links of "}" and "]" require that the control or the kernel
has returned, which is how a fact about the guest travels to the host. A print
extends the way (`PrintKeepsWay`), `Putch` leaves the stream as it is, a read
drops the first place (`HostKeepsWay`), and a simulator that dies cuts the way
short (`ExitKeepsWay`). The message of a fatal error leads to the places "bad"
and "badword", at which the host may make one wrong report; to make a second it
would have to read a dash behind white space, and such a dash links nothing.

Only model-checked:

* all liveness (`AllReported`, `HostStops`, `SuiteCompletes`, `BenchmarkEnds`, the
  fairness halves of `OneHandlerRunPerTrigger`), which the prover cannot express;
* the properties of the runs that expect a violation.

## Plan

1. Padding and the decimal conversions of `vsnprintf`, and the text console's
   cursor, as operators against reference definitions.
2. The ARM suite as `Armv8Suite`: skip and return handlers of
   `arch/arm/exception-handlers.S` with the benchmarks in link order.

## Not modelled

Mode switching at boot and device initialisation (fixed sequences of register
writes), UARTs and consoles, register save and restore, the arithmetic of the
kernels, the operand fields that the x86 decoder fills in and nobody reads,
`decode_int` (an `int` instruction does not fault on memory), build files and
scripts. `PROJECT.json` lists each part with the reason.
