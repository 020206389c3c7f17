------------------------------ MODULE SwiBoards ------------------------------
(***************************************************************************)
(* The interrupt benchmark (benchmarks/exception/swi.c) on the interrupt   *)
(* controllers of the ARM boards and of the ARMv8 virt machine.            *)
(*                                                                         *)
(* Every device access of platform_init, platform_trigger_swi and          *)
(* platform_clear_swi is a step of its own, and the interrupt is taken     *)
(* between any two steps at which the processor lets it in; on the sa1100  *)
(* a timer ticks in between as well.  Benchmark and interrupt handler are  *)
(* sequences of steps, with a place in each.                               *)
(***************************************************************************)
EXTENDS Naturals, Sequences, SequencesExt

CONSTANTS
    Boards,      \* the boards, by name
    Iters,       \* iterations of the kernel
    TimerWrap    \* the sa1100's timer counts modulo this (2^32 on the chip)

ASSUME SwiAssumption == Iters \in Nat \ {0} /\ TimerWrap \in Nat /\ TimerWrap > 2

VARIABLES
    board,        \* the board the image was built for; never changes
    status,       \* "run", "abort" (arch_abort) or "done"
    at, iter,     \* the next step of the benchmark, and the iteration of its kernel
    isr,          \* the next step of the interrupt handler; 0 outside it
    masked,       \* CPSR.I or PSTATE.I of the benchmark
    installed,    \* arch_irq_handler is set
    flag,         \* swi.c: the handler has run
    served,       \* history: how often the handler has run
    identified,   \* the GIC's peripheral id is the one the board code expects
    gic,          \* configured registers, pending and active SGIs
    pl190,        \* the PL190's enable and software interrupt registers
    ost           \* the sa1100's OS timer, and its bit of the interrupt mask

devices == <<gic, pl190, ost>>
cpu == <<masked, installed, flag, served>>
vars == <<board, status, at, iter, isr, cpu, identified, devices>>

------------------------------------------------------------------------------
(* The boards: what platform_init does for interrupts, the accesses of      *)
(* platform_trigger_swi and platform_clear_swi, the arguments of the GIC's  *)
(* SGI register, and whether arch_irq_enable reaches the processor's mask.  *)

\* The configuration that three boards repeat on every trigger.
GicSetup == <<"isenabler", "ipriorityr", "pmr", "gicd_ctlr", "gicc_ctlr">>
\* Mutant: no end of interrupt.
NoEoir == <<"iar", "cpendsgir">>
GicClear == <<"iar", "cpendsgir", "eoir">>

Gic(init, trigger, filter, list, id, masks) ==
    [init |-> init, trigger |-> Append(trigger, "sgir"), clear |-> GicClear,
     filter |-> filter, list |-> list, id |-> id, masks |-> masks]
Plain(trigger, clear) ==
    [init |-> <<>>, trigger |-> trigger, clear |-> clear, filter |-> 0, list |-> {}, id |-> 0, masks |-> TRUE]

Versatile == Plain(<<"pl190_enable", "pl190_softint">>, <<"pl190_softintclear">>)

\* Mutant: the timer interrupt stays enabled.
Sa1100ClearsOnly == <<"ossr">>
Sa1100Clear == <<"ossr", "oier_off">>
Sa1100 == Plain(<<"icmr", "oier_on", "osmr", "oscr">>, Sa1100Clear)

\* Mutant: the id is read after the configuration.
VexpressA9CheckedLate == Gic(<<>>, GicSetup \o <<"check_pidr">>, 0, {0}, 0, TRUE)
VexpressA9 == Gic(<<>>, <<"check_pidr">> \o GicSetup, 0, {0}, 0, TRUE)
\* The check is commented out here and on virt.
VexpressA15 == Gic(<<>>, GicSetup, 2, {}, 0, TRUE)
\* The second bank of two registers is written too.  The SGI number is given as
\* 32, of which the register keeps four bits.
RealviewPba8 ==
    Gic(<<>>, <<"check_pidr", "isenabler", "isenabler1", "ipriorityr", "ipriorityr1", "pmr",
                "gicd_ctlr", "gicc_ctlr">>, 0, {0}, 32, TRUE)
\* Configured once, in platform_init; the check is of both GIC interfaces.
ArndaleBoard ==
    Gic(<<"check_pidr", "ies5", "isenabler", "ipriorityr", "igroupr", "pmr", "gicd_ctlr", "gicc_ctlr">>,
        <<>>, 0, {0}, 0, TRUE)
Virt == Gic(<<>>, GicSetup, 2, {}, 0, FALSE)

Board ==
    [versatile |-> Versatile, sa1100 |-> Sa1100, vexpress_a9 |-> VexpressA9,
     vexpress_a15 |-> VexpressA15, realview_pba8 |-> RealviewPba8,
     arndale |-> ArndaleBoard, virt |-> Virt]

ASSUME BoardsAssumption == Boards \subseteq DOMAIN Board

\* swi.c: kernel_init, the loop of the kernel, kernel_cleanup.  Mutant: the
\* flag is cleared after the trigger.
ClearsLate(bd) == Board[bd].trigger \o <<"clear_flag", "wait">>
Iteration(bd) == <<"clear_flag">> \o Board[bd].trigger \o <<"wait">>
Benchmark(bd) ==
    Board[bd].init \o <<"irq_install", "irq_enable">> \o Iteration(bd) \o <<"irq_disable">>
LoopStart(bd) == Len(Board[bd].init) + 3
LoopEnd(bd) == Len(Board[bd].init) + 2 + Len(Iteration(bd))

\* swi.c: irq_handler.
Handler(bd) == <<"set_flag">> \o Board[bd].clear

------------------------------------------------------------------------------
(* The devices (external): when each of them asserts the interrupt line *)

GicForwards ==
    /\ {"isenabler", "pmr", "gicd_ctlr", "gicc_ctlr"} \subseteq gic.configured
    /\ gic.pending # {} /\ gic.active = {}
Pl190Asserts == pl190.enable /\ pl190.softint
TimerAsserts == ost.icmr /\ ost.oier /\ ost.ossr
Line == GicForwards \/ Pl190Asserts \/ TimerAsserts

------------------------------------------------------------------------------
(* Steps of the program.  The handler runs with interrupts masked, to its   *)
(* end, before the benchmark goes on.                                       *)

InHandler == isr > 0
Ended == at > Len(Benchmark(board))

\* The next step of the program is op, and it is done.
Does(op) ==
    /\ status = "run"
    /\ \/ /\ InHandler /\ Handler(board)[isr] = op
          /\ isr' = IF isr < Len(Handler(board)) THEN isr + 1 ELSE 0
          /\ UNCHANGED <<at, iter>>
       \/ /\ ~InHandler /\ ~Ended /\ Benchmark(board)[at] = op
          /\ IF at = LoopEnd(board) /\ iter < Iters
             THEN at' = LoopStart(board) /\ iter' = iter + 1
             ELSE at' = at + 1 /\ UNCHANGED iter
          /\ UNCHANGED isr
    /\ UNCHANGED <<board, identified>>

\* Boards with a check abort when they do not know the controller.
CheckPidr ==
    /\ Does("check_pidr")
    /\ status' = IF identified THEN "run" ELSE "abort"
    /\ UNCHANGED <<cpu, devices>>

Registers ==
    {"isenabler", "isenabler1", "ipriorityr", "ipriorityr1", "pmr", "gicd_ctlr", "gicc_ctlr",
     "igroupr", "ies5"}
GicConfigure ==
    \E reg \in Registers :
        /\ Does(reg)
        /\ gic' = [gic EXCEPT !.configured = @ \cup {reg}]
        /\ UNCHANGED <<status, cpu, pl190, ost>>

\* A write to GICD_SGIR: filter 0 names the targets, filter 2 is this processor.
\* Mutant: filter 1, all but this one.
SentToOthers == FALSE
SentToSelf == Board[board].filter = 2 \/ (Board[board].filter = 0 /\ 0 \in Board[board].list)
Sgir ==
    /\ Does("sgir")
    /\ gic' = IF SentToSelf THEN [gic EXCEPT !.pending = @ \cup {Board[board].id % 16}] ELSE gic
    /\ UNCHANGED <<status, cpu, pl190, ost>>

\* A read of GICC_IAR activates what is pending.
Iar ==
    /\ Does("iar")
    /\ gic' = [gic EXCEPT !.active = @ \cup gic.pending, !.pending = {}]
    /\ UNCHANGED <<status, cpu, pl190, ost>>

Cpendsgir ==
    /\ Does("cpendsgir")
    /\ gic' = [gic EXCEPT !.pending = @ \ {0}]
    /\ UNCHANGED <<status, cpu, pl190, ost>>

Eoir ==
    /\ Does("eoir")
    /\ gic' = [gic EXCEPT !.active = {}]
    /\ UNCHANGED <<status, cpu, pl190, ost>>

\* The PL190: an enabled software interrupt is a level until it is cleared.
Pl190Write(op, reg, value) ==
    /\ Does(op)
    /\ pl190' = [pl190 EXCEPT ![reg] = value]
    /\ UNCHANGED <<status, cpu, gic, ost>>

Pl190Enable == Pl190Write("pl190_enable", "enable", TRUE)
Pl190SoftInt == Pl190Write("pl190_softint", "softint", TRUE)
Pl190SoftIntClear == Pl190Write("pl190_softintclear", "softint", FALSE)

\* The sa1100's timer.  Writing the match register while the counter stands
\* at the value may count as a match or not.
OstWrite(op, reg, value) ==
    /\ Does(op)
    /\ ost' = [ost EXCEPT ![reg] = value]
    /\ UNCHANGED <<status, cpu, gic, pl190>>

Icmr == OstWrite("icmr", "icmr", TRUE)
OierOn == OstWrite("oier_on", "oier", TRUE)
OierOff == OstWrite("oier_off", "oier", FALSE)
Oscr == OstWrite("oscr", "oscr", 0)
Ossr == OstWrite("ossr", "ossr", FALSE)
Osmr ==
    /\ Does("osmr")
    /\ \E match \in {ost.ossr, ost.ossr \/ ost.oscr = 1} :
           ost' = [ost EXCEPT !.osmr = 1, !.ossr = match]
    /\ UNCHANGED <<status, cpu, gic, pl190>>

\* The counter counts by itself, and a match is latched.
Tick ==
    /\ board = "sa1100"
    /\ LET n == (ost.oscr + 1) % TimerWrap
       IN  ost' = [ost EXCEPT !.oscr = n, !.ossr = @ \/ n = ost.osmr]
    /\ UNCHANGED <<board, status, at, iter, isr, cpu, identified, gic, pl190>>

\* arch_irq_enable and arch_irq_disable; on ARMv8 they change another register.
SetMask(op, value) ==
    /\ Does(op)
    /\ masked' = IF Board[board].masks THEN value ELSE masked
    /\ UNCHANGED <<status, installed, flag, served, devices>>

IrqEnable == SetMask("irq_enable", FALSE)
IrqDisable == SetMask("irq_disable", TRUE)

IrqInstall ==
    /\ Does("irq_install") /\ installed' = TRUE
    /\ UNCHANGED <<status, masked, flag, served, devices>>

ClearFlag ==
    /\ Does("clear_flag") /\ flag' = FALSE
    /\ UNCHANGED <<status, masked, installed, served, devices>>

SetFlag ==
    /\ Does("set_flag") /\ flag' = TRUE /\ served' = served + 1
    /\ UNCHANGED <<status, masked, installed, devices>>

Wait == flag /\ Does("wait") /\ UNCHANGED <<status, cpu, devices>>

\* irq_handler_tramp: the handler pointer is called without a test.
TakeIrq ==
    /\ status = "run" /\ Line /\ ~masked /\ ~InHandler
    /\ IF installed THEN isr' = 1 /\ UNCHANGED status
                    ELSE status' = "abort" /\ UNCHANGED isr
    /\ UNCHANGED <<board, at, iter, cpu, identified, devices>>

Finish ==
    /\ status = "run" /\ Ended /\ ~InHandler /\ status' = "done"
    /\ UNCHANGED <<board, at, iter, isr, cpu, identified, devices>>

Spin == status # "run" /\ UNCHANGED vars

------------------------------------------------------------------------------
\* SGIs may be enabled at reset.  Nothing sets up the timer before the first
\* trigger: its counter and an earlier match are what they happen to be.
Init ==
    /\ board \in Boards /\ status = "run"
    /\ at = 1 /\ iter = 1 /\ isr = 0
    /\ masked = Board[board].masks /\ installed = FALSE
    /\ flag = FALSE /\ served = 0 /\ identified \in BOOLEAN
    /\ gic \in [configured : {{}, {"isenabler"}}, pending : {{}}, active : {{}}]
    /\ pl190 = [enable |-> FALSE, softint |-> FALSE]
    /\ ost \in [icmr : {FALSE}, oier : {FALSE}, ossr : IF board = "sa1100" THEN BOOLEAN ELSE {FALSE},
                osmr : {0}, oscr : IF board = "sa1100" THEN 0..(TimerWrap - 1) ELSE {0}]

Step ==
    \/ CheckPidr \/ GicConfigure \/ Sgir \/ Iar \/ Cpendsgir \/ Eoir
    \/ Pl190Enable \/ Pl190SoftInt \/ Pl190SoftIntClear
    \/ Icmr \/ OierOn \/ OierOff \/ Oscr \/ Ossr \/ Osmr
    \/ IrqInstall \/ IrqEnable \/ IrqDisable \/ ClearFlag \/ SetFlag \/ Wait \/ Finish

Next == Step \/ TakeIrq \/ Tick \/ Spin

\* The processor executes, takes an interrupt that stays asserted, and the
\* timer counts.
Spec == Init /\ [][Next]_vars /\ WF_vars(Step) /\ WF_vars(TakeIrq) /\ WF_vars(Tick)

------------------------------------------------------------------------------
(* Properties *)

TypeOK ==
    /\ board \in Boards /\ status \in {"run", "abort", "done"}
    /\ at \in 1..(Len(Benchmark(board)) + 1) /\ iter \in 1..Iters /\ isr \in 0..Len(Handler(board))
    /\ {masked, installed, flag, identified} \subseteq BOOLEAN
    /\ served \in 0..Iters
    /\ gic.pending \subseteq 0..15 /\ gic.active \subseteq 0..15
    /\ pl190 \in [enable : BOOLEAN, softint : BOOLEAN]
    /\ ost.osmr \in {0, 1} /\ ost.oscr \in 0..(TimerWrap - 1)
    /\ {ost.icmr, ost.oier, ost.ossr} \subseteq BOOLEAN

\* The loop of swi.c is between clearing the flag and seeing it set, and the
\* controller has been identified where the board asks for it.
Waiting ==
    /\ status = "run" /\ installed /\ ~flag /\ ~Ended
    /\ Benchmark(board)[at] \in (ToSet(Board[board].trigger) \ {"check_pidr"}) \cup {"wait"}

\* Each trigger runs the handler of swi.c once, on every board: no interrupt
\* is lost, doubled, or left over for the next iteration, wherever it arrives
\* between the register writes and the timer's ticks.
Contract == INSTANCE SoftIrq WITH requested <- Waiting
OneHandlerRunPerTrigger == Contract!Spec

\* A controller that the board code does not recognise is not written to: the
\* check comes before the configuration on the boards that have one.
UnknownGicUntouched ==
    status = "abort" => /\ ~identified
                        /\ gic.configured \subseteq {"isenabler"} /\ gic.pending = {}

\* When the benchmark disables interrupts again (swi.c, kernel_cleanup) the
\* controller asserts nothing: a line left high would interrupt whatever
\* enables interrupts next.
QuietAtCleanup == Ended => ~Line /\ gic.active = {}

\* The benchmark ends on every board whose controller is as expected.
BenchmarkEnds == identified => <>(status = "done")
==============================================================================
