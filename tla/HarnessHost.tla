----------------------------- MODULE HarnessHost -----------------------------
(***************************************************************************)
(* The guest harness (harness/harness.c), the host timer (host/main.c) and *)
(* the pipe between them.                                                  *)
(*                                                                         *)
(* The protocol is plain text.  The host scans each benchmark's header and *)
(* starts and stops its clock on brackets, skipping the characters of the  *)
(* debug spinner; everything the guest prints, error messages included,    *)
(* arrives on the same stream.  A character stands for the class that the  *)
(* host's scanners tell apart, tagged with the benchmark it names.         *)
(***************************************************************************)
EXTENDS Naturals, Sequences, SequencesExt

CONSTANTS
    N,            \* benchmarks in the .benchmarks section, in link order
    HasControl,   \* those with a kernel_control
    Iterations,   \* iteration_count of each
    WordBits,     \* bits of an unsigned int (32)
    PipeSize,     \* characters between the UART and the host's stdin
    BootText,     \* what the simulator prints before the harness runs
    NoiseTexts,   \* what a kernel may print while it is timed
    InitTexts,    \* what kernel_init and kernel_cleanup may print
    NoiseMax,     \* bound on such prints in one phase
    AbortTexts,   \* what a fatal error prints before arch_abort spins
    MayDie        \* whether the simulator may die in the middle

ASSUME HarnessAssumption ==
    /\ N \in Nat /\ HasControl \subseteq 1..N /\ PipeSize \in Nat \ {0}
    /\ NoiseMax \in Nat /\ MayDie \in BOOLEAN
    /\ WordBits \in Nat /\ Iterations \in [1..N -> 0..(2^WordBits - 1)]

VARIABLES
    bench, phase,  \* guest: the benchmark and where harness_execute is
    out,           \* guest: the rest of the fprintf in progress
    noise,         \* guest: prints left in this phase
    finished,      \* guest: which kernels and controls have returned
    pipe, closed,  \* the pipe, and whether the simulator has exited
    hpc,           \* host: the directive or reader in progress
    word,          \* host: what %s, %lx or getline has gathered
    line,          \* host: the fields scanned of the current benchmark
    reports        \* host: the lines printed

guest == <<bench, phase, out, noise, finished>>
host == <<hpc, word, line, reports>>
vars == <<guest, pipe, closed, host>>

------------------------------------------------------------------------------
(* Characters and texts *)

Ch(class) == [class |-> class, of |-> 0]
Sp == Ch("space")
Nl == Ch("newline")
Eof == Ch("eof")
White == {"space", "newline"}
NonWhite == {"letter", "hex", "dash", "spinner", "{", "}", "[", "]", "begin"}
Char == [class : White \cup NonWhite, of : Nat]
\* The characters both timing readers skip.  Mutant: end of file is one.
SkippedAndEof == {"space", "dash", "spinner", "eof"}
Skipped == {"space", "dash", "spinner"}

ASSUME TextAssumption ==
    /\ BootText \in Seq(Char)
    /\ NoiseTexts \cup InitTexts \cup AbortTexts \subseteq Seq(Char)

Begin == Ch("begin")
CatText(b) == <<[class |-> "letter", of |-> b]>>
NameText(b) == <<[class |-> "letter", of |-> b + N]>>

\* append_num in base 16, least significant digit first and each in front of
\* the ones before.
Digits[v \in Nat] ==
    IF v < 16 THEN <<v>> ELSE Append(Digits[v \div 16], v % 16)
\* %x fetches an unsigned int, whatever the width of the argument.
HexArgument(v) == v % 2^WordBits
IterText(b) ==
    LET digits == Digits[HexArgument(Iterations[b])]
    IN  <<Sp>> \o [i \in DOMAIN digits |-> [class |-> "hex", of |-> digits[i]]]

\* The END line, two words to fscanf.  Mutant: an empty line.
BlankEnd == <<Nl>>
EndText == <<Ch("letter"), Sp, Ch("letter"), Nl>>

\* What each fprintf of harness_execute and harness_main writes.
Text(p, b) ==
    CASE p = "header" -> CatText(b) \o <<Sp, Ch("dash"), Sp>> \o NameText(b)
      [] p = "iter" -> IterText(b)
      [] p = "control_open" -> <<Sp, Ch("{")>>
      [] p = "control_close" -> <<Ch("}")>>
      [] p = "open" -> <<Sp, Ch("[")>>
      [] p = "close" -> <<Ch("]"), Nl>>
      [] p = "end" -> EndText

Printing == {"header", "iter", "control_open", "control_close", "open", "close", "end"}
Running == {"init", "control", "kernel", "cleanup"}

------------------------------------------------------------------------------
(* The guest *)

\* The control between its braces, if there is one.  Mutant: no "}".
ControlUnclosed(b) == IF b \in HasControl THEN <<"control_open", "control">> ELSE <<>>
ControlPhases(b) ==
    IF b \in HasControl THEN <<"control_open", "control", "control_close">> ELSE <<>>

\* The order of harness_execute.  Mutant: "]" is printed before the kernel has
\* returned.
ClosesEarly(b) ==
    <<"header", "init", "iter">> \o ControlPhases(b) \o <<"open", "close", "kernel", "cleanup">>
HarnessExecute(b) ==
    <<"header", "init", "iter">> \o ControlPhases(b) \o <<"open", "kernel", "close", "cleanup">>

\* Go on to the next phase, the next benchmark, the END line or shutdown.
Advance ==
    LET order == HarnessExecute(bench)
        here == CHOOSE i \in DOMAIN order : order[i] = phase
    IN
    /\ noise' = NoiseMax
    /\ bench' = IF phase = "cleanup" /\ bench < N THEN bench + 1 ELSE bench
    /\ phase' = CASE phase = "end" -> "shutdown"
                  [] phase = "cleanup" -> IF bench < N THEN "header" ELSE "end"
                  [] OTHER -> order[here + 1]

\* One fprintf(OUTPUT, ...).
Fprintf ==
    /\ phase \in Printing /\ out = <<>>
    /\ out' = Text(phase, bench)
    /\ Advance
    /\ UNCHANGED <<finished, pipe, closed, host>>

\* A kernel_init, kernel_control, kernel or kernel_cleanup returns.
Return ==
    /\ phase \in Running /\ out = <<>>
    /\ finished' = finished \cup {<<phase, bench>>}
    /\ Advance
    /\ UNCHANGED <<out, pipe, closed, host>>

\* Spinner or logging output inside one of them.
Noise ==
    /\ phase \in Running /\ out = <<>> /\ noise > 0
    /\ \E t \in IF phase \in {"control", "kernel"} THEN NoiseTexts ELSE InitTexts : out' = t
    /\ noise' = noise - 1
    /\ UNCHANGED <<bench, phase, finished, pipe, closed, host>>

\* A fatal error inside one of them: a message, and arch_abort spins.
Abort ==
    /\ phase \in Running /\ out = <<>>
    /\ \E t \in AbortTexts : out' = t
    /\ phase' = "aborted"
    /\ UNCHANGED <<bench, noise, finished, pipe, closed, host>>

\* putch_fn: one character of fprintf's buffer reaches the pipe when there is
\* room.  Mutant: it does not wait for room.
PutchNoWait ==
    /\ out # <<>> /\ ~closed
    /\ pipe' = Append(pipe, Head(out))
    /\ out' = Tail(out)
    /\ UNCHANGED <<bench, phase, noise, finished, closed, host>>
Putch ==
    /\ out # <<>> /\ ~closed /\ Len(pipe) < PipeSize
    /\ pipe' = Append(pipe, Head(out))
    /\ out' = Tail(out)
    /\ UNCHANGED <<bench, phase, noise, finished, closed, host>>

\* The simulator exits: it is stopped after the run, it gets SIGPIPE once the
\* host is gone, or it dies.
SimulatorExit ==
    /\ ~closed
    /\ MayDie \/ hpc = "done" \/ (phase = "shutdown" /\ out = <<>>)
    /\ closed' = TRUE
    /\ phase' = "exited"
    /\ out' = <<>>
    /\ UNCHANGED <<bench, noise, finished, pipe, host>>

\* platform_shutdown and arch_abort never return.
Spin == phase \in {"shutdown", "aborted", "exited"} /\ out = <<>> /\ UNCHANGED vars

------------------------------------------------------------------------------
(* The host *)

\* The next character, or end of file; the host blocks while there is none.
Readable == pipe # <<>> \/ closed
Next1 == IF pipe # <<>> THEN Head(pipe) ELSE Eof
Consume == pipe' = IF pipe # <<>> THEN Tail(pipe) ELSE <<>>
HostOnly == Readable /\ UNCHANGED <<guest, closed>>

NoLine == [cat |-> <<>>, name |-> <<>>, iter |-> <<>>, control |-> FALSE]

\* read_benchmark returns 1 and main ends.  Mutant: it is called again.
ScanFailsOn ==
    /\ hpc' = "cat" /\ word' = <<>> /\ line' = NoLine
    /\ reports' = Append(reports, [line |-> line, time |-> "unset"])
    /\ UNCHANGED pipe
ScanFails == hpc' = "done" /\ UNCHANGED <<pipe, word, line, reports>>

\* getline in read_start, until the BEGIN line.
ReadStart ==
    /\ hpc = "line" /\ HostOnly
    /\ Consume
    /\ word' = IF Next1.class = "newline" THEN <<>> ELSE Append(word, Next1)
    /\ hpc' = CASE Next1 = Eof -> "done"
                [] Next1 = Nl /\ word = <<Begin>> -> "cat"
                [] OTHER -> "line"
    /\ UNCHANGED <<line, reports>>

\* A %s or %lx directive skips white space, gathers the characters of Class
\* and ends before the first other one; it fails when it has gathered none.
Scan(from, Class, into, to) ==
    /\ hpc = from /\ HostOnly
    /\ \/ /\ Next1.class \in Class \/ (Next1.class \in White /\ word = <<>>)
          /\ Consume
          /\ word' = IF Next1.class \in Class THEN Append(word, Next1) ELSE <<>>
          /\ UNCHANGED <<hpc, line, reports>>
       \/ /\ Next1.class \notin Class /\ word # <<>>
          /\ hpc' = to /\ word' = <<>>
          /\ line' = [line EXCEPT ![into] = word]
          /\ UNCHANGED <<pipe, reports>>
       \/ /\ Next1.class \notin Class \cup White /\ word = <<>>
          /\ ScanFails

\* fscanf(stdin, "%s - %s %lx ", category, benchmark, &iterations).
ScanCategory == Scan("cat", NonWhite, "cat", "dash")
ScanDash ==
    /\ hpc = "dash" /\ HostOnly
    /\ \/ Next1.class \in White /\ Consume /\ UNCHANGED host
       \/ /\ Next1.class = "dash" /\ Consume
          /\ hpc' = "name" /\ UNCHANGED <<word, line, reports>>
       \/ Next1.class \notin White \cup {"dash"} /\ ScanFails
ScanName == Scan("name", NonWhite, "name", "iter")
ScanIterations == Scan("iter", {"hex"}, "iter", "gap")
ScanGap ==
    /\ hpc = "gap" /\ HostOnly
    /\ \/ Next1.class \in White /\ Consume /\ UNCHANGED host
       \/ /\ Next1.class \notin White /\ hpc' = "start"
          /\ UNCHANGED <<pipe, word, line, reports>>

\* What %lx makes of the digits.
HexValue(digits) == FoldLeft(LAMBDA n, c : 16 * n + c.of, 0, digits)

\* The printf that ends read_benchmark; without "[" the time is never set.
Report(time) ==
    /\ reports' = Append(reports, [line |-> [line EXCEPT !.iter = HexValue(@)], time |-> time])
    /\ line' = NoLine /\ hpc' = "cat"

\* read_timing_start_char, called for "{" or "[" and, after a control, again.
ReadTimingStart ==
    /\ hpc \in {"start", "restart"} /\ HostOnly
    /\ Consume
    /\ UNCHANGED word
    /\ \/ Next1.class \in Skipped /\ UNCHANGED <<hpc, line, reports>>
       \/ Next1.class = "[" /\ hpc' = "kernel" /\ UNCHANGED <<line, reports>>
       \/ Next1.class = "{" /\ hpc = "start" /\ hpc' = "control" /\ UNCHANGED <<line, reports>>
       \/ /\ Next1.class \notin Skipped \cup {"["}
          /\ ~(Next1.class = "{" /\ hpc = "start")
          /\ Report("unset")

\* read_timing_end_char: any character but a skipped one stops the clock, the
\* bracket or not, and the result is ignored.
ReadTimingEnd ==
    /\ hpc \in {"control", "kernel"} /\ HostOnly
    /\ Consume
    /\ UNCHANGED word
    /\ \/ Next1.class \in Skipped /\ UNCHANGED <<hpc, line, reports>>
       \/ /\ Next1.class \notin Skipped /\ hpc = "control" /\ hpc' = "restart"
          /\ line' = [line EXCEPT !.control = TRUE] /\ UNCHANGED reports
       \/ Next1.class \notin Skipped /\ hpc = "kernel" /\ Report("measured")

------------------------------------------------------------------------------
Init ==
    /\ bench = IF N > 0 THEN 1 ELSE 0
    /\ phase = IF N > 0 THEN "header" ELSE "end"
    /\ out = BootText \o <<Nl, Nl, Begin, Nl>>
    /\ noise = NoiseMax /\ finished = {}
    /\ pipe = <<>> /\ closed = FALSE
    /\ hpc = "line" /\ word = <<>> /\ line = NoLine /\ reports = <<>>

GuestNext == Fprintf \/ Return \/ Noise \/ Abort \/ Putch
HostNext ==
    \/ ReadStart \/ ScanCategory \/ ScanDash \/ ScanName \/ ScanIterations \/ ScanGap
    \/ ReadTimingStart \/ ReadTimingEnd
Next == GuestNext \/ SimulatorExit \/ HostNext \/ Spin

\* The simulator and the host are both scheduled, and kernels return.
Fairness == WF_vars(GuestNext) /\ WF_vars(HostNext)
Spec == Init /\ [][Next]_vars /\ Fairness

------------------------------------------------------------------------------
(* Properties *)

TypeOK ==
    /\ bench \in 0..N
    /\ phase \in Printing \cup Running \cup {"shutdown", "aborted", "exited"}
    /\ noise \in 0..NoiseMax
    /\ finished \subseteq Running \X (0..N)
    /\ Len(pipe) <= PipeSize /\ closed \in BOOLEAN
    /\ hpc \in {"line", "cat", "dash", "name", "iter", "gap", "start", "restart",
                "control", "kernel", "done"}

\* A report that shows benchmark b as the harness printed it, with a control
\* time when it has a control.
Genuine(r, b) ==
    /\ r.line = [cat |-> CatText(b), name |-> NameText(b), iter |-> Iterations[b],
                 control |-> b \in HasControl]
    /\ r.time = "measured"

\* The host reports the benchmarks in link order with their own names, both
\* times, and the iteration counts that they have, after printing and scanning,
\* however the simulator and the host interleave.
ReportsInOrder == \A b \in DOMAIN reports : b \in 1..N /\ Genuine(reports[b], b)

\* A report with a time is of a kernel (and a control) that has returned: the
\* host stops a benchmark's clock, in read_timing_end_char, only after a whole
\* run of what it times.
TimedWhenFinished ==
    \A b \in DOMAIN reports : reports[b].time = "measured" =>
        /\ <<"kernel", b>> \in finished
        /\ b \in HasControl => <<"control", b>> \in finished

\* Whatever stops the guest (an abort whose message lands in the stream, a
\* simulator that dies), only the last line reported can be wrong.
OnlyLastSpoiled ==
    \A b \in 1..(Len(reports) - 1) :
        b <= N /\ Genuine(reports[b], b) /\ <<"kernel", b>> \in finished

\* A run without faults ends with every benchmark reported.
AllReported == <>(hpc = "done" /\ Len(reports) = N)

\* Once the simulator is gone the host ends.
HostStops == closed ~> (hpc = "done")
==============================================================================
