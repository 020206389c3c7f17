--------------------------- MODULE MCHarnessHost ---------------------------
(***************************************************************************)
(* Instances of HarnessHost: three benchmarks, the second with a control.    *)
(***************************************************************************)
EXTENDS HarnessHost

MCControls == {2}

\* One digit, three, and the largest count that fits.
MCIterations == <<5, 476, 2^WordBits - 1>>

\* A simulator banner that does not end its line.
MCBoot == <<Ch("letter")>>

\* debug_spinner_start prints " ", debug_spinner "\b" and one of "|/-\".
MCSpinner == {<<Sp>>, <<Ch("spinner"), Ch("spinner")>>, <<Ch("spinner"), Ch("dash")>>}

\* "armv8: abort!\n" alone, and after "No IRQ handler registered!\n";
\* "x86-64: abort!\n", which an x86_64 debug build prints into the stream.
AbortText == <<Ch("hex"), Ch("letter"), Sp, Ch("hex"), Ch("letter"), Nl>>
X86AbortText ==
    <<Ch("letter"), Ch("hex"), Ch("dash"), Ch("hex"), Ch("letter"), Sp, Ch("hex"), Ch("letter"), Nl>>
MCAborts == {AbortText, <<Ch("letter"), Sp, Ch("letter"), Nl>> \o AbortText, X86AbortText}

\* "Taken exception with EC 0x15\n" of an armv8 debug build.
MCExceptionLog ==
    {<<Ch("letter"), Sp, Ch("hex"), Ch("letter"), Sp, Ch("letter"), Nl>>}
MCDebugNoise == MCSpinner \cup MCExceptionLog
============================================================================
