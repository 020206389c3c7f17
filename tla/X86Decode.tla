------------------------------ MODULE X86Decode ------------------------------
(***************************************************************************)
(* The length decoder of arch/x86_64/decode.c.  The page-fault handler     *)
(* that skips a faulting access adds the decoded length to the saved       *)
(* instruction pointer, so that a wrong length resumes in the middle of an *)
(* instruction.                                                            *)
(*                                                                         *)
(* An instruction is given by the fields that decide its length; operand   *)
(* registers, displacement values and immediates are left out, since only  *)
(* the length has a reader.                                                *)
(***************************************************************************)
EXTENDS Naturals, Sequences, SequencesExt

CONSTANTS
    PrefixBytes, \* prefix bytes: 0x66, 0x67, and 0x40 to 0x4f (REX)
    MaxPrefixes  \* an instruction has at most this many of them

ASSUME DecodeAssumption ==
    PrefixBytes \subseteq {\h66, \h67} \cup (\h40..\h4f) /\ MaxPrefixes \in Nat

\* 0x0f opens a two-byte opcode, which the code writes as 0x100 + second byte.
\* 0x1b6 (movzx) stands for all of them and 0x03 (add) for the one-byte
\* opcodes the decoder does not know.
Opcodes == {\h88, \h89, \h8a, \h8b, \ha1, \hc7, \h1b6, \h03}

\* The instructions that access memory (mod 3 names a register).
Instructions ==
    [prefixes : BoundedSeq(PrefixBytes, MaxPrefixes), opcode : Opcodes,
     mod : 0..2, rm : 0..7, base : {0, 5}]

------------------------------------------------------------------------------
(* The architecture's own rules for the length (external) *)

HasPrefix(i, p) == p \in ToSet(i.prefixes)
OpcodeBytes(i) == IF i.opcode >= \h100 THEN 2 ELSE 1
SibBytes(i) == IF i.rm = 4 THEN 1 ELSE 0
DisplacementBytes(i) ==
    CASE i.mod = 1 -> 1
      [] i.mod = 2 -> 4
      [] i.mod = 0 /\ (i.rm = 5 \/ (i.rm = 4 /\ i.base = 5)) -> 4
      [] OTHER -> 0
ImmediateBytes(i) ==
    IF i.opcode # \hc7 THEN 0
    ELSE IF HasPrefix(i, \h66) /\ \A w \in \h48..\h4f : ~HasPrefix(i, w) THEN 2 ELSE 4
Length(i) ==
    Len(i.prefixes) + OpcodeBytes(i)
      + (IF i.opcode = \ha1 THEN IF HasPrefix(i, \h67) THEN 4 ELSE 8
         ELSE 1 + SibBytes(i) + DisplacementBytes(i) + ImmediateBytes(i))

------------------------------------------------------------------------------
(* The decoder: bytes consumed, or Undecodable for a return of 0 *)

Undecodable == 0

\* read_prefixes takes any number of them in any order.
ReadPrefixes(i) == Len(i.prefixes)

\* The source and destination kinds that decode_instruction gives each opcode.
MovOperands(opcode) ==
    CASE opcode = \ha1 -> <<"moffs", "rax">>
      [] opcode = \h88 -> <<"r8", "rm8">>
      [] opcode = \h89 -> <<"r", "rm">>
      [] opcode = \h8a -> <<"rm8", "r8">>
      [] opcode = \h8b -> <<"rm", "r">>
      [] opcode = \hc7 -> <<"imm", "rm">>
      [] OTHER -> <<"unknown", "unknown">>

\* decode_reg_operand has all eight registers of both its kinds, with and
\* without REX, and refuses other kinds.
DecodeRegOperand(kind) == kind \in {"r8", "r"}

\* decode_rm_operand: the displacement by mod; SIB and rm = 5 are refused
\* under every mod.
RmAccepted(i) == i.mod # 3 /\ i.rm \notin {4, 5}
Displacement(i) == CASE i.mod = 0 -> 0 [] i.mod = 1 -> 1 [] i.mod = 2 -> 4

\* decode_mov: a ModR/M byte and its displacement, or an eight-byte offset.
\* Moves of an immediate are refused.
DecodeMov(i) ==
    LET source == MovOperands(i.opcode)[1]
        dest == MovOperands(i.opcode)[2]
        reg == IF source \in {"r8", "r"} THEN source ELSE dest
    IN  CASE source = "moffs" /\ dest = "rax" -> 8
          [] source \in {"r8", "r", "rm8", "rm"} /\ DecodeRegOperand(reg) /\ RmAccepted(i)
               -> 1 + Displacement(i)
          [] OTHER -> Undecodable

\* decode_instruction
DecodeInstruction(i) ==
    IF DecodeMov(i) = Undecodable THEN Undecodable
    ELSE ReadPrefixes(i) + OpcodeBytes(i) + DecodeMov(i)
==============================================================================
