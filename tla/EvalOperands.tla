----------------------------- MODULE EvalOperands -----------------------------
(***************************************************************************)
(* rars_eval (tools/eval.ts): the operands of each case become a program,  *)
(* RARS runs it and stores a result word for each case, and the words it   *)
(* dumps become the results.  Words are Width bits wide here, not 32, and  *)
(* immediates and shift amounts are scaled down with them.  RARS, and how  *)
(* rars_run fares with it, are external.                                   *)
(***************************************************************************)
EXTENDS Integers, Sequences

CONSTANTS
  Width, ImmediateBits, ShiftBits,  \* 32, 12 and 5 in the code
  Requests,                         \* what is asked: sequences of cases
  None

VARIABLES
  cases,  \* each case: op, rs1, rs2 and imm, the last two None when left out
  shown   \* not yet, refused, failed, or the results

vars == <<cases, shown>>

NotYet == [kind |-> "not yet"]
Refused == [kind |-> "refused"]
RunFailed == [kind |-> "failed"]
Results(rows) == [kind |-> "results", rows |-> rows]

RegisterOps == {"add", "slt", "sltu", "sra"}
ShiftOps == {"srai"}
ImmediateOps == {"addi", "slti", "sltiu"} \cup ShiftOps
OperandTexts == [form : {"hex"}, value : Nat] \cup [form : {"decimal", "malformed"}, value : Int]
Cases == [op : RegisterOps \cup ImmediateOps, rs1 : OperandTexts, rs2 : OperandTexts \cup {None},
          imm : OperandTexts \cup {None}]

\* The powers of two.
Two[n \in Nat] == IF n = 0 THEN 1 ELSE 2 * Two[n - 1]

\* Assumed of the constants where they are given values.
EvalAssumption ==
  /\ Width \in Nat /\ ShiftBits \in Nat /\ Two[ShiftBits] = Width /\ ImmediateBits \in 1 .. Width - 1
  /\ Requests \subseteq Seq(Cases) /\ None \notin Int /\ None \notin OperandTexts
-----------------------------------------------------------------------------
(* The operands.  A text or number is its form and its value. *)

Hex(n) == [form |-> "hex", value |-> n]
Decimal(n) == [form |-> "decimal", value |-> n]
Malformed == [form |-> "malformed", value |-> 0]
Signed(n) == IF n >= Two[Width - 1] THEN n - Two[Width] ELSE n
Unsigned(n) == n % Two[Width]

WordRange(operand) ==
  CASE operand.form = "hex" -> 0 .. Two[Width] - 1
    [] operand.form = "decimal" -> -(Two[Width - 1]) .. Two[Width] - 1
    [] OTHER -> {}
WordOf(operand) == IF operand.value \in WordRange(operand) THEN Unsigned(operand.value) ELSE None

\* Faulty variant: the field is not sign-extended.
FieldAsIs(field) == field
SignExtended(field) == IF field >= Two[ImmediateBits - 1] THEN field - Two[ImmediateBits] ELSE field
ImmediateOf(op, operand) ==
  LET bits == IF op \in ShiftOps THEN ShiftBits ELSE ImmediateBits
      low == IF op \in ShiftOps THEN 0 ELSE -(Two[ImmediateBits - 1])
      high == IF op \in ShiftOps THEN Two[ShiftBits] - 1 ELSE Two[ImmediateBits - 1] - 1
  IN CASE operand.form = "hex" /\ operand.value < Two[bits] ->
            IF op \in ShiftOps THEN operand.value ELSE SignExtended(operand.value)
       [] operand.form = "decimal" /\ operand.value \in low .. high -> operand.value
       [] OTHER -> None

Accepts(case) ==
  /\ WordOf(case.rs1) # None
  /\ IF case.op \in ImmediateOps
     THEN case.rs2 = None /\ case.imm # None /\ ImmediateOf(case.op, case.imm) # None
     ELSE case.imm = None /\ case.rs2 # None /\ WordOf(case.rs2) # None

Operands(case) ==
  IF case.imm = None THEN [op |-> case.op, a |-> WordOf(case.rs1), b |-> WordOf(case.rs2), imm |-> None]
  ELSE LET value == ImmediateOf(case.op, case.imm)
       IN [op |-> case.op, a |-> WordOf(case.rs1), b |-> Unsigned(value), imm |-> value]
-----------------------------------------------------------------------------
(* The program and the machine that runs it, whose registers are read as signed. *)

Alu(op, x, y) ==
  CASE op \in {"add", "addi"} -> Unsigned(x + y)
    [] op \in {"slt", "slti"} -> IF Signed(Unsigned(x)) < Signed(Unsigned(y)) THEN 1 ELSE 0
    [] op \in {"sltu", "sltiu"} -> IF Unsigned(x) < Unsigned(y) THEN 1 ELSE 0
    [] op \in {"sra", "srai"} -> Unsigned(Signed(Unsigned(x)) \div Two[Unsigned(y) % Width])

\* What one case puts into the program: li t0, then li t1 or an immediate, then the op.
Line(o) == [op |-> o.op, t0 |-> Signed(o.a), operand |-> IF o.imm = None THEN Signed(o.b) ELSE o.imm]
Program(operands) == [k \in DOMAIN operands |-> Line(operands[k])]
Stored(program) == [k \in DOMAIN program |-> Alu(program[k].op, program[k].t0, program[k].operand)]

\* What rars_run returns of the dump: every word, or fewer when RARS did not write them.
Dumped(words) == {SubSeq(words, 1, n) : n \in 0 .. Len(words)}
Row(o, rd) == [op |-> o.op, rs1 |-> o.a, rs2 |-> IF o.imm = None THEN o.b ELSE None, imm |-> o.imm,
               rd |-> rd, signed |-> Signed(rd), zero |-> rd = 0]
Shown(operands, words) ==
  IF Len(words) = Len(operands) THEN Results([k \in DOMAIN words |-> Row(operands[k], words[k])]) ELSE RunFailed

Init == cases \in Requests /\ shown = NotYet
Eval ==
  /\ shown = NotYet
  /\ \/ /\ \E k \in DOMAIN cases : ~Accepts(cases[k])
        /\ shown' = Refused
     \/ /\ \A k \in DOMAIN cases : Accepts(cases[k])
        /\ LET operands == [k \in DOMAIN cases |-> Operands(cases[k])]
           IN shown' \in {Shown(operands, words) : words \in Dumped(Stored(Program(operands)))} \cup {RunFailed}
  /\ UNCHANGED cases
-----------------------------------------------------------------------------
\* What an operand means: any number that is the same bits, an immediate's in its field.
Bits(n, size) == {b \in 0 .. size - 1 : (n \div Two[b]) % 2 = 1}

(***************************************************************************)
(* A result is that of the operands asked for, taken as the bits they are  *)
(* whether written in hex, signed or unsigned, with an immediate's sign in *)
(* every bit above its field; there is one for each case or none at all.   *)
(***************************************************************************)
EvaluatesWhatWasAsked == shown.kind = "results" =>
  /\ Len(shown.rows) = Len(cases)
  /\ \A k \in DOMAIN cases :
       LET row == shown.rows[k]
           asked == cases[k]
           second == IF asked.imm = None THEN row.rs2 ELSE Unsigned(row.imm)
       IN /\ row.op = asked.op
          /\ Bits(row.rs1, Width) = Bits(asked.rs1.value, Width)
          /\ asked.imm = None => Bits(second, Width) = Bits(asked.rs2.value, Width)
          /\ asked.imm # None =>
               LET size == IF asked.op \in ShiftOps THEN ShiftBits ELSE ImmediateBits
                   sign == asked.op \notin ShiftOps /\ size - 1 \in Bits(asked.imm.value, size)
               IN Bits(second, Width) = Bits(asked.imm.value, size) \cup (IF sign THEN size .. Width - 1 ELSE {})
          /\ row.rd = Alu(row.op, row.rs1, second)
          /\ Unsigned(row.signed) = row.rd /\ row.zero = (row.signed = 0)
=============================================================================
