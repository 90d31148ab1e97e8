-------------------------- MODULE InstructionDecoder --------------------------
(***************************************************************************)
(* An instruction word split into the fields of its format                 *)
(* (sim/InstructionDecoder.java).  A word is the set of its bits that are  *)
(* 1, so that none needs more than the integers of the checker; the code's *)
(* "|" joins parts that share no bit, and is + here.                       *)
(***************************************************************************)
EXTENDS Integers

CONSTANT Words  \* the words decoded

\* Assumed of the constants where they are given values.
WordsAssumption == Words \subseteq SUBSET (0 .. 31)

VARIABLES
  word,     \* the word
  rv64,     \* whether RARS assembles for RV64
  format,   \* its format: "none" before it is decoded, "refused" when its opcode is unknown
  fields    \* the value of each of its fields

vars == <<word, rv64, format, fields>>

\* The powers of two.
Two[n \in Nat] == IF n = 0 THEN 1 ELSE 2 * Two[n - 1]

Bits(high, low) ==
  LET from[b \in low .. high + 1] == IF b > high THEN 0 ELSE (IF b \in word THEN 1 ELSE 0) + 2 * from[b + 1]
  IN from[low]
\* word >> low, which keeps the sign.
SignedFrom(low) == Bits(31, low) - (IF 31 \in word THEN Two[32 - low] ELSE 0)

Opcode == Bits(6, 0)
Funct3 == Bits(14, 12)

FormatOf(opcode) ==
  CASE opcode \in {\h33, \h3b, \h53} -> "R"
    [] opcode \in {\h43, \h47, \h4b, \h4f} -> "R4"
    [] opcode \in {\h03, \h07, \h0f, \h13, \h1b, \h67, \h73} -> "I"
    [] opcode \in {\h23, \h27} -> "S"
    [] opcode = \h63 -> "B"
    [] opcode \in {\h37, \h17} -> "U"
    [] opcode = \h6f -> "J"
    [] OTHER -> "refused"

IsShift == Opcode \in {\h13, \h1b} /\ Funct3 \in {1, 5}
IsCsr == Opcode = \h73 /\ Funct3 % 4 # 0
ShiftWidth == IF Opcode = \h13 /\ rv64 THEN 6 ELSE 5

StoreOffset == SignedFrom(25) * Two[5] + Bits(11, 7)
BranchOffset == SignedFrom(31) * Two[12] + Bits(7, 7) * Two[11] + Bits(30, 25) * Two[5] + Bits(11, 8) * Two[1]
JumpOffset == SignedFrom(31) * Two[20] + Bits(19, 12) * Two[12] + Bits(20, 20) * Two[11] + Bits(30, 21) * Two[1]

Rd == Bits(11, 7)
Rs1 == Bits(19, 15)
Rs2 == Bits(24, 20)
CsrNumber == Bits(31, 20)

ShiftFields ==
  IF ShiftWidth = 6
  THEN [opcode |-> Opcode, rd |-> Rd, funct3 |-> Funct3, rs1 |-> Rs1, shamt |-> Bits(25, 20), funct6 |-> Bits(31, 26)]
  ELSE [opcode |-> Opcode, rd |-> Rd, funct3 |-> Funct3, rs1 |-> Rs1, shamt |-> Bits(24, 20), funct7 |-> Bits(31, 25)]
CsrFields ==
  IF Funct3 \in 4 .. 7
  THEN [opcode |-> Opcode, rd |-> Rd, funct3 |-> Funct3, uimm |-> Rs1, csr |-> CsrNumber]
  ELSE [opcode |-> Opcode, rd |-> Rd, funct3 |-> Funct3, rs1 |-> Rs1, csr |-> CsrNumber]

FieldsOf(of) ==
  CASE of = "R" -> [opcode |-> Opcode, rd |-> Rd, funct3 |-> Funct3, rs1 |-> Rs1, rs2 |-> Rs2, funct7 |-> Bits(31, 25)]
    [] of = "R4" -> [opcode |-> Opcode, rd |-> Rd, funct3 |-> Funct3, rs1 |-> Rs1, rs2 |-> Rs2,
                     funct2 |-> Bits(26, 25), rs3 |-> Bits(31, 27)]
    [] of = "I" /\ IsShift -> ShiftFields
    [] of = "I" /\ IsCsr -> CsrFields
    [] of = "I" /\ ~IsShift /\ ~IsCsr ->
         [opcode |-> Opcode, rd |-> Rd, funct3 |-> Funct3, rs1 |-> Rs1, imm |-> SignedFrom(20)]
    [] of = "S" -> [opcode |-> Opcode, funct3 |-> Funct3, rs1 |-> Rs1, rs2 |-> Rs2, imm |-> StoreOffset]
    [] of = "B" -> [opcode |-> Opcode, funct3 |-> Funct3, rs1 |-> Rs1, rs2 |-> Rs2, imm |-> BranchOffset]
    [] of = "U" -> [opcode |-> Opcode, rd |-> Rd, imm |-> Bits(31, 12)]
    [] of = "J" -> [opcode |-> Opcode, rd |-> Rd, imm |-> JumpOffset]
    [] OTHER -> <<>>

Init == word \in Words /\ rv64 \in BOOLEAN /\ format = "none" /\ fields = <<>>
Decode ==
  /\ format = "none"
  /\ format' = FormatOf(Opcode)
  /\ fields' = FieldsOf(format')
  /\ UNCHANGED <<word, rv64>>
Spec == Init /\ [][Decode]_vars
-----------------------------------------------------------------------------
Signed == "imm" \in DOMAIN fields /\ format # "U"
TypeOK ==
  /\ word \subseteq 0 .. 31 /\ rv64 \in BOOLEAN
  /\ format \in {"none", "refused", "R", "R4", "I", "S", "B", "U", "J"}
  /\ \A name \in DOMAIN fields : fields[name] \in Int /\ (fields[name] >= 0 \/ (name = "imm" /\ Signed))

\* The RISC-V manual: the parts of an instruction, bits high to low of a field and where in the word the lowest is.
Part(field, high, low, at) == {[field |-> field, high |-> high, low |-> low, at |-> at]}
Layout ==
  LET opcode == Part("opcode", 6, 0, 0)
      target == opcode \cup Part("rd", 4, 0, 7)
      source == Part("funct3", 2, 0, 12) \cup Part("rs1", 4, 0, 15)
      sources == source \cup Part("rs2", 4, 0, 20)
      wide == CASE IsShift /\ Opcode = \h13 /\ rv64 -> source \cup Part("shamt", 5, 0, 20) \cup Part("funct6", 5, 0, 26)
                [] IsShift /\ ~(Opcode = \h13 /\ rv64) -> source \cup Part("shamt", 4, 0, 20) \cup Part("funct7", 6, 0, 25)
                [] IsCsr /\ 14 \in word -> Part("funct3", 2, 0, 12) \cup Part("uimm", 4, 0, 15) \cup Part("csr", 11, 0, 20)
                [] IsCsr /\ 14 \notin word -> source \cup Part("csr", 11, 0, 20)
                [] ~IsShift /\ ~IsCsr -> source \cup Part("imm", 11, 0, 20)
  IN CASE format = "R" -> target \cup sources \cup Part("funct7", 6, 0, 25)
       [] format = "R4" -> target \cup sources \cup Part("funct2", 1, 0, 25) \cup Part("rs3", 4, 0, 27)
       [] format = "I" -> target \cup wide
       [] format = "S" -> opcode \cup sources \cup Part("imm", 4, 0, 7) \cup Part("imm", 11, 5, 25)
       [] format = "B" -> opcode \cup sources \cup Part("imm", 11, 11, 7) \cup Part("imm", 4, 1, 8)
                          \cup Part("imm", 10, 5, 25) \cup Part("imm", 12, 12, 31)
       [] format = "U" -> target \cup Part("imm", 19, 0, 12)
       [] format = "J" -> target \cup Part("imm", 19, 12, 12) \cup Part("imm", 11, 11, 20)
                          \cup Part("imm", 10, 1, 21) \cup Part("imm", 20, 20, 31)

\* The bits of a field, as far as the checker counts; and those of a part, where they are in the word.
Ones(field) == {b \in 0 .. 30 : (fields[field] \div Two[b]) % 2 = 1}
Carried(part) == {part.at + b - part.low : b \in Ones(part.field) \cap part.low .. part.high}
Has(field, b) == \E part \in Layout : part.field = field /\ b \in part.low .. part.high
Above(field, b) == \A part \in Layout : part.field = field => b > part.high

(***************************************************************************)
(* The fields are those the RISC-V manual lays out for the format; put     *)
(* where it has them they are the word again, so that nothing is lost or   *)
(* taken from the wrong bits; nothing else is in them but the sign; and an *)
(* immediate is negative exactly when the word's sign bit is set.          *)
(***************************************************************************)
FieldsMakeTheWord ==
  format \notin {"none", "refused"} =>
    /\ DOMAIN fields = {part.field : part \in Layout}
    /\ word = UNION {Carried(part) : part \in Layout}
    /\ \A field \in DOMAIN fields : \A b \in Ones(field) : Has(field, b) \/ (fields[field] < 0 /\ Above(field, b))
ImmediatesKeepTheSign == Signed => (fields["imm"] < 0 <=> 31 \in word)
=============================================================================
