---------------------------- MODULE ServerPartsMC ----------------------------
\* Values for the constants of ServerParts.
EXTENDS ServerParts

TextsOver(words, sizes) == UNION {[1 .. n -> words] : n \in sizes}

\* A vcom of a list or a file, of two lists, and with a library; lists that name each other, by two names.
SomeCommands ==
  {<<"-f", "l">>, <<"-F", "l">>, <<"-f", "sub/l">>, <<"-F", "sub/l">>, <<"-work", "-f", "l">>, <<"-f", "l", "x">>, <<"-f", "l", "-F", "l">>,
   <<"x", "-F", "sub/l">>, <<"-F", "sub/l", "-f", "l", "sub/x">>}
SomeListTexts == {t \in TextsOver({"-f", "-F", "-work", "l", "sub/l", "../l", "x"}, 0 .. 3) :
  /\ t # <<>> => t[Len(t)] \notin {"-f", "-F"}
  /\ Len(t) > 1 => t[1] \in {"-f", "-F"} /\ t[2] \notin {"-f", "-F", "-work"}
  /\ Len(t) > 2 => t[3] \in {"x", "-work"}}

\* Two statements: none or one of every kind, and one of every kind around any expression.
SomeDesigns ==
  LET compared == Sites!N \o Sites!Mutable("<=") \o Sites!N
      tests == {Sites!N, Sites!Bit(FALSE), Sites!Bit(FALSE) \o Sites!Mutable("and") \o Sites!N, compared,
                Sites!Fixed(<<"+", "name">>), Sites!N \o Sites!Mutable("+") \o Sites!Bit(FALSE)}
      first == {<<>>} \cup Sites!Statements(Sites!Bit(TRUE), compared)
      second == UNION {Sites!Statements(v, t) : v \in Sites!Expressions(TRUE), t \in tests}
  IN {a \o b : a \in first, b \in second}
SomeTexts == TextsOver({"a", "b"}, 0 .. 5)
SomeFinds == TextsOver({"a", "b"}, 1 .. 3)

\* Operands and immediates of both forms around the ends of their ranges; and a few requests of two cases.
SomeOperands ==
  UNION {{Eval!Hex(n), Eval!Decimal(n)} : n \in {0, 1, 127, 128, 200, 255, 256}}
  \cup {Eval!Decimal(n) : n \in {-1, -128, -129}} \cup {Eval!Malformed}
SomeImmediates ==
  UNION {{Eval!Hex(n), Eval!Decimal(n)} : n \in {0, 1, 7, 8, 15, 16}}
  \cup {Eval!Decimal(n) : n \in {-1, -8, -9}} \cup {Eval!Malformed, None}
SomeRequests ==
  LET ops == Eval!RegisterOps \cup Eval!ImmediateOps
      all == [op : ops, rs1 : SomeOperands, rs2 : {None}, imm : SomeImmediates]
             \cup [op : ops, rs1 : SomeOperands, rs2 : SomeOperands, imm : {None}]
             \cup [op : ops, rs1 : {Eval!Hex(1)}, rs2 : {Eval!Hex(1)}, imm : {Eval!Hex(1)}]
      few == {c \in all : /\ c.op \in {"sltu", "addi"} /\ c.rs1 \in {Eval!Hex(255), Eval!Decimal(-1)}
                          /\ c.imm = Eval!Hex(15) \/ c.rs2 \in {Eval!Decimal(-128), Eval!Hex(256)}}
  IN {<<c>> : c \in all} \cup {<<c, d>> : c \in few, d \in few}

Plain(size) == [size |-> size, target |-> None, label |-> None, uses |-> None, broken |-> FALSE]
Labelled(l) == [Plain(4) EXCEPT !.label = l]
\* Of each kind: one and two words, nothing, one that RARS refuses, numeric targets near, odd and out of reach,
\* a branch to the label of another; and labels of instructions that are right, wrong and use another's.
EachKind ==
  {Plain(4), Plain(8), Plain(0), [Plain(4) EXCEPT !.broken = TRUE]}
  \cup {[Plain(4) EXCEPT !.target = offset] : offset \in {-4, 8, 3, 40}}
  \cup {Labelled(l) : l \in Labels} \cup {[Plain(8) EXCEPT !.uses = l] : l \in Labels}
  \cup {[Labelled("a") EXCEPT !.broken = TRUE], [Labelled("a") EXCEPT !.target = 40]}
  \cup {[Labelled("a") EXCEPT !.uses = "b"], [Labelled("b") EXCEPT !.uses = "a"]}

BitsOf(n) == {b \in 0 .. 6 : (n \div 2^b) % 2 = 1}
\* Every opcode of a 32-bit instruction RARS has, and two others.
Opcodes ==
  {\h33, \h3b, \h53, \h43, \h47, \h4b, \h4f, \h03, \h07, \h0f, \h13, \h1b,
   \h67, \h73, \h23, \h27, \h63, \h37, \h17, \h6f, \h2f, \h7b}
\* Above it no bit, one, one with one of funct3 or with the sign, or all but one.
Patterns ==
  LET above == 7 .. 31
  IN {{}} \cup {above \ {b} : b \in above} \cup {{a, b} : a \in above, b \in 12 .. 14 \cup {31}}
     \cup {{a} : a \in above}
FewBits == {BitsOf(opcode) \cup pattern : opcode \in Opcodes, pattern \in Patterns}
=============================================================================
