------------------------------- MODULE FstFile -------------------------------
(***************************************************************************)
(* The parts an FST file is made of, as vhdl/fst.ts reads them: the blocks *)
(* of the file, the names of its signals, the values a block starts with   *)
(* and the changes of one signal.  The writer (libfst) is external: what   *)
(* it means is chosen, written, and read back.                             *)
(***************************************************************************)
EXTENDS Integers, Sequences, FiniteSets, SequencesExt

CONSTANTS
  Deltas,   \* steps between the time stamps of a block
  Names,    \* names of scopes and signals
  Strings,  \* values of a string signal
  TimeCounts, \* how many times a block may have
  MaxParts, \* bounds the blocks and entries
  None

\* Assumed of the constants where they are given values.
FileAssumption ==
  /\ Deltas \subseteq Nat /\ TimeCounts \subseteq Nat /\ Strings \subseteq Seq(STRING)
  /\ MaxParts \in Nat \ {0} /\ None \notin STRING \cup Strings

VARIABLES
  what,   \* "file", "names", "frame" or "changes"
  meant,  \* what the writer means
  cut,    \* how much of what it wrote is there
  got     \* what is read: not yet, refused or a value

vars == <<what, meant, cut, got>>

NotYet == [kind |-> "not yet"]
Refused == [kind |-> "refused"]
Gives(value) == [kind |-> "read", value |-> value]
-----------------------------------------------------------------------------
\* Numbers of seven bits a byte, the lowest first: what is left of one after each byte, and its bytes.
Left(n) == LET left[j \in Nat] == IF j = 0 THEN n ELSE left[j - 1] \div 128 IN left
SizeOfVarint(n) == CHOOSE size \in 1 .. n + 1 : Left(n)[size] = 0 /\ \A j \in 1 .. size - 1 : Left(n)[j] # 0
WrittenVarint(n) ==
  [i \in 1 .. SizeOfVarint(n) |-> IF i = SizeOfVarint(n) THEN Left(n)[i - 1] ELSE 128 + (Left(n)[i - 1] % 128)]

\* The least place after a byte below 128.
AfterVarint(bytes, at) == 1 + CHOOSE i \in at .. Len(bytes) : bytes[i] < 128 /\ \A j \in at .. i - 1 : bytes[j] >= 128
Varint(bytes, at) ==
  LET after == AfterVarint(bytes, at)
      value[i \in at .. after] == IF i = after THEN 0 ELSE (bytes[i] % 128) + 128 * value[i + 1]
  IN value[at]
-----------------------------------------------------------------------------
\* The blocks.  A length counts its own byte and the contents, not the type before it.
Types == {"changes", "geometry", "hierarchy"}
WrittenBlocks(types) ==
  LET changes == Cardinality({k \in DOMAIN types : types[k] = "changes"})
      block(n) == IF n = 1 THEN <<"header", 2, changes>> ELSE <<types[n - 1], 2, "contents">>
  IN FlattenSeq([n \in 1 .. Len(types) + 1 |-> block(n)])

\* A block that runs past the end of the file.
Torn == [type |-> "torn", section |-> <<>>]
NextBlock(file, r) ==
  LET end == IF r.offset + 1 > Len(file) THEN Len(file) + 1 ELSE r.offset + file[r.offset + 1]
  IN IF r.offset > Len(file) THEN r
     ELSE IF end > Len(file) THEN [offset |-> Len(file) + 1, blocks |-> Append(r.blocks, Torn)]
     ELSE [offset |-> end + 1,
           blocks |-> Append(r.blocks, [type |-> file[r.offset], section |-> SubSeq(file, r.offset + 1, end)])]
BlocksOf(file) ==
  LET after[n \in 0 .. Len(file)] == IF n = 0 THEN [offset |-> 1, blocks |-> <<>>] ELSE NextBlock(file, after[n - 1])
  IN after[Len(file)].blocks

OfType(blocks, type) == {k \in DOMAIN blocks : blocks[k].type = type}
CountMatches(blocks) == Cardinality(OfType(blocks, "changes")) = blocks[1].section[2]

\* What the constructor wants of the blocks.
Readable(blocks) ==
  /\ Torn \notin ToSet(blocks)
  /\ blocks # <<>> /\ blocks[1].type = "header"
  /\ Cardinality(OfType(blocks, "geometry")) = 1 /\ Cardinality(OfType(blocks, "hierarchy")) = 1
  /\ CountMatches(blocks)
ReadFile(file) ==
  LET blocks == BlocksOf(file)
  IN IF Readable(blocks) THEN Gives([k \in DOMAIN Tail(blocks) |-> Tail(blocks)[k].type]) ELSE Refused
-----------------------------------------------------------------------------
\* The names: entries of a tag and, after it, bytes, strings and numbers.  (A tag may be of no type that is known.)
Entries == [tag : {"scope"}, name : Names] \cup {[tag |-> "upscope"], [tag |-> "attribute"], [tag |-> "end"], [tag |-> "unknown"]}
           \cup [tag : {"variable"}, name : Names, alias : 0 .. 1]
WrittenEntry(e) ==
  CASE e.tag = "scope" -> <<"scope", "type", e.name, "component">>
    [] e.tag = "attribute" -> <<"attribute", "type", "subtype", "upscope", 0>>
    [] e.tag = "variable" -> <<"variable", "direction", e.name, 8, e.alias>>
    [] OTHER -> <<e.tag>>
WrittenNames(entries) == FlattenSeq([k \in DOMAIN entries |-> WrittenEntry(entries[k])])

\* How many of what follows a tag belongs to it.
SizeOf(tag) == CASE tag = "scope" -> 4 [] tag = "attribute" -> 5 [] tag = "variable" -> 5 [] OTHER -> 1

\* One entry more, in a file that gives widths for so many signals.
NextName(section, widths, r) ==
  LET tag == section[r.at]
      read == [r EXCEPT !.at = @ + SizeOf(tag)]
      refused == [r EXCEPT !.refused = TRUE]
      name == section[r.at + 2]
      alias == section[r.at + 4]
      handle == IF alias = 0 THEN r.handles + 1 ELSE alias
  IN IF r.refused \/ r.at > Len(section) THEN r
     ELSE CASE tag = "scope" -> [read EXCEPT !.scopes = Append(@, name)]
            [] tag = "upscope" -> IF r.scopes = <<>> THEN refused ELSE [read EXCEPT !.scopes = Front(@)]
            [] tag = "variable" /\ handle <= widths ->
                 [read EXCEPT !.handles = IF alias = 0 THEN handle ELSE @,
                    !.names = Append(@, [path |-> Append(r.scopes, name), handle |-> handle])]
            [] tag = "variable" /\ handle > widths -> refused
            [] tag = "unknown" -> refused
            [] OTHER -> read
NoNames == [at |-> 1, scopes |-> <<>>, handles |-> 0, names |-> <<>>, refused |-> FALSE]
NamesOf(section, widths) ==
  LET after[n \in 0 .. Len(section)] == IF n = 0 THEN NoNames ELSE NextName(section, widths, after[n - 1])
  IN after[Len(section)]
ReadNames(section, widths) ==
  IF NamesOf(section, widths).refused THEN Refused ELSE Gives(NamesOf(section, widths).names)

\* What the entries mean: the scopes open after each, and how many of some are among the first k.
Opens(entries) ==
  LET opens[k \in 0 .. Len(entries)] ==
        IF k = 0 THEN <<>>
        ELSE CASE entries[k].tag = "scope" -> Append(opens[k - 1], entries[k].name)
               [] entries[k].tag = "upscope" -> Front(opens[k - 1])
               [] OTHER -> opens[k - 1]
  IN opens
Tagged(entries, tag) == {k \in DOMAIN entries : entries[k].tag = tag}
New(entries) == {k \in Tagged(entries, "variable") : entries[k].alias = 0}
UpTo(places, k) == Cardinality({j \in places : j <= k})
HandleAt(entries, k) == IF entries[k].alias = 0 THEN UpTo(New(entries), k) ELSE entries[k].alias
NameAt(entries, k) == [path |-> Append(Opens(entries)[k], entries[k].name), handle |-> HandleAt(entries, k)]
MeantNames(entries) ==
  LET variables == Tagged(entries, "variable")
      place(i) == CHOOSE k \in variables : UpTo(variables, k) = i
  IN [i \in 1 .. Cardinality(variables) |-> NameAt(entries, place(i))]
Balanced(entries) ==
  \A k \in DOMAIN entries : UpTo(Tagged(entries, "upscope"), k) <= UpTo(Tagged(entries, "scope"), k)
HaveWidths(entries, widths) == \A k \in Tagged(entries, "variable") : HandleAt(entries, k) <= widths
-----------------------------------------------------------------------------
\* The values.  A signal has some bits, a real of eight bytes, or a string; a bit may be in a state that is not known to the
\* reader, and a string change may be one it cannot read (None).
Widths == {"1", "9", "real", "string"}
Nine(first, bit) == <<first, bit, bit, bit, bit, bit, bit, bit, first>>
ValuesOf(width) ==
  CASE width = "1" -> {<<"0">>, <<"1">>, <<"x">>, <<"?">>}
    [] width = "9" -> {Nine("0", "1"), Nine("1", "0"), Nine("1", "z"), Nine("1", "?")}
    [] width = "real" -> {[i \in 1 .. 8 |-> "r"]}
    [] width = "string" -> Strings \cup {None}

\* What the reader makes a value of.
BitStates == {"0", "1", "x", "z", "u", "w", "l", "h", "-"}
Legible(width, value) ==
  CASE width = "real" -> TRUE
    [] width = "string" -> value # None
    [] OTHER -> \A i \in DOMAIN value : value[i] \in BitStates
\* What the writer should not have written.
Foreign(width, value) == IF width = "string" THEN value = None ELSE \E i \in DOMAIN value : value[i] = "?"

\* The values a block starts with: no string has one.
InFrame(width, value) == IF width = "string" THEN <<>> ELSE value
WrittenFrame(signals) == FlattenSeq([h \in DOMAIN signals |-> InFrame(signals[h].width, signals[h].value)])
RoomOf(width) == CASE width = "1" -> 1 [] width = "9" -> 9 [] width = "real" -> 8 [] width = "string" -> 0
FrameOffset(signals, h) ==
  LET offset[g \in 1 .. Len(signals)] == IF g = 1 THEN 0 ELSE offset[g - 1] + RoomOf(signals[g - 1].width)
  IN offset[h]
\* Every signal asked for: no file with one that cannot be read is.
ReadFrame(signals, frame) ==
  LET inFrame == {h \in DOMAIN signals : signals[h].width # "string"}
      read(h) == SubSeq(frame, FrameOffset(signals, h) + 1, FrameOffset(signals, h) + RoomOf(signals[h].width))
  IN IF \A h \in inFrame : Legible(signals[h].width, read(h))
     THEN Gives([h \in DOMAIN signals |-> IF h \in inFrame THEN read(h) ELSE None])
     ELSE Refused
MeantFrame(signals) == [h \in DOMAIN signals |-> IF signals[h].width = "string" THEN None ELSE signals[h].value]

\* The changes of a signal: of each, the steps from the time of the last one and how its value is stored.
States == <<"x", "z", "h", "u", "w", "l", "-", "?">>
Packed(bits) == \A i \in DOMAIN bits : bits[i] \in {"0", "1"}
Weights == <<128, 64, 32, 16, 8, 4, 2, 1>>
BitsOf(byte) == [i \in 1 .. 8 |-> IF (byte \div Weights[i]) % 2 = 1 THEN "1" ELSE "0"]
ByteOf(bits) ==
  LET worth(i) == IF i <= Len(bits) /\ bits[i] = "1" THEN Weights[i] ELSE 0
  IN worth(1) + worth(2) + worth(3) + worth(4) + worth(5) + worth(6) + worth(7) + worth(8)
CodeOf(state) == (CHOOSE i \in DOMAIN States : States[i] = state) - 1
WrittenChange(width, step, value) ==
  CASE width = "1" /\ Packed(value) -> WrittenVarint(4 * step + (IF value = <<"1">> THEN 2 ELSE 0))
    [] width = "1" /\ ~Packed(value) -> WrittenVarint(16 * step + 2 * CodeOf(value[1]) + 1)
    [] width = "9" /\ Packed(value) -> WrittenVarint(2 * step) \o <<ByteOf(SubSeq(value, 1, 8)), ByteOf(SubSeq(value, 9, 9))>>
    [] width = "9" /\ ~Packed(value) -> WrittenVarint(2 * step + 1) \o value
    [] width = "real" -> WrittenVarint(2 * step + 1) \o value
    [] width = "string" /\ value # None -> WrittenVarint(2 * step) \o WrittenVarint(Len(value)) \o value
    [] width = "string" /\ value = None -> WrittenVarint(2 * step + 1)
WrittenChanges(m) == FlattenSeq([k \in DOMAIN m.changes |-> WrittenChange(m.width, m.changes[k].step, m.changes[k].value)])

OneBitStep(head) == IF head % 2 = 1 THEN head \div 16 ELSE head \div 4
ValueAt(width, head, bytes, at) ==
  CASE width = "1" -> <<IF head % 2 = 1 THEN States[((head \div 2) % 8) + 1] ELSE IF (head \div 2) % 2 = 1 THEN "1" ELSE "0">>
    [] width = "9" /\ head % 2 = 1 -> SubSeq(bytes, at, at + 8)
    [] width = "9" /\ head % 2 = 0 -> SubSeq(BitsOf(bytes[at]) \o BitsOf(bytes[at + 1]), 1, 9)
    [] width = "real" -> SubSeq(bytes, at, at + 7)
    [] width = "string" /\ head % 2 = 1 -> None
    [] width = "string" /\ head % 2 = 0 -> SubSeq(bytes, AfterVarint(bytes, at), AfterVarint(bytes, at) + Varint(bytes, at) - 1)
AfterValue(width, head, bytes, at) ==
  CASE width = "1" -> at
    [] width = "9" -> IF head % 2 = 1 THEN at + 9 ELSE at + 2
    [] width = "real" -> at + 8
    [] width = "string" -> IF head % 2 = 1 THEN at ELSE AfterVarint(bytes, at) + Varint(bytes, at)

NextChange(width, bytes, r) ==
  LET head == Varint(bytes, r.at)
      at == AfterVarint(bytes, r.at)
      here == r.index + (IF width = "1" THEN OneBitStep(head) ELSE head \div 2)
  IN IF r.at > Len(bytes) THEN r
     ELSE [at |-> AfterValue(width, head, bytes, at), index |-> here,
           changes |-> Append(r.changes, [index |-> here, value |-> ValueAt(width, head, bytes, at)])]
NoChanges == [at |-> 1, index |-> 0, changes |-> <<>>]
ChangesOf(width, bytes) ==
  LET after[n \in 0 .. Len(bytes)] == IF n = 0 THEN NoChanges ELSE NextChange(width, bytes, after[n - 1])
  IN after[Len(bytes)].changes
\* A change that cannot be read, or is past the last time of its block, ends the reading of the file.
ReadChanges(m, bytes) ==
  LET all == ChangesOf(m.width, bytes)
  IN IF \A k \in DOMAIN all : Legible(m.width, all[k].value) /\ all[k].index < m.times THEN Gives(all) ELSE Refused
MeantChanges(m) ==
  LET index[k \in 0 .. Len(m.changes)] == IF k = 0 THEN 0 ELSE index[k - 1] + m.changes[k].step
  IN [k \in DOMAIN m.changes |-> [index |-> index[k], value |-> m.changes[k].value]]
-----------------------------------------------------------------------------
Init ==
  /\ got = NotYet
  /\ \/ /\ what = "file" /\ meant \in BoundedSeq(Types, MaxParts) /\ cut \in 0 .. Len(WrittenBlocks(meant))
     \/ /\ what = "names" /\ meant \in [entries : BoundedSeq(Entries, MaxParts), widths : 0 .. 2] /\ cut = 0
     \/ /\ what = "frame" /\ meant \in BoundedSeq(UNION {[width : {w}, value : ValuesOf(w)] : w \in Widths}, 2) /\ cut = 0
     \/ /\ what = "changes" /\ cut = 0
        /\ \E w \in Widths :
             meant \in [width : {w}, times : TimeCounts, changes : BoundedSeq([step : Deltas, value : ValuesOf(w)], 2)]

Read ==
  /\ got = NotYet
  /\ got' = CASE what = "file" -> ReadFile(SubSeq(WrittenBlocks(meant), 1, cut))
              [] what = "names" -> ReadNames(WrittenNames(meant.entries), meant.widths)
              [] what = "frame" -> ReadFrame(meant, WrittenFrame(meant))
              [] what = "changes" -> ReadChanges(meant, WrittenChanges(meant))
  /\ UNCHANGED <<what, meant, cut>>
Spec == Init /\ [][Read]_vars
-----------------------------------------------------------------------------
(***************************************************************************)
(* Names, start values and changes are read as they were meant, with the   *)
(* flags, steps and lengths of any size between them, or the file is       *)
(* refused, and that exactly when there is something the writer should not *)
(* have written: a scope closed that was not open, an entry of no known    *)
(* type, a signal without a width, a state of a bit or a string change     *)
(* that is not known, a change past the times of its block.                *)
(***************************************************************************)
ReadsWhatWasMeant == got # NotYet =>
  CASE what = "names" ->
         LET good == Balanced(meant.entries) /\ Tagged(meant.entries, "unknown") = {} /\ HaveWidths(meant.entries, meant.widths)
         IN got = IF good THEN Gives(MeantNames(meant.entries)) ELSE Refused
    [] what = "frame" ->
         LET bad == \E h \in DOMAIN meant : meant[h].width # "string" /\ Foreign(meant[h].width, meant[h].value)
         IN got = IF bad THEN Refused ELSE Gives(MeantFrame(meant))
    [] what = "changes" ->
         LET bad == \E k \in DOMAIN meant.changes :
                      Foreign(meant.width, meant.changes[k].value) \/ MeantChanges(meant)[k].index >= meant.times
         IN got = IF bad THEN Refused ELSE Gives(MeantChanges(meant))
    [] OTHER -> TRUE

(***************************************************************************)
(* A file is read whole or refused: one that was cut off anywhere, also    *)
(* between two blocks, is never read as that of a shorter run, and none    *)
(* is read with its names or widths missing or told twice.                 *)
(***************************************************************************)
WholeOrRefused == (what = "file" /\ got # NotYet) =>
  LET of(types, type) == Cardinality({k \in DOMAIN types : types[k] = type})
      once(types) == \A type \in {"geometry", "hierarchy"} : of(types, type) = 1
  IN /\ cut = Len(WrittenBlocks(meant)) /\ once(meant) => got = Gives(meant)
     /\ got # Refused => once(got.value) /\ of(got.value, "changes") = of(meant, "changes")
                        /\ got.value = SubSeq(meant, 1, Len(got.value))
=============================================================================
