------------------------------ MODULE WaveQuery ------------------------------
(***************************************************************************)
(* What wave_query reads: the values of a VCD file (VcdDump) or of an FST  *)
(* file (FstReplay), through the same sampler; and the parts before that,  *)
(* the times of the query in ticks (WaveTime), the blocks, names, start    *)
(* values and changes an FST file is made of (FstFile) and the table of    *)
(* one of its blocks (ChainTable).  A behaviour is of one of them, chosen  *)
(* at the start; the variables of the others are None.                     *)
(***************************************************************************)
EXTENDS Integers, Sequences

CONSTANTS
  Values, MaxTime, None,                                  \* of both readers
  VcdIds, VcdWatched, TimeLike, VcdQueries, MaxItems,     \* of VcdDump
  FstIds, FstWatched, Framed, FstQueries, MaxChanges,     \* of FstReplay
  Count, Lengths,                                         \* of ChainTable
  Deltas, Names, Strings, TimeCounts, MaxParts,           \* of FstFile
  Units, Magnitudes, Texts, Counts                        \* of WaveTime

VARIABLES
  reading,  \* "vcd", "fst", "file", "table" or "times"
  query, pending, answered, rows, current, beyond, outcome,
  time, wave,                              \* of both readers
  unread, value, skipping, first, bad, items,
  blocks, begins, framed, block, open, position,
  what, meant, cut, got,
  layout, repeats, chains, timescale, text, count, asked, given

Vcd == INSTANCE VcdDump WITH Ids <- VcdIds, Watched <- VcdWatched, Queries <- VcdQueries
Fst == INSTANCE FstReplay WITH Ids <- FstIds, Watched <- FstWatched, Queries <- FstQueries
File == INSTANCE FstFile
Chain == INSTANCE ChainTable
Time == INSTANCE WaveTime

ASSUME WaveQueryAssumption ==
  Vcd!VcdAssumption /\ Fst!FstAssumption /\ File!FileAssumption /\ Chain!ChainAssumption /\ Time!TimeAssumption

samplerVars == <<query, pending, answered, rows, current, beyond>>
readerVars == <<time, wave>>
vcdVars == <<unread, value, skipping, first, bad, items>>
fstVars == <<blocks, begins, framed, block, open, position>>
fileVars == <<what, meant, cut, got>>
tableVars == <<layout, repeats, chains>>
timesVars == <<timescale, text, count, asked, given>>
vars == <<reading, outcome, samplerVars, readerVars, vcdVars, fstVars, fileVars, tableVars, timesVars>>

NoSampler ==
  /\ query = None /\ pending = None /\ answered = None /\ rows = None /\ current = None /\ beyond = None
  /\ time = None /\ wave = None
NoVcd == unread = None /\ value = None /\ skipping = None /\ first = None /\ bad = None /\ items = None
NoFst == blocks = None /\ begins = None /\ framed = None /\ block = None /\ open = None /\ position = None
NoFile == what = None /\ meant = None /\ cut = None /\ got = None
NoTable == layout = None /\ repeats = None /\ chains = None
NoTimes == timescale = None /\ text = None /\ count = None /\ asked = None /\ given = None

Init ==
  \/ reading = "vcd" /\ Vcd!Init /\ NoFst /\ NoFile /\ NoTable /\ NoTimes
  \/ reading = "fst" /\ Fst!Init /\ NoVcd /\ NoFile /\ NoTable /\ NoTimes
  \/ reading = "file" /\ File!Init /\ outcome = None /\ NoSampler /\ NoVcd /\ NoFst /\ NoTable /\ NoTimes
  \/ reading = "table" /\ Chain!Init /\ NoSampler /\ NoVcd /\ NoFst /\ NoFile /\ NoTimes
  \/ reading = "times" /\ Time!Init /\ outcome = None /\ NoSampler /\ NoVcd /\ NoFst /\ NoFile /\ NoTable

ReadVcd == reading = "vcd" /\ Vcd!Next /\ UNCHANGED <<reading, fstVars, fileVars, tableVars, timesVars>>
ReadFst == reading = "fst" /\ Fst!Next /\ UNCHANGED <<reading, vcdVars, fileVars, tableVars, timesVars>>
ReadFile ==
  /\ reading = "file" /\ File!Read
  /\ UNCHANGED <<reading, outcome, samplerVars, readerVars, vcdVars, fstVars, tableVars, timesVars>>
ReadTable ==
  /\ reading = "table" /\ Chain!Read
  /\ UNCHANGED <<reading, samplerVars, readerVars, vcdVars, fstVars, fileVars, timesVars>>
ReadTimes ==
  /\ reading = "times" /\ Time!Query
  /\ UNCHANGED <<reading, outcome, samplerVars, readerVars, vcdVars, fstVars, fileVars, tableVars>>
Next == ReadVcd \/ ReadFst \/ ReadFile \/ ReadTable \/ ReadTimes
\* A query is one synchronous call.  (A VCD file ends when the simulator that writes it does.)
Spec == Init /\ [][Next]_vars /\ WF_vars(ReadFst)
-----------------------------------------------------------------------------
(***************************************************************************)
(* "Each value is the last change at or before that time", in a VCD file   *)
(* whatever its tokens look like; every time asked for has its row, marked *)
(* as outside the file exactly when it is; and a file is refused only for  *)
(* what its writer should not have written, not for what nobody asked for  *)
(* (VcdDump).                                                              *)
(***************************************************************************)
VcdRowsRight == reading = "vcd" => Vcd!LastChange /\ Vcd!MarkedOutside /\ Vcd!RefusesBadOnly

(***************************************************************************)
(* The same in an FST file, however the run was cut into blocks and        *)
(* wherever the replay stops early; one is refused only when its blocks    *)
(* overlap, not when they meet at one time (FstReplay).                    *)
(***************************************************************************)
FstRowsRight == reading = "fst" => Fst!LastChange /\ Fst!MarkedOutside /\ Fst!RefusesDamagedOnly

(***************************************************************************)
(* The merge of an FST block's streams ends, whichever runs out first.     *)
(***************************************************************************)
ReplayEnds == reading = "fst" => Fst!ReplayEnds

(***************************************************************************)
(* The names, start values and changes of an FST file are read as its      *)
(* writer meant them, and a file that was cut off is refused, wherever     *)
(* that was (FstFile); each signal's changes are read from where they were *)
(* put in their block (ChainTable).                                        *)
(***************************************************************************)
ReadsTheLayout ==
  /\ reading = "file" => File!ReadsWhatWasMeant /\ File!WholeOrRefused
  /\ reading = "table" => Chain!ReadsTheLayout

(***************************************************************************)
(* The ticks of a time asked for are those of the last tick at or before it; *)
(* a time given back, in the largest unit that fits it, can be asked for   *)
(* again (WaveTime).                                                       *)
(***************************************************************************)
TimesInTicks == reading = "times" => Time!LastTickBefore /\ Time!GivenIsAsked /\ Time!LargestUnit
=============================================================================
