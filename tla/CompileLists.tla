----------------------------- MODULE CompileLists -----------------------------
(***************************************************************************)
(* What a recorded vcom compiles (expandLists, parseArguments and          *)
(* analyzeSteps of vhdl/dofile.ts) and how dofile_check reports it         *)
(* (tools/dofile.ts): a list file named with -f or -F is replaced by the   *)
(* arguments in it, which may name further lists.  A name resolves from a  *)
(* folder, so that the same list has several names.                        *)
(***************************************************************************)
EXTENDS Naturals, Sequences, SequencesExt, FiniteSetsExt

CONSTANTS
  Commands,   \* the arguments of vcom
  ListTexts,  \* the arguments a list file may hold
  Kinds       \* what else a path may be: "missing", "directory", "outside"

VARIABLES
  disk,      \* what each path is: the text of a list file, "source" or another kind
  arguments, \* the arguments of vcom
  compiles,  \* the files compiled: [file, folder, library, list]
  errors,    \* of each error, the path it is about and why
  ok         \* "not yet", or whether the report is of a script without a problem

vars == <<disk, arguments, compiles, errors, ok>>

\* The names in an argument: of a list and of a source, beside, in the folder below and in the one above.
Lists == {"l", "sub/l", "../l"}
Sources == {"x", "sub/x"}
Options == {"-f", "-F"}
Folders == {"start", "sub"}
\* External: the file system.  resolve(folder, name), then realpath.
Resolve(folder, name) ==
  [folder |-> CASE name \in {"l", "x"} -> folder
                [] name \in {"sub/l", "sub/x"} /\ folder = "start" -> "sub"
                [] name = "../l" /\ folder = "sub" -> "start"
                [] OTHER -> "nowhere",
   list |-> name \in Lists]
Paths == [folder : Folders \cup {"nowhere"}, list : BOOLEAN]
TypeOf(path) == disk[path].kind
File(text) == [kind |-> "file", text |-> text]
Other(kind) == [kind |-> kind, text |-> <<>>]
-----------------------------------------------------------------------------
Plain(word, context) == [value |-> word, folder |-> context.base, list |-> context.list]
NoList == "none"

\* Faulty variant: a -f list in a -F list resolves from the folder of the latter.
BaseStays(option, path, context) == IF option = "-F" THEN path.folder ELSE context.base
BaseOf(option, path, context) == IF option = "-F" THEN path.folder ELSE context.cwd

\* The folder of the command, the one names resolve from, the list that is read and those it is in.
Contexts == [cwd : Folders, base : Folders, list : STRING, chain : SUBSET Paths]

ExpandLists[job \in Seq(STRING) \X Contexts] ==
  LET args == job[1]
      context == job[2]
      Take(done, i) ==
        IF i < done.next THEN done
        ELSE IF args[i] \notin Options \/ i = Len(args)
        THEN [done EXCEPT !.next = i + 1, !.expanded = Append(@, Plain(args[i], context))]
        ELSE LET path == Resolve(context.base, args[i + 1])
                 inside == ExpandLists[<<disk[path].text,
                   [context EXCEPT !.base = BaseOf(args[i], path, context), !.list = args[i + 1], !.chain = @ \cup {path}]>>]
                 read == [done EXCEPT !.next = i + 2]
             IN IF TypeOf(path) # "file" THEN [read EXCEPT !.errors = Append(@, [path |-> path, why |-> "unread"])]
                ELSE IF path \in context.chain THEN [read EXCEPT !.errors = Append(@, [path |-> path, why |-> "itself"])]
                ELSE [read EXCEPT !.expanded = @ \o inside.expanded, !.errors = @ \o inside.errors]
  IN FoldLeft(Take, [next |-> 1, expanded |-> <<>>, errors |-> <<>>], [i \in DOMAIN args |-> i])

\* -work takes the argument after it; so does an option of a list at the end of a command.
ParseArguments(args) ==
  LET Parse(parsed, arg) ==
        IF parsed.option # "none"
        THEN [parsed EXCEPT !.option = "none", !.work = IF parsed.option = "-work" THEN arg.value ELSE @]
        ELSE IF arg.value \in Options \cup {"-work"} THEN [parsed EXCEPT !.option = arg.value]
        ELSE [parsed EXCEPT !.operands = Append(@, arg)]
  IN FoldLeft(Parse, [option |-> "none", work |-> "work", operands |-> <<>>], args)

Expanded == ExpandLists[<<arguments, [cwd |-> "start", base |-> "start", list |-> NoList, chain |-> {}]>>]

Analyze(expanded) ==
  LET parsed == ParseArguments(expanded)
      Compile(operand) == [file |-> operand.value, folder |-> operand.folder, list |-> operand.list, library |-> parsed.work]
  IN [k \in DOMAIN parsed.operands |-> Compile(parsed.operands[k])]

NotAFile(path) == TypeOf(path) # "file"

PathOf(compile) == Resolve(compile.folder, compile.file)
Check ==
  LET found == Analyze(Expanded.expanded) IN
  /\ ok = "not yet"
  /\ compiles' = found
  /\ errors' = Expanded.errors
  /\ ok' = IF errors' = <<>> /\ \A k \in DOMAIN found : ~NotAFile(PathOf(found[k])) THEN "yes" ELSE "no"
  /\ UNCHANGED <<disk, arguments>>

\* A text ends with no option: what it names would follow in the text around it.
Init ==
  /\ arguments \in Commands
  /\ \E lists \in [Folders -> {File(t) : t \in ListTexts} \cup {Other(k) : k \in Kinds}],
        sources \in [Folders -> {File(<<>>)} \cup {Other(k) : k \in Kinds}] :
       disk = [p \in Paths |-> IF p.folder = "nowhere" THEN Other("missing")
                               ELSE IF p.list THEN lists[p.folder] ELSE sources[p.folder]]
  /\ compiles = <<>> /\ errors = <<>> /\ ok = "not yet"

Spec == Init /\ [][Check]_vars
-----------------------------------------------------------------------------
(***************************************************************************)
(* The reference: the text of the command is rewritten, the first option   *)
(* of a list and its name replaced by the words of the list, until there   *)
(* is none.  Each word knows where it stands.                              *)
(***************************************************************************)
Standing(words, base, list, inside) ==
  [i \in DOMAIN words |-> [value |-> words[i], folder |-> base, list |-> list, inside |-> inside]]

Standings == [value : STRING, folder : Folders, list : STRING, inside : SUBSET Paths]

Rewritten[job \in Seq(Standings) \X SUBSET Paths] ==
  LET words == job[1]
      bad == job[2]
      options == {i \in 1 .. Len(words) - 1 : words[i].value \in Options}
  IN IF options = {} THEN [words |-> words, bad |-> bad]
     ELSE LET i == Min(options)
              name == words[i + 1]
              path == Resolve(words[i].folder, name.value)
              base == IF words[i].value = "-F" THEN path.folder ELSE "start"
              refused == TypeOf(path) # "file" \/ path \in name.inside
              text == IF refused THEN <<>> ELSE Standing(disk[path].text, base, name.value, name.inside \cup {path})
          IN Rewritten[<<SubSeq(words, 1, i - 1) \o text \o SubSeq(words, i + 2, Len(words)),
                         bad \cup (IF refused THEN {path} ELSE {})>>]
InFull == Rewritten[<<Standing(arguments, "start", NoList, {}), {}>>]

(***************************************************************************)
(* Lists are replaced "as if they were written in its place": what is      *)
(* compiled is what the command says once the text of its lists stands in  *)
(* it, each file from the folder its list gives it, into the library named *)
(* wherever it is named; and a list is refused only inside itself, under   *)
(* any name, never for being used twice.                                   *)
(***************************************************************************)
AsWrittenInPlace == ok # "not yet" =>
  /\ compiles = Analyze([i \in DOMAIN InFull.words |->
       [value |-> InFull.words[i].value, folder |-> InFull.words[i].folder, list |-> InFull.words[i].list]])
  /\ ToSet([k \in DOMAIN errors |-> errors[k].path]) = InFull.bad

(***************************************************************************)
(* The check says ok exactly when every list and every file the command    *)
(* comes to is a file of the workspace.                                    *)
(***************************************************************************)
OkIsOk == ok # "not yet" =>
  (ok = "yes" <=> InFull.bad = {} /\ \A k \in DOMAIN compiles : TypeOf(PathOf(compiles[k])) = "file")
=============================================================================
