----------------------------- MODULE ServerParts -----------------------------
(***************************************************************************)
(* The parts of the server and of the bridge that share no state with any  *)
(* other: the client's roots (WorkspaceRoots, which this module extends),  *)
(* the stdio proxy, the search for a desktop session, the Tcl of a do file *)
(* and the lists of its vcom, the sites of a mutation, the operands of     *)
(* rars_eval, and in the bridge its output, its encoder and its decoder.   *)
(* A behaviour is of one of them, chosen at the start; the variables of    *)
(* the others are None.                                                    *)
(***************************************************************************)
EXTENDS WorkspaceRoots, Integers

CONSTANTS
  None,
  MaxRead, Sessions,                               \* of StdioProxy
  Desktops, Ports, Incompatible, Connects,         \* of LiveConnect
  Files, MaxDepth, MaxLines,                       \* of DoFileScript
  Vcoms, ListTexts, PathKinds,                     \* of CompileLists
  Designs, Texts, Finds,                           \* of MutationSites
  WordWidth, ImmediateBits, ShiftBits, Requests,   \* of EvalOperands
  Limit, MaxBytes, MaxChunk,                       \* of ProgramOutput
  Count, Instructions, Labels, Reach,              \* of InstructionEncoder
  Encodings                                        \* of InstructionDecoder

VARIABLES
  part,  \* which of the parts
  lines, line, body, heard, written, sessionId, opened, phase,
  desktops, tokenFile, portFile, connects,
  script, stack, onerror, depth, cwd, steps, raised, answering, status, ownOnerror, wasIn, happened, stopped,
  errors,  \* of DoFileScript, CompileLists and InstructionEncoder
  disk, arguments, compiles, ok,
  design, find, done, found,
  cases, shown,
  buffer, kept, truncated, takenBytes, output, wrote, total, run,
  sources, targets, result,
  word, rv64, format, fields

Proxy == INSTANCE StdioProxy WITH MaxLines <- MaxRead
Live == INSTANCE LiveConnect WITH Nobody <- None
Script == INSTANCE DoFileScript
Lists == INSTANCE CompileLists WITH Commands <- Vcoms, Kinds <- PathKinds
Sites == INSTANCE MutationSites
Eval == INSTANCE EvalOperands WITH Width <- WordWidth
Output == INSTANCE ProgramOutput WITH text <- output
Encode == INSTANCE InstructionEncoder
Decode == INSTANCE InstructionDecoder WITH Words <- Encodings

ASSUME PartsAssumption ==
  /\ Proxy!ProxyAssumption /\ Live!LiveAssumption /\ Script!ScriptAssumption /\ Sites!SitesAssumption
  /\ Eval!EvalAssumption /\ Output!OutputAssumption /\ Encode!EncoderAssumption /\ Decode!WordsAssumption

rootsVars == vars
proxyVars == <<lines, line, body, heard, written, sessionId, opened, phase>>
liveVars == <<desktops, tokenFile, portFile, connects>>
scriptVars == <<script, stack, onerror, depth, cwd, steps, raised, answering, status, ownOnerror, wasIn, happened, stopped>>
listsVars == <<disk, arguments, compiles, ok>>
sitesVars == <<design, find, done, found>>
evalVars == <<cases, shown>>
outputVars == <<buffer, kept, truncated, takenBytes, output, wrote, total, run>>
encodeVars == <<sources, targets, result>>
decodeVars == <<word, rv64, format, fields>>
serverVars == <<rootsVars, proxyVars, liveVars, scriptVars, listsVars, sitesVars, evalVars>>
bridgeVars == <<outputVars, encodeVars, decodeVars>>
partsVars == <<part, errors, serverVars, bridgeVars>>

NoProxy ==
  /\ lines = None /\ line = None /\ body = None /\ heard = None /\ written = None
  /\ sessionId = None /\ opened = None /\ phase = None
NoLive == desktops = None /\ tokenFile = None /\ portFile = None /\ connects = None
NoScript ==
  /\ script = None /\ stack = None /\ onerror = None /\ depth = None /\ cwd = None /\ steps = None /\ raised = None
  /\ answering = None /\ status = None /\ ownOnerror = None /\ wasIn = None /\ happened = None /\ stopped = FALSE
NoLists == disk = None /\ arguments = None /\ compiles = None /\ ok = None
NoSites == design = None /\ find = None /\ done = None /\ found = None
NoEval == cases = None /\ shown = None
NoOutput ==
  /\ buffer = None /\ kept = None /\ truncated = None /\ takenBytes = None
  /\ output = None /\ wrote = None /\ total = None /\ run = None
NoEncode == sources = None /\ targets = None /\ result = None
NoDecode == word = None /\ rv64 = None /\ format = None /\ fields = None

\* The roots are a machine of every behaviour, at rest in those of another part.
PartsInit ==
  /\ Init
  /\ part \in {"roots", "proxy", "live", "script", "lists", "sites", "eval", "output", "encode", "decode"}
  /\ IF part = "proxy" THEN Proxy!Init ELSE NoProxy
  /\ IF part = "live" THEN Live!Init ELSE NoLive
  /\ IF part = "script" THEN Script!Init ELSE NoScript
  /\ IF part = "lists" THEN Lists!Init ELSE NoLists
  /\ IF part = "sites" THEN Sites!Init ELSE NoSites
  /\ IF part = "eval" THEN Eval!Init ELSE NoEval
  /\ IF part = "output" THEN Output!Init ELSE NoOutput
  /\ IF part = "encode" THEN Encode!Init ELSE NoEncode
  /\ IF part = "decode" THEN Decode!Init ELSE NoDecode
  /\ part \notin {"script", "lists", "encode"} => errors = None

Client ==
  \/ /\ part = "roots" /\ Next
     /\ UNCHANGED <<proxyVars, liveVars>>
  \/ /\ part = "proxy" /\ Proxy!Next
     /\ UNCHANGED <<rootsVars, liveVars>>
  \/ /\ part = "live" /\ Live!Next
     /\ UNCHANGED <<rootsVars, proxyVars>>
Vhdl ==
  \/ /\ part = "script" /\ Script!Next
     /\ UNCHANGED <<listsVars, sitesVars>>
  \/ /\ part = "lists" /\ Lists!Check
     /\ UNCHANGED <<scriptVars, sitesVars>>
  \/ /\ part = "sites" /\ Sites!Next
     /\ UNCHANGED <<errors, scriptVars, listsVars>>
Assemble == part = "encode" /\ Encode!Next /\ UNCHANGED <<part, serverVars, outputVars, decodeVars>>
Evaluate == part = "eval" /\ Eval!Eval
Capture == part = "output" /\ Output!Next
Disassemble == part = "decode" /\ Decode!Decode
PartsNext ==
  \/ Client /\ UNCHANGED <<part, errors, scriptVars, listsVars, sitesVars, evalVars, bridgeVars>>
  \/ Vhdl /\ UNCHANGED <<part, rootsVars, proxyVars, liveVars, evalVars, bridgeVars>>
  \/ Evaluate /\ UNCHANGED <<part, errors, rootsVars, proxyVars, liveVars, scriptVars, listsVars, sitesVars, bridgeVars>>
  \/ Assemble
  \/ Capture /\ UNCHANGED <<part, errors, serverVars, encodeVars, decodeVars>>
  \/ Disassemble /\ UNCHANGED <<part, errors, serverVars, outputVars, encodeVars>>
\* encode is one synchronous call.
PartsSpec == PartsInit /\ [][PartsNext]_partsVars /\ WF_partsVars(Assemble)
-----------------------------------------------------------------------------
(***************************************************************************)
(* The lines of a stdio client are answered in order, each with all that   *)
(* the server sent or with an error alone when that did not come whole; a  *)
(* request is left without either only by the server; and a proxy that is  *)
(* done leaves no session there (StdioProxy).                              *)
(***************************************************************************)
AnsweredOnceInOrder == part = "proxy" => Proxy!AnsweredOnceInOrder /\ Proxy!SessionEnded

(***************************************************************************)
(* A live session is with a desktop session that has the token found, a    *)
(* call that failed keeps no connection, and one that says the desktop has *)
(* ended is right; none fails over files that do not change (LiveConnect). *)
(***************************************************************************)
FindsTheDesktop == part = "live" => Live!SessionIsLive /\ Live!StaleHasEnded

(***************************************************************************)
(* A do file is followed as tclsh runs it: onerror holds in the file that  *)
(* sets it and the files that file runs, each error is reported once and   *)
(* where it happened, and the folder followed is the one the script is in  *)
(* (DoFileScript).                                                         *)
(***************************************************************************)
DoFileFollowed == part = "script" => Script!OnerrorScoped /\ Script!ReportedOnce /\ Script!FoldersFollowed

(***************************************************************************)
(* The script stops at its first error that nobody resumes after           *)
(* (DoFileScript).                                                         *)
(***************************************************************************)
StopsAtError == Script!StopsAtError

(***************************************************************************)
(* A vcom compiles what it says with the words of its lists in their       *)
(* place, each from the folder its list gives it, and the check is ok      *)
(* exactly when all of that is there (CompileLists).                       *)
(***************************************************************************)
ListsInTheirPlace == part = "lists" => Lists!AsWrittenInPlace /\ Lists!OkIsOk

(***************************************************************************)
(* Mutations are tried where the grammar has an operator or an assigned    *)
(* bit, and nowhere else; a substitution changes each occurrence           *)
(* (MutationSites).                                                        *)
(***************************************************************************)
SitesRight == part = "sites" => Sites!SitesAreOperators /\ Sites!OccurrencesAreAll

(***************************************************************************)
(* rars_eval answers each case asked for with the operands as they were    *)
(* written, or none (EvalOperands).  The fields of a word, put back where  *)
(* the RISC-V manual has them, are the word again, and an immediate has    *)
(* its sign (InstructionDecoder).                                          *)
(***************************************************************************)
BitsRight ==
  /\ part = "eval" => Eval!EvaluatesWhatWasAsked
  /\ part = "decode" => Decode!FieldsMakeTheWord /\ Decode!ImmediatesKeepTheSign

(***************************************************************************)
(* However writes and takes interleave, no take splits a character, loses  *)
(* one or hands one over twice; stdout and stderr together keep to the     *)
(* limit, and "truncated" says exactly when something was dropped          *)
(* (ProgramOutput).                                                        *)
(***************************************************************************)
OutputKept == part = "output" => Output!TakesDoNotSplit /\ Output!LimitIsShared

(***************************************************************************)
(* In whatever order errors are reported, those instructions fail that are *)
(* wrong in themselves or use a label only such ones define, no other but  *)
(* one that defines a label again, and every numeric target is as far from *)
(* its instruction as was asked for, in the program that is assembled now  *)
(* (InstructionEncoder).                                                   *)
(***************************************************************************)
InstructionsRight == part = "encode" => Encode!TargetsFresh /\ Encode!OthersStillEncode /\ Encode!AllErrorsFound

(***************************************************************************)
(* The attempts to assemble the instructions end (InstructionEncoder).     *)
(***************************************************************************)
AttemptsEnd == part = "encode" => Encode!AttemptsEnd
=============================================================================
